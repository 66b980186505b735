SPECIFICATION Spec
CONSTANTS
  ProcessCount = 3
  Comms = {"c1", "c2"}
  AnySource = AnySource
  None = None
  Programs <- Gate
INVARIANT AssertionsHold
