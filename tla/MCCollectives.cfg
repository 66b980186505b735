SPECIFICATION Spec
CONSTANTS
  ProcessCount = 3
  None = None
  Programs <- MCPrograms
  RequestVars = 2
  CommVars = 4
  GroupVars = 2
INVARIANTS
  ResultsAreRight
  OperationsMatchCalls
  CommunicatorsAgree
  ErrorsAreExact
  AttributesAreAccounted
PROPERTIES
  Implements
