SPECIFICATION Spec
CONSTANTS
  Procs = {0, 1}
  Comms = {1}
  Tags = {1, 2}
  Any = Any
  AnySource = Any
  AnyTag = Any
  Batches <- MCBatches
  MaxPosted = 3
INVARIANTS
  OneToOne
  NonOvertaking
  PostingOrder
CHECK_DEADLOCK FALSE
