SPECIFICATION Spec
CONSTANTS
  ProcessCount = 3
  Comms = {1, 2}
  Group <- MCGroup
  Tags = {1, 2}
  Slots = 2
  Programs <- RequestPrograms
  SendProtocol = "threshold"
  EagerThreshold = 1
  RendezvousThreshold = 2
INVARIANTS
  IdsAreUnique
  PromisesAreBacked
  DeadlockIsReal
  ActiveErrorIsReal
PROPERTIES
  HandlesFollowCompletion
