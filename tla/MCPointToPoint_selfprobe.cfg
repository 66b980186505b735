SPECIFICATION Spec
CONSTANTS
  ProcessCount = 3
  Comms = {1}
  Group <- MCGroup
  Tags = {1, 2}
  Slots = 2
  Programs <- SelfProbePrograms
  SendProtocol = "full"
  EagerThreshold = 0
  RendezvousThreshold = 0
INVARIANTS
  DeadlockIsReal
