SPECIFICATION Spec
CONSTANTS
  n0 = n0
  n1 = n1
  n2 = n2
  n3 = n3
  WorkersCount = 3
  Nodes = {n0, n1, n2, n3}
  Root = n0
  Deadlocks = {n3}
  Graphs <- MCGraphs
  NoItem = NoItem
INVARIANTS
  ExploresStateSpace
  WorkIsConserved
  QueuesAreServed
  CallsAreNested
PROPERTIES
  BusyWorkersAreLeftAlone
  Terminates
CHECK_DEADLOCK FALSE
