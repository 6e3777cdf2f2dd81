SPECIFICATION FairSpec
CONSTANTS
  NumProcs = 5
  Locks = {l1}
  l1 = l1
CHECK_DEADLOCK FALSE
INVARIANTS
  ListsExact
  CpuIsUsed
  RestartNotLost
  LockExact
PROPERTIES
  ImplementsReadyQueue
  NoStarvation
  RestartServed
