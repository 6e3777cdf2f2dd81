SPECIFICATION Spec
CONSTANTS
  NumPages = 16
  StackPage = 14
  FragSizes = 1
  StackMax = 4
  Reserve = 1
  OwnerIds = 32
  ProcIds = 256
  Procs = {p1, p2}
  p1 = p1
  p2 = p2
  InitProc = p1
  TableLog = 1
  StackPages = 1
  Requests <- SmallRequests
  MaxLive <- FewBlocks
  MaxId = 2
CHECK_DEADLOCK FALSE
INVARIANTS
  AccountsExact
  NoOverlap
  BlocksHold
PROPERTIES
  FreedIsFree
