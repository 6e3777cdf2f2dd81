SPECIFICATION Spec
CONSTANTS
  p1 = p1
  p2 = p2
  Procs = {p1}
  Kind <- OneFile
  NumBufs = 3
  NumBlks = 3
  TableSize = 1
  InitSize = 3
  RefMod = 4
  MaxVersion = 2
  Behaviours = {"mem_short"}
CHECK_DEADLOCK FALSE
INVARIANTS
  DirtyScheduled
