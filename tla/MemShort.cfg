SPECIFICATION Spec
CONSTANTS
  p1 = p1
  p2 = p2
  Procs = {p1, p2}
  Kind <- FileCon
  NumBufs = 2
  NumBlks = 1
  TableSize = 2
  InitSize = 1
  RefMod = 4
  MaxVersion = 1
  Behaviours = {"mem_short", "recreate"}
SYMMETRY ProcSymmetry
CHECK_DEADLOCK FALSE
INVARIANTS
  LockedWhileRead
  CacheInv
