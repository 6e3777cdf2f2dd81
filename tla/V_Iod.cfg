SPECIFICATION Spec
CONSTANTS
  p1 = p1
  p2 = p2
  p3 = p3
  Client = {p1, p2, p3}
  Iod = iod
  NumChn = 3
  TableSize = 3
  Stream = {}
  SrcLen = 0
  SrcBlk = 3
  DstBlk = 2
  MaxInput = 2
  MaxFrom = 4
  Uses = {"shared"}
  MemShort = FALSE
CHECK_DEADLOCK FALSE
INVARIANTS
  PoolKeeps
