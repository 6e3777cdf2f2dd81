SPECIFICATION Spec
CONSTANTS
  p1 = p1
  p2 = p2
  p3 = p3
  Client = {p1, p2, p3}
  Iod = iod
  NumChn = 2
  TableSize = 3
  Stream = {p3}
  SrcLen = 4
  SrcBlk = 3
  DstBlk = 2
  MaxInput = 2
  MaxFrom = 4
  Uses = {"immediate", "background"}
  MemShort = TRUE
CHECK_DEADLOCK FALSE
INVARIANTS
  ChannelsExact
  CopiedInOrder
PROPERTIES
  Served
