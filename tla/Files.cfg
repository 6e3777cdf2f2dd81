SPECIFICATION FairSpec
CONSTANTS
  p1 = p1
  p2 = p2
  Procs = {p1, p2}
  Kind <- FileCon
  NumBufs = 2
  NumBlks = 2
  TableSize = 1
  InitSize = 1
  RefMod = 256
  MaxVersion = 2
  Behaviours = {}
INVARIANTS
  TypeOK
  PoolPartition
  HeldNotFree
  RefcntExact
  OneCopy
  DirtyExact
  Coherent
  StreamReclaimed
PROPERTIES
  ImplementsStore
  DirtyWritten
  KernelYields
