SPECIFICATION Spec
CONSTANTS
  W = 3
  NoCall = NoCall
  B = 2
  Proto = 2
  Echo = 1
  MaxData = 3
  Addresses = {0, 7, 15}
  NoPacket = NoPacket
  NameMax = 4
  MaxPath = 8
  StreamSize = 6
  StrSize = 6
  MaxArgs = 2
  NoKeys = NoKeys
  Commands <- MCCommands
CHECK_DEADLOCK FALSE
INVARIANTS
  DivisionExact
  ArithExact
  ChecksumExact
  PathExact
  
