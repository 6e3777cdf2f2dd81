SPECIFICATION Spec
CONSTANTS
  Procs = {p1, p2}
  p1 = p1
  p2 = p2
  Names = {n1, n2}
  n1 = n1
  n2 = n2
  NumObjs = 3
  NumDirents = 3
  TableSize = 2
  NumRecs = 4
  Behaviours = {"unlink_wrapfs", "open_unlinked"}
CHECK_DEADLOCK FALSE
SYMMETRY Symmetry
INVARIANTS
  OpenIsNamed
