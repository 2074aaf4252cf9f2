SPECIFICATION Spec
CONSTANTS
  Procs = {p1, p2, p3}
  Inodes = {f1, f2}
  Programs <- Race
  MaxRuns = 4
  HeaderSize = 320
  IndexSize = 24
  PageSize = 4096
  NoInode = NoInode
SYMMETRY Symmetry
INVARIANTS
  OpenedComplete
  CorruptOnlyIfClobbered
PROPERTIES
  MadeServes
  FaultExplained
CHECK_DEADLOCK FALSE
