SPECIFICATION Spec
CONSTANTS
  Procs = {p1}
  Inodes = {f1}
  Programs <- FullPage
  MaxRuns = 2
  HeaderSize = 320
  IndexSize = 24
  PageSize = 4096
  NoInode = NoInode
INVARIANT CorruptIsDamaged
CHECK_DEADLOCK FALSE
