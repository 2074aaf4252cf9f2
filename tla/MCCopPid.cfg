CONSTANTS
  k1 = k1
  k2 = k2
  k3 = k3
  f1 = f1
  f2 = f2
  NoFile = NoFile
  Cops = {k1, k2, k3}
  Files = {f1, f2}
  Commands <- MCCommands
  MaxPid = 5
SYMMETRY Symmetry
SPECIFICATION Spec
INVARIANTS
  OneSupervisor
  FilesName
  OneChild
CHECK_DEADLOCK FALSE
