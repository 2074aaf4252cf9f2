SPECIFICATION Spec
CONSTANTS
  IndexCnt = 1
  DataSize = 16
  Handles = {h1}
  Lengths = {16}
  Sizes = {16}
  MaxSeq = 2
INVARIANT ReadIndexInRange
