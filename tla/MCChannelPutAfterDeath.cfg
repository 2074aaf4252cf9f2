SPECIFICATION Spec
CONSTANTS
  IndexCnt = 2
  DataSize = 2
  Writers = {w1, w2}
  Readers = {r1}
  Cancellers = {}
  Mortal = {w1}
  Lengths = {1, 2}
  GetOptions <- MCGetOptions
  ForkMayFail = FALSE
  MaxSeq = 3
  NoOne = NoOne
INVARIANTS
  CorruptionDetectable
