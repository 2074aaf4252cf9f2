SPECIFICATION FairSpec
CONSTANTS
  IndexCnt = 2
  DataSize = 2
  Writers = {w1}
  Readers = {r1}
  Cancellers = {c1}
  Mortal = {w1, c1}
  Lengths = {1}
  GetOptions <- MCGetOptions
  ForkMayFail = TRUE
  MaxSeq = 2
  NoOne = NoOne
INVARIANTS
  AssertionsHold
  NoFalseAlarm
  WakeupOwed
PROPERTIES
  InterruptedFreezes
  CancelEnds
  FrameWakes
  PutReturns
