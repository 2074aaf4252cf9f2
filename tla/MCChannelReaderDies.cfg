SPECIFICATION Spec
CONSTANTS
  IndexCnt = 2
  DataSize = 2
  Writers = {w1, w2}
  Readers = {r1, r2}
  Cancellers = {}
  Mortal = {r1}
  Lengths = {2}
  GetOptions <- MCTimedWait
  ForkMayFail = FALSE
  MaxSeq = 2
  NoOne = NoOne
INVARIANTS
  HoldsMutex
  Recoverable
  WakeupOwed
PROPERTIES
  ImplementsRing
CHECK_DEADLOCK FALSE
