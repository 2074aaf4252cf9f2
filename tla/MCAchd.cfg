SPECIFICATION FairSpec
CONSTANTS
  Options <- Several
  MaxConns = 2
  Depth = 2
  WireCap = 2
  MayTerm = TRUE
INVARIANTS
  WholeFrames
  DeliveredOnce
  PullInOrder
  PollsOwnSocket
PROPERTIES
  TermEnds
  WrittenArrives
  PullLeavesLost
CHECK_DEADLOCK FALSE
