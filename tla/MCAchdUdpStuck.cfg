SPECIFICATION FairSpec
CONSTANTS
  Options <- PullUDP
  MaxConns = 2
  Depth = 2
  WireCap = 2
  MayTerm = FALSE
PROPERTY PullLeavesLostUDP
CHECK_DEADLOCK FALSE
