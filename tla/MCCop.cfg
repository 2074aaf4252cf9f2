SPECIFICATION FairSpec
CONSTANTS
  UserSignals <- Requests
  ChildMayStop = TRUE
  StartMayFail = {"fork", "write_pid"}
CHECK_DEADLOCK FALSE
INVARIANTS
  StartsAlone
  ReturnsLastStatus
  GrandparentTold
PROPERTIES
  HupRestarts
  TermEndsWithoutHup
