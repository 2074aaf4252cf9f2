CONSTANTS
  c1 = c1
  c2 = c2
  main = main
  Channels = {c1, c2}
  Main = main
  Chan0 = c1
  Tools <- Tool
  Inputs <- MCInputs
  Size <- MCSize
  InitSize = 2
  Depth = 2
  Others <- MCOthers
  MaxPub <- MCMaxPub
  Base = 2
SPECIFICATION FairSpec
INVARIANTS
  
  OutputInOrder
  OneReplyPerCommand
  PublishesInput
PROPERTIES
  SignalEnds
  Logged
CHECK_DEADLOCK FALSE
