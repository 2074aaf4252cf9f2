SPECIFICATION Spec
CONSTANTS
  IndexCnt = 3
  DataSize = 6
  Handles = {h1}
  Lengths <- MCLengths
  Sizes <- MCSizes
  MaxSeq = 5
INVARIANTS
  IndexConsistent
  FramesIntact
  KeepsAllThatFits
PROPERTIES
  ImplementsPubSub
