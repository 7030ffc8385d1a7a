SPECIFICATION FairSpec
CONSTANTS
  Nodes = {1, 2}
  Lines <- Pair
  Frames <- Messages
  frameCapacity = 0
  useCutThroughSwitching = FALSE
  Files <- MCFiles
  MaxData = 2
INVARIANTS OnlyStoppedRefused
PROPERTIES CutLinksSilent FifoSpec LinksRecover
CHECK_DEADLOCK FALSE
