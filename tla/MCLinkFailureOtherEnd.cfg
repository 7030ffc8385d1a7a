SPECIFICATION Spec
CONSTANTS
  Nodes = {1, 2, 3}
  Lines <- Triangle
  Frames <- Messages
  frameCapacity = 0
  useCutThroughSwitching = FALSE
  Files <- MCOtherEnd
  MaxData = 0
INVARIANTS OnlyStoppedRefused
CHECK_DEADLOCK FALSE
