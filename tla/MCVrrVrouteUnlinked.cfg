SPECIFICATION Spec
CONSTANTS
  Vids = {0, 1, 2, 3}
  NullVid = 9
  PathIds = {1}
  NoRoute = NoRoute
  VidMax = 3
  Links <- Cycle4
  Half = 1
  RetryLimit = 1
  PrevhopSize = 2
  RemoveBroken = TRUE
  LocalRepair = TRUE
  Relink = FALSE
  BeaconLoss = TRUE
  MaxFaults = 2
  MaxEvents = 3
CHECK_DEADLOCK FALSE
PROPERTY UnlinkedReplyRemovesNothing
