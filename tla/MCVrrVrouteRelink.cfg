SPECIFICATION FairSpec
CONSTANTS
  Vids = {0, 1, 2}
  NullVid = 9
  PathIds = {1, 2}
  NoRoute = NoRoute
  VidMax = 3
  Links <- Line3
  Half = 1
  RetryLimit = 1
  PrevhopSize = 2
  RemoveBroken = TRUE
  LocalRepair = TRUE
  Relink = TRUE
  BeaconLoss = TRUE
  MaxFaults = 1
  MaxEvents = 3
CHECK_DEADLOCK FALSE
INVARIANTS AvailableHopsLinked
PROPERTIES BrokenHopsResolved
