SPECIFICATION FairSpec
CONSTANTS
  Vids = {0, 1, 2, 3, 99}
  DummyVid = 99
  NullVid = NullVid
  PathIds = {1, 2, 3, 4}
  NoPath = 0
  NoRoute = NoRoute
  NoTimer = NoTimer
  VidMax = 3
  Half = 1
  Setups <- MCSetups
  RetryLimit = 1
  FloodTTL = 8
  PrevhopSize = 4
  SetupTempRoute = TRUE
  KeepDismantled = TRUE
  Rep = 0
  RepPath = RepPath
INVARIANTS   SetsMatchRoutes FloodLoopFree 
 
