SPECIFICATION Spec
CONSTANTS
  Nodes = {0, 1, 2}
  Root = 0
  NullVid = 9
  Links <- Line3
  BeaconInterval = 1
  MaxJitter = 0
  Validity = 3
  EarlyBeacon = TRUE
  ExcludeOld = TRUE
  MaxSeq = 3
  MaxFaults = 1
INVARIANTS RepPathAcyclic ObserveTimerFree SkippedWasSent SilentRootForgotten NoFalseExpiry
