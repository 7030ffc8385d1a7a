SPECIFICATION Spec
CONSTANTS
  Nodes = {0, 1, 2}
  Links <- Line3
  BeaconInterval = 1
  MaxJitter = 0
  Validity = 2
  Joiners = {0}
  NoEntry = NoEntry
  MaxFaults = 1
INVARIANTS MpneiMapExact RoutablePneisLinked LinkedTwoWay HandshakeDone
