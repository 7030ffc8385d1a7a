SPECIFICATION Spec
CONSTANTS
  VidMax = 5
  Me = 1
  IsRoot = FALSE
  Half = 1
  PendingHalf = 2
  BackupHalf = 1
  RetryLimit = 1
  SetupNonEss = TRUE
  MaxOther = 0
  NoTimer = NoTimer
  NoFarthest = NoFarthest
INVARIANTS PendingOwned FarthestFresh WarmupArmed
PROPERTIES OnlyFarNodesForgotten
