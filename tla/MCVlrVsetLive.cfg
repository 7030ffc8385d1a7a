SPECIFICATION FairSpec
CONSTANTS
  VidMax = 4
  Me = 1
  IsRoot = TRUE
  Half = 2
  PendingHalf = 4
  BackupHalf = 1
  RetryLimit = 2
  SetupNonEss = FALSE
  MaxOther = 1
  NoTimer = NoTimer
  NoFarthest = NoFarthest
INVARIANTS NearestAsked
PROPERTIES QuietNodeSettles
