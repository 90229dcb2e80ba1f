SPECIFICATION ManagerSpec
CONSTANTS
  Readers = {r1}
  Writers = {w1}
  LookupOrder <- Order
  LoadMs <- ByDistance
  Threshold = 1
  S3Threshold = 2
  Guard = 2
  S3MinTokens = 10
  S3Sync = TRUE
  Contexts <- Asked
  NoSlo = NoSlo
  NoTier = NoTier
INVARIANTS
  QuietMissIsTrue
  PrefetchTriesEverySource
  RecomputeOnlyWhenNothingUsable
