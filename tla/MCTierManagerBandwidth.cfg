SPECIFICATION ManagerSpec
CONSTANTS
  Readers = {r1}
  Writers = {}
  LookupOrder <- Order
  LoadMs <- ByBandwidth
  Threshold = 1
  S3Threshold = 2
  Guard = 2
  S3MinTokens = 10
  S3Sync = TRUE
  Contexts <- Long
  NoSlo = NoSlo
  NoTier = NoTier
INVARIANT
  RecomputeOnlyWhenNothingUsable
