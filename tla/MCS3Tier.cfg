CONSTANTS
  Keys = {k1}
  Tiers = {s3}
  S3 = s3
  Descriptors = {d1, d2}
  Uris = {k1}
  Threads = {t1, t2}
  NoRow = NoRow
  None = None
  MaxOpens = 2
  MaxFaults = 1
  MaxLate = 2
SPECIFICATION FairSpec
INVARIANT PublishedHasObject
PROPERTIES PinnedObjectStays RowOutlivesObject LockIsReleased
CHECK_DEADLOCK FALSE
