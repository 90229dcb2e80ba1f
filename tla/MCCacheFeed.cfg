SPECIFICATION FeedSpec
CONSTANTS
  Blocks = {b1, b2}
  Workers = {w1}
  MaxInt64 = 4
  MaxEvents = 3
  MaxRevision = 1
  EventIDs <- MCEventIDs
  NoEventID = NoEventID
  NoLocation = NoLocation
  NoSnapshot = NoSnapshot
  Damaged = Damaged
  LocalBlocks = {b2}
  ShortLived = {b2}
INVARIANTS
  NeverOverclaims
  ForgetsNothing
  NextEventIsFresh
