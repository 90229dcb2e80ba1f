SPECIFICATION FairSpec
CONSTANTS
  Blocks = {b1}
  Workers = {w1, w2}
  MaxInt64 = 2
  EventIDs = {}
  NoEventID = NoEventID
  NoLocation = NoLocation
  NoSnapshot = NoSnapshot
  Requests = {r1, r2}
  Identities = {i1, i2}
  Reports <- MCReports
  Unregistered = Unregistered
  NoWorker = NoWorker
INVARIANTS
  InflightIsExact
  ProxiedWorkerStays
  ObservedSinceRetired
PROPERTY DrainCompletes
