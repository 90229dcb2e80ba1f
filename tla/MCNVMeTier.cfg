CONSTANTS
  Keys = {k1, k2}
  Tiers = {nvme, mem}
  NVMe = nvme
  d1 = d1
  Descriptors = {d1, d2}
  Uris = {k1, k2}
  Threads = {t1, t2}
  NoRow = NoRow
  None = None
  Garbage = Garbage
  Bytes <- MCBytes
  MaxBytes = 2
  PeerKeys = {k1}
  MaxOpens = 2
  MaxFaults = 1
SPECIFICATION Spec
SYMMETRY Symmetry
INVARIANTS PublishedHasPayload ChecksStillHold CapacityRespected
PROPERTIES HealthyLoadSucceeds TombstoneOutlivesFile ImplementsClients
CHECK_DEADLOCK FALSE
