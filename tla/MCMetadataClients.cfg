CONSTANTS
  Keys = {k1, k2}
  Tiers = {nvme, mem}
  Descriptors = {d1, d2}
  Uris = {u1, u2}
  Readers = {r1, r2}
  NoRow = NoRow
  NotHeld = NotHeld
  MaxOpens = 2
SPECIFICATION Spec
SYMMETRY Symmetry
INVARIANTS AcquiredStaysPublished PinsMatchReaders OnePayloadPerKey
PROPERTIES RowLifecycle ImplementsCatalog
CHECK_DEADLOCK FALSE
