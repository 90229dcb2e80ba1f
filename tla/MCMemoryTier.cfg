CONSTANTS
  Keys = {k1, k2}
  Tiers = {mem, nvme}
  Mem = mem
  Peer = nvme
  PeerKeys = {k1}
  small = small
  large = large
  Descriptors = {small, large}
  Uris = {uri}
  Size <- MCSize
  MaxBytes = 2
  NoRow = NoRow
  None = None
  MaxOpens = 2
  MaxPins = 1
  MaxFaults = 1
  BatchSize = 2
  BytesToFree = 2
SPECIFICATION EvSpec
INVARIANT ResidentIsPublished
PROPERTIES
  PinnedStaysResident
  ShortOnlyWhenStuck
  EvictionEnds
CHECK_DEADLOCK FALSE
