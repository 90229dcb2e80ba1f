CONSTANTS
  Keys = {k1, k2}
  Tiers = {nvme}
  NVMe = nvme
  Descriptors = {d1}
  Uris <- MCUris
  Readers = {r1}
  Writers = {w1}
  NoRow = NoRow
  None = None
  Torn = Torn
  SegmentRecords = 2
  DiskRecords = 4
  MaxCompactions = 2
  MaxIncidents = 1
SPECIFICATION Spec
SYMMETRY Symmetry
INVARIANT ReferencedIsIntact
PROPERTIES PinnedRecordStays CompactionReclaims
CHECK_DEADLOCK FALSE
