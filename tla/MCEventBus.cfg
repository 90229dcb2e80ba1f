SPECIFICATION FairBusSpec
CONSTANTS
  Names = {n1, n2}
  MaxSubs = 2
  Publishers = {p1, p2}
  BufferSize = 1
  Nobody = Nobody
CHECK_DEADLOCK FALSE
INVARIANTS
  NoSendOnClosedChannel
  OpenIsListed
PROPERTY CloseTerminates
