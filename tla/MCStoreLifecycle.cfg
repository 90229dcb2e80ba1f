CONSTANTS
  Works = {w1, w2, w3, w4}
  Submitters = {c1, c2, c3}
  Threads = {t1, t2}
  MaxQueue = 3
  Idle = Idle
  Me = me
  Rival = rival
  None = None
  MaxCrashes = 1
SPECIFICATION Spec
INVARIANT UsedByOwnerOnly
PROPERTIES WorkLeavesSeen CloseFreesDatabase
CHECK_DEADLOCK FALSE
