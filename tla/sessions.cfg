\* A session lives for two seconds, an access token for one; a tick is half a second.
CONSTANTS
  Clients = {c1, c2}
  Users = {u1, u2}
  Uuids = {s1}
  Second = 2
  AccessLife = 1
  RefreshLife = 2
  MaxDelay = 2
  MaxTime = 7
  None = None
SPECIFICATION Spec
SYMMETRY MCSymmetry
INVARIANTS SessionInv SessionEndsWithRefresh
PROPERTIES RefusedForCause EndsByLapseOrOrphan
\* Time stops at MaxTime.
CHECK_DEADLOCK FALSE
