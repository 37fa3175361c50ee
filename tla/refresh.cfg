\* A refresh token that has not expired, of a session that is there.
CONSTANTS
  Clients = {c1, c2}
  Users = {u1, u2}
  Uuids = {s1}
  Second = 2
  AccessLife = 1
  RefreshLife = 2
  MaxDelay = 2
  MaxTime = 7
  None = None
SPECIFICATION Spec
SYMMETRY MCSymmetry
PROPERTY RefreshRenews
\* Time stops at MaxTime.
CHECK_DEADLOCK FALSE
