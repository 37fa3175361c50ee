\* dropAll and the sessions it leaves.
CONSTANTS
  c1 = c1  c2 = c2  c3 = c3
  u1 = u1  u2 = u2
  lo = lo  UP = UP  x = x
  p1 = p1  p2 = p2
  t1 = t1  t2 = t2  t3 = t3  t4 = t4
  Clients = {c1}
  Users = {u1, u2}
  Emails = {lo, UP}
  Lower <- MCLower
  Passwords = {p1, p2}
  Uuids = {t1, t2, t3, t4}
  Types = {"su", "pr"}
  PoolSize = 3
  MaxRequests = 5
  None = None
SPECIFICATION Spec
SYMMETRY MCSymmetry
PROPERTY DropAllDropsAll
\* Every request may have been answered and none be left to arrive.
CHECK_DEADLOCK FALSE
