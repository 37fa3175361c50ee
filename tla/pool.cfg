\* As many concurrent requests as there are connections; no symmetry with liveness.
CONSTANTS
  c1 = c1  c2 = c2  c3 = c3
  u1 = u1  u2 = u2
  lo = lo  UP = UP  x = x
  p1 = p1  p2 = p2
  t1 = t1  t2 = t2  t3 = t3  t4 = t4
  Clients = {c1, c2}
  Users = {u1, u2}
  Emails = {lo, UP}
  Lower <- MCLower
  Passwords = {p1}
  Uuids = {t1, t2, t3}
  Types = {"su", "pr"}
  PoolSize = 2
  MaxRequests = 3
  None = None
SPECIFICATION FairSpec
INVARIANTS StuckOnlyByPool PoolInv
PROPERTY EveryRequestEnds
\* Every request may have been answered and none be left to arrive.
CHECK_DEADLOCK FALSE
