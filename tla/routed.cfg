\* The routed system: two overlapping requests of the auth controller.
CONSTANTS
  c1 = c1  c2 = c2  c3 = c3
  u1 = u1  u2 = u2
  lo = lo  UP = UP  x = x
  p1 = p1  p2 = p2
  t1 = t1  t2 = t2  t3 = t3  t4 = t4
  Clients = {c1, c2}
  Users = {u1, u2}
  Emails = {lo, UP}
  Lower <- MCLower
  Passwords = {p1, p2}
  Uuids = {t1, t2, t3, t4}
  Types = {"su", "pr"}
  PoolSize = 3
  MaxRequests = 5
  None = None
SPECIFICATION Spec
SYMMETRY MCSymmetry
INVARIANTS
  RoutedInv
  NoStrandedUser
  SessionsAreVerified
  MailsAreForAccounts
  AddressInv
PROPERTIES
  VerifiedForGood
  UnverifiedKeepsPassword
  SurvivingTokenHadSibling
  ImplementsLifecycle
\* Every request may have been answered and none be left to arrive.
CHECK_DEADLOCK FALSE
