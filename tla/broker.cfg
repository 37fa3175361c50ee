\* A process with a subscription and faults, and one without, whose first sends race.
SPECIFICATION FairSpec
CONSTANTS
  Senders = {s1, s2}
  Conns = {k1, k2, k3, k4}
  Messages = {1, 2, 3}
  MaxFaults <- MCMaxFaults
  MaxSends <- MCMaxSends
  None = None
INVARIANTS
  SingleConnection
  HealthyMeansUsable
  FaultlessInv
PROPERTIES
  QueuedUntilHandled
  EverySendSettles
  WarmSendsSucceed
  ImplementsDelivery
\* Every message may have been sent while the process runs on.
CHECK_DEADLOCK FALSE
