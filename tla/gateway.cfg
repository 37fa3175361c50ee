SPECIFICATION FairSpec
CONSTANTS
  c1 = c1
  c2 = c2
  c3 = c3
  c4 = c4
  here = here
  there = there
  elsewhere = elsewhere
  Clients = {c1, c2, c3, c4}
  Origin <- MCOrigin
  Header <- MCHeader
  Proxied = {c1, c3}
  Proxy = proxy
  DefaultLimit = 2
  ResendLimit = 1
  Scenarios <- MCScenarios
  None = None
INVARIANTS
  LimitedOverrun
  GatewayInv
PROPERTIES
  RefusedInOwnName
  HealthTellsTruth
  EveryRequestEnds
  WindowReopens
