\* One repository, two goroutines beside the retry worker, two requests of users, two
\* deliveries and one fault. Requests and deliveries run out, so the system may stop.
CONSTANTS
  r1 = r1  p1 = p1  p2 = p2  w = w
  None = None
  Repos = {r1}
  Procs = {p1, p2}
  Worker = w
  MaxRequests = 2
  MaxFaults = 1
  MaxDeliveries = 2
  MaxRetries = 2
SPECIFICATION Spec
SYMMETRY Symmetry
INVARIANTS
  TypeOK
  TokenNeedsSelection
  DisconnectedIsInactive
  EventAppliedOrRetried
  JobOncePerDelivery
  LatestDeploymentWins
  SettledMatchesGithub
PROPERTY SettledDeliveryIsFinal
CHECK_DEADLOCK FALSE
