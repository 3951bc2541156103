\* One request, with or without a key, one goroutine, one
\* retry and one fault. No symmetry, as EveryJobSettles is temporal.
CONSTANTS
  r1 = r1  k1 = k1  c1 = c1  c2 = c2  g1 = g1  g2 = g2
  None = None
  Repos = {r1}
  Keys = {k1}
  Clients = {c1}
  Runners = {g1}
  MaxJobs = 2
  BatchSize = 1
  MaxPages = 1
  MaxRetries = 1
  MaxFaults = 1
SPECIFICATION FairSpec
INVARIANTS
  RunningHasRunner
  CompletedWasPublished
PROPERTY EveryJobSettles
