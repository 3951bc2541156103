\* What the documentation claims of a canceled job.
CONSTANTS
  r1 = r1  k1 = k1  c1 = c1  c2 = c2  g1 = g1  g2 = g2
  None = None
  Repos = {r1}
  Keys = {}
  Clients = {c1}
  Runners = {g1}
  MaxJobs = 2
  BatchSize = 2
  MaxPages = 1
  MaxRetries = 0
  MaxFaults = 0
SPECIFICATION Spec
SYMMETRY Symmetry
PROPERTY CancelIsFinal
