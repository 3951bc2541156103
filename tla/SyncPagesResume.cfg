\* One job that fails and is retried: what the documentation claims of the lists.
CONSTANTS
  j1 = j1  j2 = j2   g1 = g1  g2 = g2
  None = None
  MaxCount <- OnePull
  PerPage = 1
  MaxReview = 2
  FilePages = 2
  Jobs = {j1}
  Runners = {g1}
  Froms = {2}
  Requests <- Incremental
  MaxTime = 2
  MaxFails = 1
SPECIFICATION Spec
SYMMETRY Symmetry
INVARIANT ResumedSyncIsWhole
CHECK_DEADLOCK FALSE
