\* One pull request with its reviews and files, one commit, one failure and a retry.
\* The clock, the jobs and the failures run out, so the system may stop.
CONSTANTS
  j1 = j1  j2 = j2   g1 = g1  g2 = g2
  None = None
  MaxCount <- OnePull
  PerPage = 1
  MaxReview = 2
  FilePages = 2
  Jobs = {j1, j2}
  Runners = {g1}
  Froms = {2}
  Requests <- Incremental
  MaxTime = 2
  MaxFails = 1
SPECIFICATION Spec
SYMMETRY Symmetry
INVARIANTS
  TypeOK
  DueIsStored
  WholeUnlessCut
CHECK_DEADLOCK FALSE
