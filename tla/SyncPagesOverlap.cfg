\* Two pull requests on two pages, two jobs whose runs may overlap, one failure. The
\* clock, the jobs and the failures run out, so the system may stop.
CONSTANTS
  j1 = j1  j2 = j2   g1 = g1  g2 = g2
  None = None
  MaxCount <- TwoPulls
  PerPage = 1
  MaxReview = 0
  FilePages = 1
  Jobs = {j1, j2}
  Runners = {g1, g2}
  Froms = {2}
  Requests <- Incremental
  MaxTime = 2
  MaxFails = 1
SPECIFICATION Spec
SYMMETRY Symmetry
INVARIANT DueIsStored
CHECK_DEADLOCK FALSE
