\* One bus open at most; two jobs; two runs and one fault, or one and two, or fewer and up to
\* two decisions and findings. Runs and bounds run out, so the system may stop. No
\* symmetry, as EveryMessageSettles is temporal.
CONSTANTS
  METRICS = METRICS  INSIGHTS = INSIGHTS
  Jobs = {1, 2}
  Reader = Reader
  MaxDeliver = 2
  MaxRuns = 2
  MaxFaults = 2
  MaxOpen = 1
  MaxEvents = 2
  MaxAll = 3
SPECIFICATION FairSpec
INVARIANTS
  TypeOK
  AckedWasHandled
  MetricsCoverSync
  VerdictHolds
PROPERTY EveryMessageSettles
CHECK_DEADLOCK FALSE
