SPECIFICATION Spec
CONSTANTS
  LastDay = 2
  PerDay = 1
  FirstWeekday = 6
  NewMonth = 2
  Scale = 12
  PullRequests = {1, 2, 3}
  People = {alice, bob, bot}
  Bots = {bot}
  Sizes = {1, 2}
  Environments = {"prod", "Prod", "stage"}
  Deployments = {1, 2, 3}
  MaxCalculations = 2
  MaxChanges = 1
  LowerCase <- MCLowerCase
  EnvironmentOf <- MCEnvironmentOf
  Rules <- MCRules
  Requests <- MCRequests
  Boots <- MCBoots
  Definitions <- MCDefinitions
  Writers = {w1, w2}
  MaxUpdates = 3
  MaxBoots = 1
  ReviewIds = {1, 2}
  MaxVersions = 4
  MaxStores = 3
  Kinds = {"repositories", "pullRequests", "insights", "hotspots"}
  Items = {1, 2, 3}
  Keys = {1, 2}
  PageSizes = {1, 2}
  MaxListChanges = 1
  Callers = {c1, c2}
  MaxRetries = 1
  InitialBackoff = 1
  MaxBackoff = 1
  MinRemaining = 8
  Quota = 9
  Window = 4
  TokenLife = 4
  Margin = 1
  MaxClock = 5
  Addresses = {h1, h2}
  Askers = {g1, g2}
  Limit = 2
  LimitWindow = 2
  MaxTime = 3
  MaxAsked = 5
  Orgs = {o1, o2}
  Grace = 1
  RawDays = 1
  Retentions = {2}
  MaxDay = 2
  MaxBegun = 3
SYMMETRY Symmetry
INVARIANTS
  RowsAreRaw
  AnswersAreRaw
  WorstOfEachEntity
  ReportedReachesThreshold
  EffectiveUsable
  UpdateKept
  SnapshotsConverge
  TimelineInOrder
  PagesCover
  WindowLimit
  QuotaSpared
  TokenOutlivesCall
PROPERTY
  PurgedEverywhere
CHECK_DEADLOCK FALSE
