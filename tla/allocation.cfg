SPECIFICATION MCSpec
CONSTANTS
  Jobs <- MCJobs
  NoJob = NoJob
  Resources = {"cpu", "gpu"}
  Scores = {0, 1}
  MaxGroups = 2
  Catalogue <- MCCatalogue
  Required = {"cpuUsageRatio"}
  Identities = {"ip1", "ip2", "ip3"}
  Samples <- MCSamples
  None = None
  StaleAfter = 1
  RefreshTime = 1
  MaxClock = 3
  MaxRefreshes = 2
  Requests = {"q1", "q2"}
  Asks <- MCAsks
  Statics <- MCStatics
  Source <- MCSource
  NameOrder <- MCNameOrder
  Profile <- MCProfile
  MaxPuts = 2
INVARIANTS
  PoolTypeOK
  NarrowestWhole
  InsufficientIsTrue
  RequiredSameWhenNested
  ServiceTypeOK
  MetricsComplete
  AnswerNamesItsSnapshots
  FreshOrDegraded
  OnlyReportedNodesOffered
PROPERTIES
  PoolPromised
  NoCalculationAfterDone
  EveryRequestAnswered
  ShutdownCompletes
\* A server that is done stops.
CHECK_DEADLOCK FALSE
