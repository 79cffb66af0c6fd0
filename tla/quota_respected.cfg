SPECIFICATION PoolSpec
CONSTANTS
  Jobs <- MixedJobs
  NoJob = NoJob
  Resources = {"cpu", "gpu"}
  Scores = {0, 1}
  MaxGroups = 2
INVARIANTS
  QuotaRespected
