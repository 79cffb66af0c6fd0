SPECIFICATION ScenarioSpec
CONSTANTS
  Keys = {k1, k2}
  None = None
  MaxUid = 2
  MaxGen = 1
  NumTimers = 2
  BufferSize = 1
  MaxConcurrent = 1
  MaxFaults = 1
  MaxRestarts = 1
PROPERTIES
  CurrentDemandRefreshed
  DeletedDemandQuiesces
\* With every NGD deleted and the bounds on users exhausted nothing is left to do.
CHECK_DEADLOCK FALSE
