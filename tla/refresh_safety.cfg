SPECIFICATION MCSpec
CONSTANTS
  Keys = {k1}
  None = None
  MaxUid = 2
  MaxGen = 2
  NumTimers = 2
  BufferSize = 1
  MaxConcurrent = 1
  MaxFaults = 1
  MaxRestarts = 1
INVARIANTS
  TypeOK
  NoLostRefresh
  StaleExecutionCancelled
  NoMissedChange
\* With every NGD deleted and the bounds on users exhausted nothing is left to do.
CHECK_DEADLOCK FALSE
