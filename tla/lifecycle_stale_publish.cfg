SPECIFICATION MCSpec
CONSTANTS
  Keys = {k1}
  None = None
  MaxUid = 1
  MaxGen = 2
  NumTimers = 1
  BufferSize = 1
  MaxConcurrent = 1
  MaxFaults = 0
  MaxRestarts = 0
  Verdict <- ByGeneration
  MaxProcFaults = 0
  MaxLate = 0
PROPERTY
  PublishOnlyCurrent
\* With every NGD deleted and the bounds on users exhausted nothing is left to do.
CHECK_DEADLOCK FALSE
