SPECIFICATION Spec
CONSTANTS
  Calls = {c1, c2}
  None = None
  Closer = Closer
  MaxFaults = 3
INVARIANTS
  TypeOK
  OneProcess
  NoLeftoverReader
  CleanClose
PROPERTIES
  SerialCalls
  EveryCallReturns
  NothingRunsOn
\* Every call may have returned and the worker be closed.
CHECK_DEADLOCK FALSE
