SPECIFICATION SyncSpec
CONSTANTS
  Snapshots = {s1, s2}
  None = None
  Tasks = {t1}
  MaxBoots = 1
  MaxChanges = 1
  MaxFaults = 0
  MaxRestarts = 0
INVARIANT
  ChangeClosesFirst
\* A cluster without Nodes has no event to react to until one is added.
CHECK_DEADLOCK FALSE
