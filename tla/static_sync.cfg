SPECIFICATION FairSyncSpec
CONSTANTS
  Snapshots = {s1, s2}
  None = None
  Tasks = {t1}
  MaxBoots = 2
  MaxChanges = 3
  MaxFaults = 2
  MaxRestarts = 1
INVARIANTS
  SyncTypeOK
  FailClosed
  SwitchSparesTasks
PROPERTY
  Resynced
\* A cluster without Nodes has no event to react to until one is added.
CHECK_DEADLOCK FALSE
