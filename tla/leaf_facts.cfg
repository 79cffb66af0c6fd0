SPECIFICATION MCSpec
CONSTANTS
  Files <- MCFiles
  Ports = {"eth0", "eth1", "eth2"}
  Slaves = {"eth0", "eth1"}
  Bond = "bond0"
  Switches = {"c1", "c2", "c3"}
  Self = "self"
  HostName = "host"
  None = "none"
  Namings <- MCNamings
  Cablings <- MCCablings
  Options <- MCOptions
  MaxChanges = 1
  MaxFaults = 1
INVARIANTS
  AgentTypeOK
  PartialObservationKeepsPlace
  NamedSwitchSelectsNodes
  FactsFromThisWindow
  LabelAgreesWithLeaves
PROPERTIES
  EventuallyPlaced
\* A one-shot agent ends.
CHECK_DEADLOCK FALSE
