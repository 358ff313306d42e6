SPECIFICATION PfSpec
CONSTANTS
  Pools = {1}
  Nodes = {1, 2}
  Clients = {c1}
  NoJob = NoJob
  pf_fails = TRUE
INVARIANTS
  SyncInstallsMessage
  RemovedNodesAreSilent
PROPERTIES
  WantedNodesStay
  OnlyRemovalsKillStates
