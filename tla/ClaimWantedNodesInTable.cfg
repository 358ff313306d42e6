SPECIFICATION TesttoolSpec
CONSTANTS
  Checks = {1}
  Nodes = {1, 2}
  Pools = {1, 2}
  NoPool = NoPool
  NoNode = NoNode
  NoJob = NoJob
  Clients = {}
  pf_fails = FALSE
  CounterMod = 4
  ConfigStates = {"online", "maintenance"}
  QUEUE_LEN = 1
  MAX_NODES = 3
  max_failed_checks <- OneFailure
  parent_lbnode <- CheckPerNode
  parent_lbpool <- NodePerPool
  PoolConfig <- BackupPair
  Users <- BackupUsers
INVARIANT
  WantedNodesInTable
