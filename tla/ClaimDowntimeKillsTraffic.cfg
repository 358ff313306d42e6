SPECIFICATION TesttoolSpec
CONSTANTS
  Checks = {1}
  Nodes = {1}
  Pools = {1}
  NoPool = NoPool
  NoNode = NoNode
  NoJob = NoJob
  Clients = {c1}
  pf_fails = FALSE
  CounterMod = 4
  ConfigStates = {"online", "maintenance", "deploy_offline"}
  QUEUE_LEN = 1
  MAX_NODES = 3
  max_failed_checks <- OneFailure
  parent_lbnode <- CheckPerNode
  parent_lbpool <- OnePool
  PoolConfig <- UnlimitedPool
  Users <- NoUsers
INVARIANT
  DowntimeKillsTraffic
