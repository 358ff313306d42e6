SPECIFICATION Spec
CONSTANTS
  Checks = {1, 2, 3}
  Nodes = {1, 2}
  Pools = {1}
  NoPool = NoPool
  NoNode = NoNode
  CounterMod = 4
  ConfigStates = {"online", "maintenance", "deploy_offline"}
  QUEUE_LEN = 1
  MAX_NODES = 4
  max_failed_checks <- OneFailure
  parent_lbnode <- ManyChecks
  parent_lbpool <- OnePool
  PoolConfig <- ForceDownPool
  Users <- NoUsers
INVARIANTS
  PoolsServeTheirNodes
  AdminFollowsConfig
  UpMeansAllChecksUp
