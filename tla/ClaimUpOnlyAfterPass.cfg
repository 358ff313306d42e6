SPECIFICATION Spec
CONSTANTS
  Checks = {1}
  Nodes = {1}
  Pools = {1}
  NoPool = NoPool
  NoNode = NoNode
  CounterMod = 4
  ConfigStates = {"online", "maintenance"}
  QUEUE_LEN = 1
  MAX_NODES = 4
  max_failed_checks <- TwoFailures
  parent_lbnode <- CheckPerNode
  parent_lbpool <- OnePool
  PoolConfig <- UnlimitedPool
  Users <- NoUsers
PROPERTIES
  UpOnlyAfterPass
