SPECIFICATION Spec
CONSTANTS
  Checks = {1, 2}
  Nodes = {1, 2, 3}
  Pools = {1}
  NoPool = NoPool
  NoNode = NoNode
  CounterMod = 4
  ConfigStates = {"online", "maintenance"}
  QUEUE_LEN = 1
  MAX_NODES = 4
  max_failed_checks <- OneFailure
  parent_lbnode <- CheckPerNode
  parent_lbpool <- OnePool
  PoolConfig <- ForceUpPool
  Users <- NoUsers
INVARIANTS
  PoolsServeTheirNodes
PROPERTIES
  NoDisplacement
