SPECIFICATION Spec
CONSTANTS
  Checks = {1, 2}
  Nodes = {1, 2, 3}
  Pools = {1, 2, 3}
  NoPool = NoPool
  NoNode = NoNode
  CounterMod = 4
  ConfigStates = {"online", "maintenance"}
  QUEUE_LEN = 1
  MAX_NODES = 4
  max_failed_checks <- OneFailure
  parent_lbnode <- CheckPerNode
  parent_lbpool <- NodePerPool
  PoolConfig <- BackupChain
  Users <- BackupUsers
INVARIANTS
  PoolsServeTheirNodes
  BackupsInStep
  BackupOnlyWhenShort
  NoTrafficToDowntimedNodes
  QueueTellsLatest
