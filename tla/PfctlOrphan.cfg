SPECIFICATION OrphanSpec
CONSTANTS
  Pools = {1}
  Nodes = {1, 2}
  Clients = {}
  NoJob = NoJob
  pf_fails = TRUE
INVARIANTS
  SyncsAgreeWhereMessagesDo
