------------------------------ MODULE MCLbPool ------------------------------
(* Small instances of LbPool for TLC.  Checks are numbered like the nodes  *)
(* they belong to.                                                         *)
EXTENDS LbPool

Config(min, max, action, backup, hcs) ==
  [min_nodes |-> min, max_nodes |-> max, min_nodes_action |-> action,
   backup_pool |-> backup, health_checks |-> hcs]

OneFailure == [h \in Checks |-> 1]
TwoFailures == [h \in Checks |-> 2]

CheckPerNode == [h \in Checks |-> h]

(* One pool; with more checks than nodes the last node has the rest.       *)
OnePool == [n \in Nodes |-> 1]
ManyChecks == [h \in Checks |-> IF h \in Nodes THEN h ELSE Cardinality(Nodes)]
NoUsers == [p \in Pools |-> <<>>]

ForceUpPool == <<Config(2, 2, "force_up", NoPool, TRUE)>>
UnlimitedPool == <<Config(0, 0, "force_down", NoPool, TRUE)>>
ForceDownPool == <<Config(2, 2, "force_down", NoPool, TRUE)>>

(* Three pools of one node: 2 falls back to 1 and 1 to 3, so that one user *)
(* is built before its backup pool and one after it.  Pool 3 has no checks.*)
NodePerPool == [n \in Nodes |-> n]
BackupChain ==
  <<Config(1, 0, "force_down", 3, TRUE), Config(1, 0, "force_down", 1, TRUE),
    Config(0, 0, "force_down", NoPool, FALSE)>>
BackupUsers == <<<<2>>, <<>>, <<1>>>>
=============================================================================
