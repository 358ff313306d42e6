----------------------------- MODULE MCTesttool -----------------------------
(* Small instances of Testtool for TLC.                                    *)
EXTENDS Testtool

Config(min, max, action, backup, hcs) ==
  [min_nodes |-> min, max_nodes |-> max, min_nodes_action |-> action,
   backup_pool |-> backup, health_checks |-> hcs]

OneFailure == [h \in Checks |-> 1]
CheckPerNode == [h \in Checks |-> h]

OnePool == [n \in Nodes |-> 1]
NoUsers == [p \in Pools |-> <<>>]
UnlimitedPool == <<Config(0, 0, "force_down", NoPool, TRUE)>>

(* A pool with a check and one without.                                    *)
NoHcPool ==
  <<Config(0, 0, "force_down", NoPool, TRUE), Config(0, 0, "force_down", NoPool, FALSE)>>

(* Pool 2 falls back to pool 1.                                            *)
NodePerPool == [n \in Nodes |-> n]
BackupPair ==
  <<Config(0, 0, "force_down", NoPool, TRUE), Config(1, 0, "force_down", 1, TRUE)>>
BackupUsers == <<<<2>>, <<>>>>
=============================================================================
