---------------------------- MODULE PfctlOrphan ----------------------------
(***************************************************************************)
(* Two pfctl workers on one table: the main process died, its worker still *)
(* is in pf_sync_table(), where it does not look for its parent, and the   *)
(* worker of the next incarnation syncs the same pool meanwhile.  Nothing  *)
(* keeps the commands of the two apart.  The orphan finishes its sync, or  *)
(* is killed, and never takes another message.  What the commands do to    *)
(* the table does not depend on the clients, which are left out.           *)
(***************************************************************************)
EXTENDS Pfctl

ASSUME NoJobAssumption == NoJob \notin PfMessage

VARIABLES
  orphan,     \* the call of pf_sync_table() the orphaned worker is in
  met,        \* history: the message of an orphan that has worked since the
              \* sync of the new worker started, or NoJob
  synced      \* history: the message of the new worker's last sync, if that
              \* came to its end without a failed command, or NoJob

orphanVars == <<pfVars, orphan, met, synced>>

Old == INSTANCE Pfctl WITH job <- orphan

OrphanInit ==
  /\ PfInit
  /\ \E msg \in Messages :
       /\ orphan = [msg |-> msg, pc |-> "show", to_add |-> {}, to_del |-> {},
                    todo |-> {}, kill |-> 1, failed |-> FALSE]
       /\ met = msg
  /\ synced = NoJob

(* pfctl_worker_loop() of the new worker takes a message.                  *)
TakeMessage(msg) ==
  /\ Start(msg)
  /\ met' = IF orphan = NoJob THEN NoJob ELSE orphan.msg
  /\ synced' = NoJob
  /\ UNCHANGED orphan

(* A command of the new worker's pf_sync_table().                          *)
NewStep ==
  /\ SyncStep
  /\ synced' = IF At("rebalance") /\ ~job.failed THEN job.msg ELSE NoJob
  /\ UNCHANGED <<orphan, met>>

OrphanNext ==
  \/ \E msg \in Messages : TakeMessage(msg)
  \/ NewStep
  \/ Old!SyncStep /\ UNCHANGED <<job, met, synced>>
  \/ orphan # NoJob /\ orphan' = NoJob /\ UNCHANGED <<pfVars, met, synced>>

OrphanSpec == OrphanInit /\ [][OrphanNext]_orphanVars
-----------------------------------------------------------------------------
(* Properties.                                                             *)

(* What the table is left with until the wanted nodes change again.  After *)
(* a sync that met no orphan it is what the message wants, whatever an     *)
(* earlier orphan did.  After one that met an orphan a node that both      *)
(* messages want is in the table and one that neither wants is not,        *)
(* however the commands of the two mix, wherever the orphan stops and      *)
(* however long it goes on once the new worker is done.                    *)
SyncsAgreeWhereMessagesDo ==
  synced # NoJob =>
    LET table == pf_table[synced.pool]
    IN  IF met = NoJob THEN table = WantSet(synced)
        ELSE /\ WantSet(synced) \cap WantSet(met) \subseteq table
             /\ table \subseteq WantSet(synced) \cup WantSet(met)
=============================================================================
