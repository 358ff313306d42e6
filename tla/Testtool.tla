------------------------------ MODULE Testtool ------------------------------
(***************************************************************************)
(* The whole of testtool: the main process (LbPool), the pfctl worker with *)
(* pf behind it (Pfctl), the queue between them, and the death and restart *)
(* of the two processes (testtool.cpp, pfctl_worker.cpp).                  *)
(*                                                                         *)
(* daemon(8) starts testtool again after a pause.  That an orphaned worker *)
(* has finished its last pf_sync_table() by then is assumed (Restart).     *)
(***************************************************************************)
EXTENDS LbPool

CONSTANTS Clients, NoJob, pf_fails

VARIABLES
  pf_table, src_nodes, linked, deferred, plain, job,   \* of module Pfctl
  worker     \* the worker process, as waitpid() sees it

Pf == INSTANCE Pfctl

ASSUME TesttoolAssumption ==
  /\ pf_fails \in BOOLEAN
  /\ NoJob \notin Pf!Job

workerVars == <<pf_table, src_nodes, linked, deferred, plain, job, worker>>
allVars == <<vars, workerVars>>
-----------------------------------------------------------------------------
TesttoolInit ==
  /\ Init
  /\ pf_table = [p \in Pools |-> {}]
  /\ src_nodes = {} /\ linked = {} /\ deferred = {} /\ plain = {}
  /\ job = NoJob
  /\ worker = "running"

(* Mutant: a restart takes all nodes for down.                             *)
InTable_Forgotten(p) == {{}}

(* What the constructors of a pool's nodes may get from pf_is_in_table().  *)
InTable(p) ==
  IF pf_fails THEN SUBSET (pf_table[p] \cap nodes(p)) ELSE {pf_table[p] \cap nodes(p)}

Construct(p) ==
  /\ p \notin created
  /\ \E inTable \in InTable(p), admin \in [nodes(p) -> ConfiguredAdminState] :
       ConstructPool(p, inTable, admin)
  /\ UNCHANGED workerVars

(* pfctl_worker_loop(): a message is processed if the parent lives.        *)
TakeMessage ==
  /\ worker = "running" /\ ~aborted
  /\ Receive
  /\ Pf!Start(Head(mq))
  /\ UNCHANGED worker

(* pf_sync_table() goes on, also when the parent died meanwhile.           *)
WorkerStep == Pf!SyncStep /\ UNCHANGED <<vars, worker>>

ClientStep == Pf!ClientStep /\ UNCHANGED <<vars, worker>>

(* The memory of a new main process, before its first pool is built.       *)
Forget ==
  /\ hard_state' = [h \in Checks |-> "STATE_DOWN"]
  /\ failure_counter' = [h \in Checks |-> 0]
  /\ is_running' = {}
  /\ state' = [n \in Nodes |-> "STATE_DOWN"]
  /\ admin_state' = [n \in Nodes |-> "STATE_ENABLED"]
  /\ min_nodes_kept' = {} /\ max_nodes_kept' = {}
  /\ up_nodes' = [p \in Pools |-> {}]
  /\ pool_state' = [p \in Pools |-> "STATE_DOWN"]
  /\ backup_pool_active' = {} /\ pf_synced' = {} /\ created' = {}
  /\ mq' = <<>> /\ calls' = <<>> /\ reload' = {} /\ sweep' = {}
  /\ config' = [n \in Nodes |-> "STATE_ENABLED"]

(* The main process dies or leaves its loop (SIGTERM, a health check's     *)
(* HC_PANIC, an exception): what it had in memory and in the queue is lost.*)
MainDies ==
  /\ ~aborted
  /\ aborted' = TRUE
  /\ Forget
  /\ UNCHANGED workerVars

(* The worker is killed, at any point of pf_sync_table().                  *)
WorkerDies ==
  /\ worker = "running"
  /\ worker' = "exited"
  /\ job' = NoJob
  /\ UNCHANGED <<vars, pf_table, src_nodes, linked, deferred, plain>>

(* Mutant: an error of waitpid() is ignored.                               *)
WorkerCheck_OnlyReaps ==
  /\ Idle
  /\ worker = "exited"
  /\ worker' = "reaped"
  /\ UNCHANGED <<vars, pf_table, src_nodes, linked, deferred, plain, job>>

(* worker_check_callback(): waitpid() reaps a dead worker first.  The      *)
(* status it gives is not an exit code: it equals EXIT_FAILURE, which ends *)
(* the main loop, only if SIGHUP killed the worker.  Otherwise nothing is  *)
(* done until the next call, where waitpid() fails, which ends it, too.    *)
WorkerCheck ==
  /\ Idle
  /\ worker # "running"
  /\ worker' = "reaped"
  /\ \/ worker = "exited" /\ UNCHANGED vars
     \/ aborted' = TRUE /\ Forget
  /\ UNCHANGED <<pf_table, src_nodes, linked, deferred, plain, job>>

(* daemon(8) starts main() again: a new queue and a new worker.            *)
Restart ==
  /\ aborted /\ job = NoJob
  /\ aborted' = FALSE
  /\ Forget
  /\ worker' = "running"
  /\ UNCHANGED <<pf_table, src_nodes, linked, deferred, plain, job>>

TesttoolNext ==
  \/ \E p \in Pools : Construct(p)
  \/ Event /\ UNCHANGED workerVars
  \/ TakeMessage \/ WorkerStep \/ ClientStep
  \/ MainDies \/ WorkerDies \/ WorkerCheck \/ Restart

TesttoolSpec == TesttoolInit /\ [][TesttoolNext]_allVars

(* libevent dispatches every event that stays pending or comes back: the   *)
(* rest of a callback always runs, every check is scheduled again and ends *)
(* (its timeout at the latest), and the timers of the syncer and of the    *)
(* worker check keep firing.  Idle holds between callbacks only, so what   *)
(* waits for it needs strong fairness.  The worker goes on unless it dies, *)
(* and daemon(8) always starts a dead testtool again.  Nothing makes       *)
(* SIGUSR1 or a crash happen.                                              *)
TesttoolFairness ==
  /\ WF_allVars(TakeMessage) /\ WF_allVars(WorkerStep)
  /\ WF_allVars(Restart) /\ SF_allVars(WorkerCheck)
  /\ SF_allVars(SyncLbPools /\ UNCHANGED workerVars)
  /\ \A p \in Pools :
       /\ WF_allVars(Construct(p))
       /\ WF_allVars((UpdateUser(p) \/ SyncNoHc(p)) /\ UNCHANGED workerVars)
  /\ \A n \in Nodes :
       WF_allVars(/\ UNCHANGED workerVars
                  /\ \/ KeepDowntime(n)
                     \/ \E admin \in ConfiguredAdminState : ChangeDowntime(n, admin))
  /\ \A h \in Checks :
       /\ SF_allVars(/\ UNCHANGED workerVars
                     /\ \E S \in SUBSET Checks : h \in S /\ Schedule(S))
       /\ SF_allVars(/\ UNCHANGED workerVars
                     /\ \E result \in HealthcheckResult : EndCheck(h, result))

FairTesttoolSpec == TesttoolSpec /\ TesttoolFairness
-----------------------------------------------------------------------------
(* Properties.                                                             *)

(* What the worker will have made of the table of p once it has worked off *)
(* the queue: what the last message of p wants, if there is one.           *)
Outcome(p) ==
  LET sent == {i \in 1 .. Len(mq) : mq[i].pool = p}
      last == CHOOSE i \in sent : \A j \in sent : j <= i
  IN  IF sent # {} THEN Pf!WantSet(mq[last])
      ELSE IF job # NoJob /\ job.msg.pool = p THEN Pf!WantSet(job.msg)
      ELSE pf_table[p]

(* A pool that counts as synced gets the table it wants from what is       *)
(* already under way: no change of the wanted nodes is lost between        *)
(* pool_logic(), the queue and the worker, at any moment, through any      *)
(* number of crashes of either process.                                    *)
SyncedMeansUnderWay ==
  (~pf_fails /\ ~aborted /\ worker = "running") =>
    \A p \in pf_synced : Outcome(p) = up_nodes[p] \cap nodes(p)

(* A restart lets the nodes in a pool's table keep their traffic, unless   *)
(* they were disabled meanwhile or there are too few: the constructors     *)
(* take over the state pf has, and the first pool_logic() does not remove  *)
(* any of them, even after a crash in the middle of a sync.                *)
RestartKeepsTraffic ==
  [][~pf_fails =>
     \A p \in created' \ created :
       LET serving == {n \in pf_table[p] : IsEnabled(n)'}
       IN  serving \subseteq up_nodes'[p] \/ Cardinality(serving) < min_nodes(p)]_allVars

(* If the wanted nodes stop changing and both processes live, pf gets them *)
(* in the end, although each send may meet a full queue: a pool with       *)
(* checks tries again when one of them ends ("Always try to update pfctl.  *)
(* It might have failed previously"), one without in the syncer's callback.*)
EventuallyInstalled ==
  <>[][up_nodes' = up_nodes /\ ~aborted' /\ worker' = "running"]_allVars
    => <>[](\A p \in Pools : pf_table[p] = up_nodes[p] \cap nodes(p))

(* Whichever process dies, both run again in the end: the death of the     *)
(* worker is noticed although its exit status is misread.                  *)
BothProcessesReturn ==
  (aborted \/ worker # "running") ~> (~aborted /\ worker = "running")

(* Everything that was decided has been done.                              *)
Quiet ==
  /\ Idle /\ pf_synced = Pools
  /\ mq = <<>> /\ job = NoJob /\ worker = "running"

(* README.rst says that downtimes "force Testtool to mark given node in    *)
(* given pool as hard down, thus killing all traffic to it".  The code     *)
(* does not for a node that was drained before: the wanted nodes stay the  *)
(* same, so pool_logic() sends no message.                                 *)
DowntimeKillsTraffic ==
  Quiet => \A n \in Nodes :
             config[n] = "STATE_DOWNTIME" => \A f \in Pf!states : f[3] # n

(* send_message() says that the state sent for a node "is overwriten by    *)
(* presence of said node in up_lb_nodes, as the later one includes         *)
(* calculation of min_ and max_nodes and backup_pools", so that the wanted *)
(* nodes of a pool end up in its table.  The code sends the pool's own     *)
(* nodes only, and those of its backup never get there.                    *)
WantedNodesInTable ==
  Quiet => \A p \in Pools : pf_table[p] = up_nodes[p]
=============================================================================
