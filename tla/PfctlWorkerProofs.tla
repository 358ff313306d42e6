------------------------- MODULE PfctlWorkerProofs -------------------------
(***************************************************************************)
(* Proofs about the workers of several incarnations of testtool, for any   *)
(* number of them: how they share the name of the queue (PfctlWorker), and *)
(* two calls of pf_sync_table() on one table (PfctlOrphan).                *)
(***************************************************************************)
EXTENDS PfctlWorker, PfctlOrphan, PfctlProofs

-----------------------------------------------------------------------------
(* The name of the queue.                                                  *)

(* One main process at a time: an incarnation starts when all before it    *)
(* are gone.                                                               *)
OneMain == \A i, j \in Runs : i < j /\ main[j] # "none" => main[i] = "gone"

(* The name leads to the queue of the last incarnation, which made it.     *)
NameIsLast ==
  named # 0 =>
    /\ main[named] \notin {"none", "started", "forked"}
    /\ \A j \in Runs : named < j => main[j] = "none"

(* A worker was forked by its main process.                                *)
WorkerIsForked == \A i \in Runs : worker[i] # "none" => main[i] \notin {"none", "started"}

(* What the history variable clean promises: no worker of an earlier       *)
(* incarnation lives.                                                      *)
NoOrphans ==
  clean =>
    \A i, j \in Runs : i < j /\ main[j] # "none" => worker[i] \in {"none", "exited"}

(* AwaitsCreation, from the fork on.                                       *)
CreationLasts ==
  clean => \A i \in Runs :
             worker[i] \in {"forked", "attaching"} /\ main[i] = "ready" => named = i

(* The inductive invariant.                                                *)
WorkerInv ==
  /\ WorkerTypeOK
  /\ OneMain /\ NameIsLast /\ WorkerIsForked /\ NoOrphans
  /\ ReadsOwnQueue /\ CreationLasts

LEMMA RunsAreNats == N \in Nat /\ Runs \subseteq Nat /\ 0 \notin Runs
  BY WorkerAssumption DEF Runs

LEMMA InitWorkerInv == WorkerInit => WorkerInv
  BY RunsAreNats DEF WorkerInit, WorkerInv, WorkerTypeOK, OneMain, NameIsLast, WorkerIsForked,
       NoOrphans, ReadsOwnQueue, CreationLasts

(* The steps of the main process.                                          *)
LEMMA MainKeepsInv ==
  ASSUME WorkerInv, NEW i \in Runs,
         \/ StartMain(i) \/ Fork(i) \/ CreateQueue(i) \/ Signal(i)
         \/ RemoveQueue(i) \/ Wait(i) \/ Crash(i)
  PROVE  WorkerInv'
<1> USE RunsAreNats
<1>1. CASE StartMain(i)
  <2>1. /\ main[i] = "none" /\ main' = [main EXCEPT ![i] = "started"] /\ named' = 0
        /\ \A j \in Runs : j < i => main[j] = "gone"
        /\ clean' = (clean /\ \A j \in 1 .. i - 1 : worker[j] \in {"none", "exited"})
        /\ UNCHANGED <<worker, opened, running>>
    BY <1>1 DEF StartMain, Move, Runs
  <2>2. WorkerTypeOK'
    BY <2>1 DEF WorkerInv, WorkerTypeOK
  <2>3. OneMain' /\ NameIsLast' /\ WorkerIsForked'
    BY <2>1 DEF WorkerInv, WorkerTypeOK, OneMain, NameIsLast, WorkerIsForked
  <2>4. clean' => clean /\ \A j \in Runs : j < i => worker[j] \in {"none", "exited"}
    <3>1. \A j \in Runs : j < i => j \in 1 .. i - 1
      BY DEF Runs
    <3>2. clean \in BOOLEAN
      BY DEF WorkerInv, WorkerTypeOK
    <3> QED
      BY <2>1, <3>1, <3>2, Zenon
  <2>5. NoOrphans'
    BY <2>1, <2>4 DEF WorkerInv, WorkerTypeOK, NoOrphans
  <2>6. ReadsOwnQueue'
    BY <2>1, <2>4 DEF WorkerInv, ReadsOwnQueue
  <2>7. CreationLasts'
    BY <2>1, <2>4 DEF WorkerInv, WorkerTypeOK, OneMain, CreationLasts
  <2> QED
    BY <2>2, <2>3, <2>5, <2>6, <2>7 DEF WorkerInv
<1>2. CASE Fork(i)
  <2>1. WorkerTypeOK'
    BY <1>2 DEF Fork, Move, WorkerInv, WorkerTypeOK
  <2>2. OneMain' /\ NameIsLast' /\ WorkerIsForked'
    BY <1>2 DEF Fork, Move, WorkerInv, WorkerTypeOK, OneMain, NameIsLast, WorkerIsForked
  <2>3. NoOrphans'
    BY <1>2 DEF Fork, Move, WorkerInv, WorkerTypeOK, OneMain, WorkerIsForked, NoOrphans
  <2>4. ReadsOwnQueue'
    BY <1>2 DEF Fork, Move, WorkerInv, WorkerTypeOK, ReadsOwnQueue
  <2>5. CreationLasts'
    BY <1>2 DEF Fork, Move, WorkerInv, WorkerTypeOK, OneMain, WorkerIsForked, NoOrphans,
         CreationLasts
  <2> QED
    BY <2>1, <2>2, <2>3, <2>4, <2>5 DEF WorkerInv
<1>3. CASE CreateQueue(i)
  <2>0. i \in 0 .. N
    BY DEF Runs
  <2>1. WorkerTypeOK'
    BY <1>3, <2>0 DEF CreateQueue, Move, WorkerInv, WorkerTypeOK
  <2>2. OneMain' /\ WorkerIsForked'
    BY <1>3 DEF CreateQueue, Move, WorkerInv, WorkerTypeOK, OneMain, WorkerIsForked
  <2>3. NameIsLast'
    BY <1>3 DEF CreateQueue, Move, WorkerInv, WorkerTypeOK, OneMain, NameIsLast
  <2>4. NoOrphans' /\ ReadsOwnQueue'
    BY <1>3 DEF CreateQueue, Move, WorkerInv, WorkerTypeOK, NoOrphans, ReadsOwnQueue
  <2>5. CreationLasts'
    BY <1>3 DEF CreateQueue, Move, WorkerInv, WorkerTypeOK, OneMain, CreationLasts
  <2> QED
    BY <2>1, <2>2, <2>3, <2>4, <2>5 DEF WorkerInv
<1>4. CASE Signal(i)
  BY <1>4 DEF Signal, Move, WorkerInv, WorkerTypeOK, OneMain, NameIsLast, WorkerIsForked,
       NoOrphans, ReadsOwnQueue, CreationLasts
<1>5. CASE RemoveQueue(i)
  BY <1>5 DEF RemoveQueue, Move, WorkerInv, WorkerTypeOK, OneMain, NameIsLast,
       WorkerIsForked, NoOrphans, ReadsOwnQueue, CreationLasts
<1>6. CASE Wait(i)
  BY <1>6 DEF Wait, Move, WorkerInv, WorkerTypeOK, OneMain, NameIsLast, WorkerIsForked,
       NoOrphans, ReadsOwnQueue, CreationLasts
<1>7. CASE Crash(i)
  BY <1>7 DEF Crash, WorkerInv, WorkerTypeOK, OneMain, NameIsLast, WorkerIsForked,
       NoOrphans, ReadsOwnQueue, CreationLasts
<1> QED
  BY <1>1, <1>2, <1>3, <1>4, <1>5, <1>6, <1>7

(* The steps of the worker.                                                *)
LEMMA WorkerKeepsInv ==
  ASSUME WorkerInv, NEW i \in Runs,
         \/ InstallHandler(i) \/ Attach(i) \/ EnterLoop(i) \/ LeaveLoop(i)
         \/ ReceiveFails(i) \/ Exit(i) \/ WorkerDies(i)
  PROVE  WorkerInv'
<1> USE RunsAreNats
<1>1. CASE InstallHandler(i)
  BY <1>1 DEF InstallHandler, Move, WorkerInv, WorkerTypeOK, OneMain, NameIsLast,
       WorkerIsForked, NoOrphans, ReadsOwnQueue, CreationLasts
<1>2. CASE Attach(i)
  <2>1. /\ worker[i] = "attaching" /\ worker' = [worker EXCEPT ![i] = "attached"]
        /\ named # 0 /\ opened' = [opened EXCEPT ![i] = named]
        /\ UNCHANGED <<main, named, running, clean>>
    BY <1>2 DEF Attach, Move
  <2>2. named \in Runs
    BY <2>1 DEF WorkerInv, WorkerTypeOK, Runs
  <2>3. clean => named = i
    <3>1. ~(named < i)
      BY <2>1, <2>2 DEF WorkerInv, NameIsLast, WorkerIsForked
    <3>2. clean => ~(i < named)
      BY <2>1, <2>2 DEF WorkerInv, NameIsLast, NoOrphans
    <3> QED
      BY <2>2, <3>1, <3>2
  <2>4. ReadsOwnQueue'
    BY <2>1, <2>3 DEF WorkerInv, WorkerTypeOK, ReadsOwnQueue
  <2>5. WorkerTypeOK'
    BY <2>1 DEF WorkerInv, WorkerTypeOK
  <2> QED
    BY <2>1, <2>4, <2>5 DEF WorkerInv, WorkerTypeOK, OneMain, NameIsLast, WorkerIsForked,
         NoOrphans, CreationLasts
<1>3. CASE EnterLoop(i) \/ LeaveLoop(i) \/ ReceiveFails(i)
  <2>1. /\ worker[i] \in {"attached", "loop"}
        /\ worker' = [worker EXCEPT ![i] = worker'[i]] /\ worker'[i] \in {"loop", "leaving"}
        /\ running' \subseteq Runs
        /\ UNCHANGED <<main, named, opened, clean>>
    BY <1>3, Zenon DEF EnterLoop, LeaveLoop, ReceiveFails, Move, WorkerInv, WorkerTypeOK
  <2> QED
    BY <2>1 DEF WorkerInv, WorkerTypeOK, OneMain, NameIsLast, WorkerIsForked, NoOrphans,
         ReadsOwnQueue, CreationLasts
<1>4. CASE Exit(i)
  <2>1. WorkerTypeOK'
    BY <1>4 DEF Exit, Move, WorkerInv, WorkerTypeOK
  <2>2. OneMain' /\ NameIsLast' /\ WorkerIsForked'
    BY <1>4 DEF Exit, Move, WorkerInv, WorkerTypeOK, OneMain, NameIsLast, WorkerIsForked
  <2>3. NoOrphans'
    BY <1>4 DEF Exit, Move, WorkerInv, WorkerTypeOK, OneMain, WorkerIsForked, NoOrphans
  <2>4. ReadsOwnQueue'
    BY <1>4 DEF Exit, Move, WorkerInv, WorkerTypeOK, ReadsOwnQueue
  <2>5. CreationLasts'
    BY <1>4 DEF Exit, Move, WorkerInv, WorkerTypeOK, OneMain, WorkerIsForked, NoOrphans,
         CreationLasts
  <2> QED
    BY <2>1, <2>2, <2>3, <2>4, <2>5 DEF WorkerInv
<1>5. CASE WorkerDies(i)
  BY <1>5 DEF WorkerDies, WorkerInv, WorkerTypeOK, OneMain, NameIsLast, WorkerIsForked,
       NoOrphans, ReadsOwnQueue, CreationLasts
<1> QED
  BY <1>1, <1>2, <1>3, <1>4, <1>5

LEMMA WorkerInvHolds == WorkerSpec => []WorkerInv
<1>1. WorkerInv /\ [WorkerNext]_workerVars => WorkerInv'
  <2> SUFFICES ASSUME WorkerInv, [WorkerNext]_workerVars PROVE WorkerInv'
    OBVIOUS
  <2>1. CASE UNCHANGED workerVars
    BY <2>1 DEF workerVars, WorkerInv, WorkerTypeOK, OneMain, NameIsLast, WorkerIsForked,
         NoOrphans, ReadsOwnQueue, CreationLasts
  <2>2. CASE WorkerNext
    BY <2>2, MainKeepsInv, WorkerKeepsInv DEF WorkerNext, Step
  <2> QED
    BY <2>1, <2>2
<1> QED
  BY <1>1, InitWorkerInv, PTL DEF WorkerSpec
-----------------------------------------------------------------------------
(* Every variable of the worker's life keeps its type, and a worker past   *)
(* attach_pfctl_queue() has a queue.                                       *)
THEOREM WorkerTypeCorrect == WorkerSpec => []WorkerTypeOK
<1>1. WorkerInv => WorkerTypeOK
  BY DEF WorkerInv
<1> QED
  BY <1>1, WorkerInvHolds, PTL

(* new_pfctl_queue() finds the name free, after any number of crashes and  *)
(* with orphans around: create_only does not throw.                        *)
THEOREM QueueIsCreated == WorkerSpec => []NameIsFree
<1>1. WorkerInv => NameIsFree
  <2> SUFFICES ASSUME WorkerInv, NEW i \in Runs, main[i] = "forked", named # 0
               PROVE  FALSE
    BY DEF NameIsFree
  <2>1. named \in Runs
    BY RunsAreNats DEF WorkerInv, WorkerTypeOK, Runs
  <2> QED
    BY <2>1, RunsAreNats DEF WorkerInv, OneMain, NameIsLast
<1> QED
  BY <1>1, WorkerInvHolds, PTL

(* A worker opens the queue of its own main process, if no worker of an    *)
(* earlier incarnation lived when it was started.                          *)
THEOREM WorkersReadOwnQueue == WorkerSpec => []ReadsOwnQueue
<1>1. WorkerInv => ReadsOwnQueue
  BY DEF WorkerInv
<1> QED
  BY <1>1, WorkerInvHolds, PTL

(* Then, too, the queue is there for attach_pfctl_queue() from its         *)
(* creation until the main process stops.                                  *)
THEOREM CreationIsAwaited == WorkerSpec => []AwaitsCreation
<1>1. WorkerInv => AwaitsCreation
  BY DEF WorkerInv, CreationLasts, AwaitsCreation
<1> QED
  BY <1>1, WorkerInvHolds, PTL
-----------------------------------------------------------------------------
(* Two workers on one table.  What a command of the orphan may do to it is *)
(* the lemma about the commands of a call, taken for the orphan's call.    *)

OldCall == INSTANCE PfctlProofs WITH job <- orphan

(* The inductive invariant: both calls are in order, met is the message of *)
(* the orphan while it lives, the new worker's sync is as far as it can be *)
(* with an orphan that works for met, and the table it left stays so.      *)
OrphanInv ==
  /\ CallOK /\ KillOK
  /\ OldCall!CallOK /\ OldCall!KillOK
  /\ orphan # NoJob => met = orphan.msg
  /\ TableOK(met)
  /\ synced # NoJob => job = NoJob /\ synced.pool \in Pools
  /\ SyncsAgreeWhereMessagesDo

LEMMA OldStepEffect ==
  ASSUME OldCall!CallOK, OldCall!KillOK, Old!SyncStep
  PROVE  /\ OldCall!CallOK' /\ OldCall!KillOK' /\ orphan # NoJob
         /\ orphan' # NoJob => orphan'.msg = orphan.msg
         /\ \A p \in Pools : p # orphan.msg.pool => pf_table'[p] = pf_table[p]
         /\ pf_table[orphan.msg.pool] \cap WantSet(orphan.msg)
              \subseteq pf_table'[orphan.msg.pool]
         /\ pf_table'[orphan.msg.pool]
              \subseteq pf_table[orphan.msg.pool] \cup WantSet(orphan.msg)
<1>1. OldCall!SyncStep
  BY Zenon DEF
    Old!SyncStep, Old!ShowTable, Old!TableDel, Old!TableAdd, Old!Rebalance,
    Old!KillNode, Old!At, Old!GiveUp, Old!GetTable, Old!ToDel, Old!ToKill,
    Old!WantSet, Old!WithStates, Old!KillSrcNodes, Old!KillStates, Old!AfterKill,
    Old!LastKill, Old!traffic, OldCall!SyncStep, OldCall!ShowTable,
    OldCall!TableDel, OldCall!TableAdd, OldCall!Rebalance, OldCall!KillNode,
    OldCall!At, OldCall!GiveUp, OldCall!GetTable, OldCall!ToDel, OldCall!ToKill,
    OldCall!WantSet, OldCall!WithStates, OldCall!KillSrcNodes, OldCall!KillStates,
    OldCall!AfterKill, OldCall!LastKill, OldCall!traffic
<1>2. /\ OldCall!CallOK' /\ OldCall!KillOK' /\ orphan # NoJob
      /\ orphan' # NoJob => orphan'.msg = orphan.msg
      /\ \A p \in Pools : p # orphan.msg.pool => pf_table'[p] = pf_table[p]
      /\ pf_table[orphan.msg.pool] \cap OldCall!WantSet(orphan.msg)
           \subseteq pf_table'[orphan.msg.pool]
      /\ pf_table'[orphan.msg.pool]
           \subseteq pf_table[orphan.msg.pool] \cup OldCall!WantSet(orphan.msg)
  BY <1>1, OldCall!SyncStepEffect, PfctlAssumption
<1>3. OldCall!WantSet(orphan.msg) = WantSet(orphan.msg)
  BY DEF OldCall!WantSet, WantSet
<1> QED
  BY <1>2, <1>3

(* A call is in order whatever happens to the tables of others.            *)
LEMMA StillCalls ==
  ASSUME TablesOK'
  PROVE  /\ CallOK /\ KillOK /\ UNCHANGED job => CallOK' /\ KillOK'
         /\ OldCall!CallOK /\ OldCall!KillOK /\ UNCHANGED orphan =>
              OldCall!CallOK' /\ OldCall!KillOK'
<1>1. CallOK /\ KillOK /\ UNCHANGED job => CallOK' /\ KillOK'
  BY DEF CallOK, JobOK, SetsOK, KillOK, IsFirst, WithStates
<1>2. OldCall!CallOK /\ OldCall!KillOK /\ UNCHANGED orphan => OldCall!CallOK' /\ OldCall!KillOK'
  BY DEF TablesOK, OldCall!CallOK, OldCall!TablesOK, OldCall!JobOK, OldCall!SetsOK,
       OldCall!KillOK, OldCall!IsFirst, OldCall!WithStates
<1> QED
  BY <1>1, <1>2

LEMMA OrphanInitInv == OrphanInit => OrphanInv
<1> SUFFICES ASSUME OrphanInit PROVE OrphanInv
  OBVIOUS
<1>1. PICK msg \in Messages :
        /\ orphan = [msg |-> msg, pc |-> "show", to_add |-> {}, to_del |-> {},
                     todo |-> {}, kill |-> 1, failed |-> FALSE]
        /\ met = msg
  BY Zenon DEF OrphanInit
<1>2. orphan \in OldCall!Job
  BY <1>1 DEF Messages, PfMessage, AdminStates, OldCall!Job, OldCall!PfMessage,
       OldCall!AdminStates
<1>3. TablesOK /\ job = NoJob /\ synced = NoJob
  BY DEF OrphanInit, PfInit, TablesOK
<1> QED
  BY <1>1, <1>2, <1>3 DEF OrphanInv, CallOK, TablesOK, JobOK, SetsOK, KillOK, TableOK,
       OldCall!CallOK, OldCall!TablesOK, OldCall!JobOK, OldCall!SetsOK, OldCall!KillOK,
       SyncsAgreeWhereMessagesDo

LEMMA OrphanNextInv ==
  ASSUME OrphanInv, [OrphanNext]_orphanVars
  PROVE  OrphanInv'
<1>1. ASSUME NEW msg \in Messages, TakeMessage(msg)
      PROVE  OrphanInv'
  <2>1. CallOK' /\ KillOK' /\ job'.pc = "show"
    BY <1>1, StartKeepsCall DEF OrphanInv, TakeMessage, Messages
  <2>2. OldCall!CallOK' /\ OldCall!KillOK'
    BY <1>1, <2>1, StillCalls DEF OrphanInv, TakeMessage, CallOK
  <2>3. orphan' # NoJob => met' = orphan'.msg
    BY <1>1 DEF TakeMessage
  <2>4. TableOK(met)' /\ synced' = NoJob
    BY <1>1, <2>1 DEF TableOK, TakeMessage
  <2> QED
    BY <2>1, <2>2, <2>3, <2>4 DEF OrphanInv, SyncsAgreeWhereMessagesDo
<1>2. CASE NewStep
  <2>0. SyncStep /\ UNCHANGED <<orphan, met>>
    BY <1>2 DEF NewStep
  <2>1. PICK m : m = met
    OBVIOUS
  <2>2. TableOK(m)
    BY <2>1 DEF OrphanInv, TableOK, Lower, Upper
  <2>3. CallOK' /\ KillOK' /\ TableOK(m)'
    BY <2>0, <2>2, SyncStepEffect DEF OrphanInv
  <2>4. m = met'
    BY <2>0, <2>1
  <2>5. TableOK(met)'
    BY <2>3, <2>4 DEF TableOK, Lower, Upper
  <2>6. OldCall!CallOK' /\ OldCall!KillOK'
    BY <2>0, <2>3, StillCalls DEF OrphanInv, CallOK
  <2>7. CASE At("rebalance") /\ ~job.failed
    <3>1. Rebalance
      BY <2>0, <2>7 DEF SyncStep, ShowTable, TableDel, TableAdd, KillNode, At
    <3>2. job' = NoJob /\ UNCHANGED pf_table /\ synced' = job.msg
      BY <1>2, <2>7, <3>1 DEF Rebalance, NewStep
    <3>3. job # NoJob /\ job.msg.pool \in Pools
      BY <2>7 DEF At, OrphanInv, CallOK, JobOK, Job, PfMessage
    <3>4. Lower(m) \subseteq pf_table[job.msg.pool] /\ pf_table[job.msg.pool] \subseteq Upper(m)
      BY <2>2, <2>7, <3>3 DEF TableOK, At
    <3>5. SyncsAgreeWhereMessagesDo'
      BY <2>4, <3>2, <3>4 DEF SyncsAgreeWhereMessagesDo, Lower, Upper, WantSet
    <3> QED
      BY <2>0, <2>3, <2>5, <2>6, <3>2, <3>3, <3>5, ZenonT(60) DEF OrphanInv
  <2>8. CASE ~(At("rebalance") /\ ~job.failed)
    <3>1. synced' = NoJob
      BY <1>2, <2>8 DEF NewStep
    <3> QED
      BY <2>0, <2>3, <2>5, <2>6, <3>1, ZenonT(60) DEF OrphanInv, SyncsAgreeWhereMessagesDo
  <2> QED
    BY <2>7, <2>8
<1>3. CASE Old!SyncStep /\ UNCHANGED <<job, met, synced>>
  <2>1. /\ OldCall!CallOK' /\ OldCall!KillOK' /\ orphan # NoJob
        /\ orphan' # NoJob => orphan'.msg = orphan.msg
        /\ \A p \in Pools : p # orphan.msg.pool => pf_table'[p] = pf_table[p]
        /\ pf_table[orphan.msg.pool] \cap WantSet(orphan.msg)
             \subseteq pf_table'[orphan.msg.pool]
        /\ pf_table'[orphan.msg.pool]
             \subseteq pf_table[orphan.msg.pool] \cup WantSet(orphan.msg)
    BY <1>3, OldStepEffect DEF OrphanInv
  <2>2. met = orphan.msg /\ met # NoJob
    <3>1. orphan.msg \in OldCall!PfMessage
      BY <2>1 DEF OrphanInv, OldCall!CallOK, OldCall!JobOK, OldCall!Job
    <3>2. orphan.msg \in PfMessage
      BY <3>1 DEF PfMessage, AdminStates, OldCall!PfMessage, OldCall!AdminStates
    <3> QED
      BY <2>1, <3>2, NoJobAssumption DEF OrphanInv
  <2>3. CallOK' /\ KillOK'
    BY <1>3, <2>1, StillCalls DEF OrphanInv, OldCall!CallOK, OldCall!TablesOK, TablesOK
  <2>4. TableOK(met)'
    <3>1. CASE job = NoJob \/ job.failed
      BY <1>3, <3>1, ZenonT(60) DEF TableOK
    <3>2. CASE job # NoJob /\ ~job.failed
      <4>1. job.msg.pool \in Pools
        BY <3>2 DEF OrphanInv, CallOK, JobOK, Job, PfMessage
      <4>2. /\ pf_table[job.msg.pool] \cap WantSet(met) \subseteq pf_table'[job.msg.pool]
            /\ pf_table'[job.msg.pool] \subseteq pf_table[job.msg.pool] \cup WantSet(met)
        BY <2>1, <2>2, <4>1
      <4> QED
        BY <1>3, <2>2, <4>2 DEF OrphanInv, TableOK, Lower, Upper
    <3> QED
      BY <3>1, <3>2
  <2>5. SyncsAgreeWhereMessagesDo'
    <3>1. SUFFICES ASSUME synced # NoJob
                   PROVE  /\ WantSet(synced) \cap WantSet(met) \subseteq pf_table'[synced.pool]
                          /\ pf_table'[synced.pool] \subseteq WantSet(synced) \cup WantSet(met)
      BY <1>3, <2>2, ZenonT(60) DEF SyncsAgreeWhereMessagesDo, WantSet
    <3>2. /\ synced.pool \in Pools
          /\ WantSet(synced) \cap WantSet(met) \subseteq pf_table[synced.pool]
          /\ pf_table[synced.pool] \subseteq WantSet(synced) \cup WantSet(met)
      BY <2>2, <3>1 DEF OrphanInv, SyncsAgreeWhereMessagesDo
    <3>3. /\ pf_table[synced.pool] \cap WantSet(met) \subseteq pf_table'[synced.pool]
          /\ pf_table'[synced.pool] \subseteq pf_table[synced.pool] \cup WantSet(met)
      BY <2>1, <2>2, <3>2
    <3> QED
      BY <3>2, <3>3
  <2> QED
    BY <1>3, <2>1, <2>2, <2>3, <2>4, <2>5, ZenonT(60) DEF OrphanInv
<1>4. CASE orphan # NoJob /\ orphan' = NoJob /\ UNCHANGED <<pfVars, met, synced>>
  <2>1. TablesOK' /\ UNCHANGED <<job, pf_table, met, synced>>
    BY <1>4 DEF OrphanInv, CallOK, TablesOK, pfVars
  <2>2. CallOK' /\ KillOK'
    BY <2>1, StillCalls DEF OrphanInv
  <2>3. OldCall!CallOK' /\ OldCall!KillOK'
    BY <1>4, <2>1 DEF TablesOK, OldCall!CallOK, OldCall!TablesOK, OldCall!JobOK,
         OldCall!SetsOK, OldCall!KillOK
  <2>4. TableOK(met)'
    BY <2>1 DEF OrphanInv, TableOK, Lower, Upper
  <2>5. SyncsAgreeWhereMessagesDo'
    BY <2>1, ZenonT(60) DEF OrphanInv, SyncsAgreeWhereMessagesDo, WantSet
  <2> QED
    BY <1>4, <2>1, <2>2, <2>3, <2>4, <2>5, ZenonT(60) DEF OrphanInv
<1>5. CASE UNCHANGED orphanVars
  <2>1. TablesOK' /\ UNCHANGED <<job, pf_table, met, orphan, synced>>
    BY <1>5 DEF OrphanInv, CallOK, TablesOK, pfVars, orphanVars
  <2>2. CallOK' /\ KillOK' /\ OldCall!CallOK' /\ OldCall!KillOK'
    BY <2>1, StillCalls DEF OrphanInv
  <2>3. TableOK(met)'
    BY <2>1 DEF OrphanInv, TableOK, Lower, Upper
  <2>4. SyncsAgreeWhereMessagesDo'
    BY <2>1, ZenonT(60) DEF OrphanInv, SyncsAgreeWhereMessagesDo, WantSet
  <2> QED
    BY <2>1, <2>2, <2>3, <2>4, ZenonT(60) DEF OrphanInv
<1> QED
  BY <1>1, <1>2, <1>3, <1>4, <1>5 DEF OrphanNext

LEMMA OrphanInvHolds == OrphanSpec => []OrphanInv
  BY OrphanInitInv, OrphanNextInv, PTL DEF OrphanSpec
-----------------------------------------------------------------------------
(* Two syncs of one table, one of them of a worker whose main process      *)
(* died, agree on the nodes that both messages want and on those that      *)
(* neither wants, however their pfctl commands mix and whichever of them   *)
(* ends last; and a sync without an orphan repairs what orphans left.      *)
THEOREM SyncsAgree == OrphanSpec => []SyncsAgreeWhereMessagesDo
<1>1. OrphanInv => SyncsAgreeWhereMessagesDo
  BY DEF OrphanInv
<1> QED
  BY <1>1, OrphanInvHolds, PTL
=============================================================================
