--------------------------- MODULE TesttoolLemmas ---------------------------
(***************************************************************************)
(* Lemmas about module Testtool: what the steps of the main process and of *)
(* the worker mean to each other, to the queue and to the tables.          *)
(***************************************************************************)
EXTENDS Testtool, WellFoundedInduction, TLAPS

Sync == INSTANCE PfctlProofs

-----------------------------------------------------------------------------
(* Steps of the main process.                                              *)

LEMMA ConstructIsMain ==
  ASSUME NEW p \in Pools, Construct(p)
  PROVE  Main
<1>1. PICK inTable \in InTable(p), admin \in [nodes(p) -> ConfiguredAdminState] :
        ConstructPool(p, inTable, admin)
  BY DEF Construct
<1>2. p \in Pools \ created /\ inTable \in SUBSET nodes(p)
  BY DEF Construct, InTable
<1> QED
  BY <1>1, <1>2 DEF Main

(* Every step is one of the main process and its queue, leaves both alone, *)
(* or is the end or the start of a process, which forgets everything.      *)
LEMMA MainStep ==
  ASSUME [TesttoolNext]_allVars
  PROVE  [Next]_vars \/ (Forget /\ aborted' \in BOOLEAN)
<1>1. CASE \E p \in Pools : Construct(p)
  BY <1>1, ConstructIsMain DEF Next
<1>2. CASE Event
  BY <1>2 DEF Next, Main
<1>3. CASE TakeMessage
  BY <1>3 DEF TakeMessage, Next
<1>4. CASE WorkerStep \/ ClientStep \/ WorkerDies \/ UNCHANGED allVars
  BY <1>4 DEF WorkerStep, ClientStep, WorkerDies, allVars
<1>5. CASE MainDies \/ Restart
  BY <1>5, Zenon DEF MainDies, Restart
<1>6. CASE WorkerCheck
  BY <1>6, Zenon DEF WorkerCheck
<1> QED
  BY <1>1, <1>2, <1>3, <1>4, <1>5, <1>6, ZenonT(60) DEF TesttoolNext

-----------------------------------------------------------------------------
(* Steps of the worker and its clients.                                    *)

(* The commands of the worker and the clients are those of module Pfctl.   *)
LEMMA SameSteps ==
  /\ Pf!SyncStep => Sync!SyncStep
  /\ Pf!ClientStep => Sync!ClientStep
  /\ \A msg : Pf!Start(msg) => Sync!Start(msg)
<1>1. Pf!SyncStep => Sync!SyncStep
  BY Zenon DEF
    Pf!SyncStep, Pf!ShowTable, Pf!TableDel, Pf!TableAdd, Pf!Rebalance, Pf!KillNode,
    Pf!At, Pf!GiveUp, Pf!GetTable, Pf!ToDel, Pf!ToKill, Pf!WantSet, Pf!WithStates,
    Pf!KillSrcNodes, Pf!KillStates, Pf!AfterKill, Pf!LastKill, Pf!traffic,
    Sync!SyncStep, Sync!ShowTable, Sync!TableDel, Sync!TableAdd, Sync!Rebalance,
    Sync!KillNode, Sync!At, Sync!GiveUp, Sync!GetTable, Sync!ToDel, Sync!ToKill,
    Sync!WantSet, Sync!WithStates, Sync!KillSrcNodes, Sync!KillStates,
    Sync!AfterKill, Sync!LastKill, Sync!traffic
<1>2. Pf!ClientStep => Sync!ClientStep
  BY Zenon DEF
    Pf!ClientStep, Pf!Connect, Pf!MakeSrcNode, Pf!Disconnect, Pf!Flows, Pf!states,
    Sync!ClientStep, Sync!Connect, Sync!MakeSrcNode, Sync!Disconnect, Sync!Flows,
    Sync!states
<1>3. \A msg : Pf!Start(msg) => Sync!Start(msg)
  BY Zenon DEF Pf!Start, Sync!Start, Pf!traffic, Sync!traffic
<1> QED
  BY <1>1, <1>2, <1>3, ZenonT(60)

LEMMA MessagesFit == Message \subseteq Sync!PfMessage
<1>1. \A p : nodes(p) \in SUBSET Nodes
  BY DEF nodes
<1>2. Sync!AdminStates = LbNodeAdminState
  BY DEF Sync!AdminStates, LbNodeAdminState
<1> QED
  BY <1>1, <1>2 DEF Message, Sync!PfMessage

(* Every step is one of the worker or of a client, leaves pf and the       *)
(* worker alone, or ends the worker's call.                                *)
WorkerEnds == job' = NoJob /\ UNCHANGED <<pf_table, src_nodes, linked, deferred, plain>>

LEMMA WorkerSteps ==
  ASSUME TypeOK, [TesttoolNext]_allVars
  PROVE  [Sync!AnyNext]_(Sync!pfVars) \/ WorkerEnds
<1>1. CASE TakeMessage
  <2>1. mq \in Seq(Message) /\ mq # <<>> /\ Pf!Start(Head(mq))
    BY <1>1 DEF TakeMessage, Receive, TypeOK
  <2>2. Head(mq) \in Sync!PfMessage
    BY <2>1, MessagesFit
  <2> QED
    BY <2>1, <2>2, SameSteps, ZenonT(60) DEF Sync!AnyNext
<1>2. CASE WorkerStep \/ ClientStep
  BY <1>2, SameSteps DEF WorkerStep, ClientStep, Sync!AnyNext
<1>3. CASE (\E p \in Pools : Construct(p)) \/ (Event /\ UNCHANGED workerVars) \/ UNCHANGED allVars
  BY <1>3 DEF Construct, workerVars, allVars, Sync!pfVars, Sync!traffic
<1>4. CASE MainDies \/ WorkerCheck \/ Restart
  BY <1>4 DEF MainDies, WorkerCheck, Restart, workerVars, Sync!pfVars, Sync!traffic
<1>5. CASE WorkerDies
  BY <1>5 DEF WorkerDies, WorkerEnds
<1> QED
  BY <1>1, <1>2, <1>3, <1>4, <1>5, ZenonT(60) DEF TesttoolNext

LEMMA PfAssumption == Nodes \subseteq Nat /\ pf_fails \in BOOLEAN
  BY LbPoolAssumption, TesttoolAssumption

LEMMA NextPfInv == TypeOK /\ Sync!PfInv /\ [TesttoolNext]_allVars => Sync!PfInv'
<1> SUFFICES ASSUME TypeOK, Sync!PfInv, [TesttoolNext]_allVars
             PROVE  Sync!PfInv'
  OBVIOUS
<1>1. CASE [Sync!AnyNext]_(Sync!pfVars)
  BY <1>1, PfAssumption, Sync!NextKeepsInv, ZenonT(60)
<1>2. CASE WorkerEnds
  <2>1. Sync!CallOK' /\ Sync!KillOK' /\ Sync!TableOK(NoJob)'
    BY <1>2, PfAssumption, Sync!EndKeepsCall, ZenonT(60) DEF WorkerEnds, Sync!PfInv
  <2> QED
    BY <1>2, <2>1 DEF WorkerEnds, Sync!PfInv, Sync!TrafficOK, Sync!SilentOK
<1> QED
  BY <1>1, <1>2, WorkerSteps, ZenonT(60)

LEMMA InitPfInv == TesttoolInit => Sync!PfInv
  BY DEF TesttoolInit, Sync!PfInv, Sync!CallOK, Sync!TablesOK, Sync!JobOK, Sync!SetsOK,
    Sync!KillOK, Sync!TrafficOK, Sync!TableOK, Sync!SilentOK

(* What pfctl.cpp promises of a step: no wanted node leaves the table, and *)
(* of states only those of nodes that are removed for good.                *)
KeepsWanted ==
  job # NoJob =>
    pf_table[job.msg.pool] \cap Pf!WantSet(job.msg) \subseteq pf_table'[job.msg.pool]

SparesOthers ==
  \A f \in Pf!states :
    \/ f \in (Pf!states)'
    \/ Pf!Disconnect(f)
    \/ /\ Pf!At("kill") /\ f[2] = job.msg.pool /\ f[3] \in job.to_del
       /\ job.msg.admin[f[3]] \in {"STATE_DOWNTIME", "STATE_ENABLED"}

LEMMA PfInvPromises ==
  Sync!PfInv => Pf!PfTypeOK /\ Pf!SyncInstallsMessage /\ Pf!RemovedNodesAreSilent
<1>1. Sync!PfInv => Pf!PfTypeOK
  BY DEF Sync!PfInv, Sync!CallOK, Sync!TablesOK, Sync!JobOK, Sync!SetsOK, Sync!TrafficOK,
    Sync!Job, Sync!PfMessage, Sync!Flows, Pf!PfTypeOK, Pf!Flows
<1>2. Sync!PfInv => Pf!SyncInstallsMessage
  BY DEF Sync!PfInv, Sync!TableOK, Sync!Lower, Sync!Upper, Sync!WantSet,
    Pf!SyncInstallsMessage, Pf!At, Pf!WantSet
<1>3. Sync!PfInv => Pf!RemovedNodesAreSilent
  BY DEF Sync!PfInv, Sync!SilentOK, Sync!NoneTo, Sync!WithStates, Sync!states,
    Pf!RemovedNodesAreSilent, Pf!At, Pf!states
<1> QED
  BY <1>1, <1>2, <1>3, ZenonT(60)

LEMMA StepPromises ==
  ASSUME TypeOK, Sync!PfInv, [TesttoolNext]_allVars
  PROVE  KeepsWanted /\ SparesOthers
<1>1. KeepsWanted
  <2> SUFFICES ASSUME job # NoJob
               PROVE  pf_table[job.msg.pool] \cap Sync!WantSet(job.msg)
                        \subseteq pf_table'[job.msg.pool]
    BY DEF KeepsWanted, Pf!WantSet, Sync!WantSet
  <2>1. CASE [Sync!AnyNext]_(Sync!pfVars)
    BY <2>1, PfAssumption, Sync!StepKeepsWanted, ZenonT(60)
  <2>2. CASE WorkerEnds
    BY <2>2 DEF WorkerEnds
  <2> QED
    BY <2>1, <2>2, WorkerSteps, ZenonT(60)
<1>2. SparesOthers
  <2> SUFFICES \A f \in Sync!states : Sync!Spared(f)
    BY Zenon DEF SparesOthers, Pf!states, Sync!states, Sync!Spared, Sync!At, Pf!At,
      Sync!Disconnect, Pf!Disconnect
  <2>1. CASE [Sync!AnyNext]_(Sync!pfVars)
    BY <2>1, PfAssumption, Sync!StepSpares, ZenonT(60)
  <2>2. CASE WorkerEnds
    BY <2>2 DEF WorkerEnds, Sync!Spared, Sync!states
  <2> QED
    BY <2>1, <2>2, WorkerSteps, ZenonT(60)
<1> QED
  BY <1>1, <1>2, ZenonT(60)

-----------------------------------------------------------------------------
(* The queue.                                                              *)

(* A step that may send a message of p, and wants nothing new of others.   *)
Sends(p) ==
  /\ \A q \in Pools \ {p} :
       /\ up_nodes'[q] = up_nodes[q]
       /\ q \in pf_synced' <=> q \in pf_synced
  /\ \/ mq' = Append(mq, MessageFor(p)')
     \/ /\ mq' = mq
        /\ p \in pf_synced' => p \in pf_synced /\ up_nodes'[p] = up_nodes[p]

QueueRests == UNCHANGED <<up_nodes, pf_synced, mq>>

LEMMA UpdateSends ==
  ASSUME TypeOK, NEW p \in Pools, NEW synced \in BOOLEAN, UpdatePfctl(p, synced),
         synced => p \in pf_synced /\ up_nodes'[p] = up_nodes[p],
         \A q \in Pools \ {p} : up_nodes'[q] = up_nodes[q]
  PROVE  Sends(p)
<1> DEFINE sent == /\ ~synced
                   /\ Cardinality(nodes(p)) < MAX_NODES
                   /\ Cardinality(up_nodes'[p]) < MAX_NODES
                   /\ Len(mq) < QUEUE_LEN
<1>1. /\ mq' = IF sent THEN Append(mq, MessageFor(p)') ELSE mq
      /\ pf_synced' = IF synced \/ sent THEN pf_synced \cup {p} ELSE pf_synced \ {p}
  BY DEF UpdatePfctl
<1> HIDE DEF sent
<1> QED
  BY <1>1 DEF Sends

LEMMA LogicSends ==
  ASSUME TypeOK, NEW p \in Pools, NEW last, NEW kept, NEW forced,
         PoolLogic(p, last, kept, forced)
  PROVE  Sends(p)
<1>1. PICK wanted :
        /\ up_nodes' = [up_nodes EXCEPT ![p] = wanted]
        /\ UpdatePfctl(p, wanted = up_nodes[p] /\ p \in pf_synced)
  BY ZenonT(60) DEF PoolLogic
<1> DEFINE synced == wanted = up_nodes[p] /\ p \in pf_synced
<1>2. /\ synced \in BOOLEAN /\ UpdatePfctl(p, synced)
      /\ synced => p \in pf_synced /\ up_nodes'[p] = up_nodes[p]
      /\ \A q \in Pools \ {p} : up_nodes'[q] = up_nodes[q]
  BY <1>1 DEF TypeOK
<1> HIDE DEF synced
<1> QED
  BY <1>2, UpdateSends, ZenonT(60)

(* A step of the main process leaves the queue and the wanted nodes alone  *)
(* or is one that may send a message.                                      *)
LEMMA MainSends ==
  ASSUME TypeOK, Main
  PROVE  ~aborted /\ (QueueRests \/ \E p \in Pools : Sends(p))
<1>1. ASSUME NEW p \in Pools, NEW inTable, NEW admin, ConstructPool(p, inTable, admin)
      PROVE  ~aborted /\ Sends(p)
  BY <1>1, LogicSends DEF ConstructPool
<1>2. ASSUME NEW S \in SUBSET Checks, Schedule(S)
      PROVE  ~aborted /\ QueueRests
  BY <1>2 DEF Schedule, Idle, poolVars, QueueRests
<1>3. ASSUME NEW h \in Checks, NEW result \in HealthcheckResult, EndCheck(h, result)
      PROVE  ~aborted /\ Sends(parent_lbpool[parent_lbnode[h]])
  <2> DEFINE n == parent_lbnode[h]
             p == parent_lbpool[n]
  <2>1. n \in Nodes /\ p \in Pools /\ NodeLogic(n) /\ ~aborted
    BY <1>3, LbPoolAssumption, Zenon DEF EndCheck, Idle
  <2>2. (\E kept, forced : PoolLogic(p, n, kept, forced)) \/ PoolLogicUnchanged(p)
    BY <2>1 DEF NodeLogic
  <2> HIDE DEF n, p
  <2>3. PoolLogicUnchanged(p) => Sends(p)
    <3> DEFINE synced == p \in pf_synced
    <3>1. SUFFICES ASSUME PoolLogicUnchanged(p) PROVE Sends(p)
      OBVIOUS
    <3>2. UpdatePfctl(p, synced) /\ UNCHANGED up_nodes /\ synced \in BOOLEAN
      BY <3>1 DEF PoolLogicUnchanged
    <3>3. synced => p \in pf_synced
      OBVIOUS
    <3> HIDE DEF synced
    <3> QED
      BY <2>1, <3>2, <3>3, UpdateSends, ZenonT(60)
  <2>4. Sends(p)
    BY <2>1, <2>2, <2>3, LogicSends, ZenonT(60)
  <2> QED
    BY <2>1, <2>4, ZenonT(60) DEF n, p
<1>4. ASSUME LoadDowntimes \/ SyncLbPools \/ \E n \in Nodes : KeepDowntime(n)
      PROVE  ~aborted /\ QueueRests
  BY <1>4 DEF LoadDowntimes, SyncLbPools, KeepDowntime, NextToReload, Idle, poolVars,
       QueueRests
<1>5. ASSUME NEW n \in Nodes, NEW admin \in ConfiguredAdminState, ChangeDowntime(n, admin)
      PROVE  ~aborted /\ Sends(parent_lbpool[n])
  <2>1. parent_lbpool[n] \in Pools
    BY LbPoolAssumption
  <2> QED
    BY <1>5, <2>1, LogicSends, ZenonT(60) DEF ChangeDowntime, NextToReload
<1>6. ASSUME NEW p \in Pools, UpdateUser(p)
      PROVE  ~aborted /\ (QueueRests \/ Sends(p))
  BY <1>6, LogicSends DEF UpdateUser, poolVars, QueueRests
<1>7. ASSUME NEW p \in Pools, SyncNoHc(p)
      PROVE  ~aborted /\ (QueueRests \/ Sends(p))
  <2>1. /\ ~aborted /\ UNCHANGED up_nodes
        /\ UNCHANGED <<pf_synced, mq>> \/ UpdatePfctl(p, FALSE)
    BY <1>7, Zenon DEF SyncNoHc
  <2>2. UpdatePfctl(p, FALSE) => Sends(p)
    BY <2>1, UpdateSends, ZenonT(60)
  <2> QED
    BY <2>1, <2>2, Zenon DEF QueueRests
<1>8. parent_lbpool \in [Nodes -> Pools] /\ parent_lbnode \in [Checks -> Nodes]
  BY LbPoolAssumption, ZenonT(60)
<1> QED
  BY <1>1, <1>2, <1>3, <1>4, <1>5, <1>6, <1>7, <1>8, ZenonT(60) DEF Main, Event

(* The steps of the whole, as the queue, the worker and the tables see     *)
(* them.                                                                   *)
QuietStep == UNCHANGED <<vars, worker, job, pf_table>>

ProcessEnds ==
  /\ UNCHANGED pf_table
  /\ job' = job \/ job' = NoJob
  /\ \/ UNCHANGED vars /\ worker' # "running"
     \/ Forget

LEMMA QueueSteps ==
  ASSUME [TesttoolNext]_allVars
  PROVE  \/ Main /\ UNCHANGED <<worker, job, pf_table>>
         \/ TakeMessage \/ WorkerStep \/ QuietStep \/ ProcessEnds
<1>1. CASE (\E p \in Pools : Construct(p)) \/ (Event /\ UNCHANGED workerVars)
  BY <1>1, ConstructIsMain, ZenonT(60) DEF Construct, Main, workerVars
<1>2. CASE ClientStep \/ UNCHANGED allVars
  BY <1>2, Zenon DEF ClientStep, Pf!ClientStep, Pf!Connect, Pf!MakeSrcNode, Pf!Disconnect,
       allVars, workerVars, QuietStep
<1>3. CASE MainDies \/ WorkerDies \/ WorkerCheck \/ Restart
  BY <1>3, ZenonT(60) DEF MainDies, WorkerDies, WorkerCheck, Restart, workerVars, ProcessEnds
<1> QED
  BY <1>1, <1>2, <1>3, ZenonT(60) DEF TesttoolNext

LEMMA NoJobIsNone == NoJob \notin Sync!Job
<1>1. Pf!PfMessage = Sync!PfMessage
  BY DEF Pf!PfMessage, Sync!PfMessage, Pf!AdminStates, Sync!AdminStates
<1> QED
  BY <1>1, TesttoolAssumption, ZenonT(60) DEF Pf!Job, Sync!Job

LEMMA TakeMessageStarts ==
  ASSUME TypeOK, TakeMessage
  PROVE  /\ mq \in Seq(Message) /\ mq # <<>> /\ mq' = Tail(mq) /\ Head(mq) = mq[1]
         /\ job = NoJob /\ job' # NoJob /\ job'.msg = Head(mq) /\ ~job'.failed
         /\ UNCHANGED <<pf_table, up_nodes, pf_synced, aborted, worker>>
<1>1. /\ mq \in Seq(Message) /\ mq # <<>> /\ mq' = Tail(mq) /\ Head(mq) = mq[1]
      /\ UNCHANGED <<up_nodes, pf_synced, aborted, worker>>
  BY DEF TakeMessage, Receive, TypeOK, poolVars
<1>2. Sync!Start(Head(mq))
  BY SameSteps DEF TakeMessage
<1>3. Head(mq) \in Sync!PfMessage
  BY <1>1, MessagesFit, SMTT(60)
<1>4. job' \in Sync!Job
  BY <1>2, <1>3, SMTT(60) DEF Sync!Start, Sync!Job
<1> QED
  BY <1>1, <1>2, <1>4, NoJobIsNone, Zenon DEF Sync!Start

LEMMA WorkerStepEffect ==
  ASSUME Sync!PfInv, WorkerStep
  PROVE  /\ job # NoJob /\ UNCHANGED <<vars, worker>>
         /\ job' # NoJob => job'.msg = job.msg
         /\ \A p \in Pools : p # job.msg.pool => pf_table'[p] = pf_table[p]
         /\ ~pf_fails /\ ~job.failed =>
              /\ job' # NoJob => ~job'.failed
              /\ job' = NoJob => pf_table'[job.msg.pool] = Sync!WantSet(job.msg)
              /\ \/ pf_table'[job.msg.pool] \subseteq pf_table[job.msg.pool]
                 \/ pf_table'[job.msg.pool] \subseteq Sync!WantSet(job.msg)
<1>1. Sync!SyncStep /\ UNCHANGED <<vars, worker>>
  BY SameSteps DEF WorkerStep
<1>2. Sync!CallOK /\ Sync!KillOK /\ Sync!TableOK(NoJob)
  BY ZenonT(60) DEF Sync!PfInv
<1>3. /\ job # NoJob
      /\ job' # NoJob => job'.msg = job.msg
      /\ \A p \in Pools : p # job.msg.pool => pf_table'[p] = pf_table[p]
  BY <1>1, <1>2, PfAssumption, Sync!SyncStepEffect, ZenonT(60)
<1>4. ASSUME ~pf_fails, ~job.failed
      PROVE  /\ job' # NoJob => ~job'.failed
             /\ job' = NoJob => pf_table'[job.msg.pool] = Sync!WantSet(job.msg)
             /\ \/ pf_table'[job.msg.pool] \subseteq pf_table[job.msg.pool]
                \/ pf_table'[job.msg.pool] \subseteq Sync!WantSet(job.msg)
  BY <1>1, <1>2, <1>4, PfAssumption, NoJobIsNone, Sync!SyncWithoutFailures, ZenonT(60)
<1> QED
  BY <1>1, <1>3, <1>4, ZenonT(60)

-----------------------------------------------------------------------------
(* How many nodes are wanted and installed.                                *)

(* max_nodes allows a pool to have the nodes S in its table.               *)
FewEnough(p, S) == max_nodes(p) > 0 => Cardinality(S) <= max_nodes(p)

(* Fewer nodes are few enough.                                             *)
FewerFit ==
  \A p \in Pools, T \in SUBSET Nodes : \A S \in SUBSET T : FewEnough(p, T) => FewEnough(p, S)

(* What any pool wants of the nodes of p.                                  *)
WantedFit == \A p, q \in Pools : FewEnough(p, up_nodes[q] \cap nodes(p))

(* A message of the main process.                                          *)
OwnMessage(msg) ==
  /\ msg.pool \in Pools
  /\ msg.up \subseteq nodes(msg.pool)
  /\ FewEnough(msg.pool, msg.up)

(* Without failing commands no table ever holds another pool's nodes or    *)
(* more than max_nodes, not even in the middle of a sync.                  *)
TablesFit ==
  ~pf_fails =>
    /\ \A i \in 1 .. Len(mq) : OwnMessage(mq[i])
    /\ job # NoJob => OwnMessage(job.msg) /\ ~job.failed
    /\ \A p \in Pools : pf_table[p] \subseteq nodes(p) /\ FewEnough(p, pf_table[p])

LEMMA SentAreOwn ==
  ASSUME TypeOK, WantedFit', NEW p \in Pools
  PROVE  OwnMessage(MessageFor(p)') /\ MessageFor(p)'.pool = p
<1>1. /\ MessageFor(p)'.pool = p
      /\ MessageFor(p)'.up = up_nodes'[p] \cap nodes(p)
  BY ZenonT(60) DEF MessageFor
<1>2. FewEnough(p, up_nodes'[p] \cap nodes(p))
  BY ZenonT(60) DEF WantedFit, FewEnough, nodes, max_nodes, min_nodes, has_hcs
<1> QED
  BY <1>1, <1>2, ZenonT(60) DEF OwnMessage

(* Each place that nodes pass on their way keeps within max_nodes.         *)
LEMMA NextTablesFit ==
  ASSUME TypeOK, FewerFit, Sync!PfInv, WantedFit', TablesFit, [TesttoolNext]_allVars
  PROVE  TablesFit'
<1> SUFFICES ASSUME ~pf_fails
             PROVE  /\ \A i \in 1 .. Len(mq') : OwnMessage(mq'[i])
                    /\ job' # NoJob => OwnMessage(job'.msg) /\ ~job'.failed
                    /\ \A p \in Pools : pf_table'[p] \subseteq nodes(p) /\ FewEnough(p, pf_table'[p])
  <2>1. \A msg : OwnMessage(msg)' <=> OwnMessage(msg)
    BY ZenonT(60) DEF OwnMessage, FewEnough, nodes, max_nodes, min_nodes, has_hcs
  <2> QED
    BY ZenonT(60) DEF TablesFit, OwnMessage, FewEnough, nodes, max_nodes, min_nodes, has_hcs
<1>0. /\ TypeOK /\ mq \in Seq(Message)
      /\ \A i \in 1 .. Len(mq) : OwnMessage(mq[i])
      /\ job # NoJob => OwnMessage(job.msg) /\ ~job.failed
      /\ \A p \in Pools : pf_table[p] \subseteq nodes(p) /\ FewEnough(p, pf_table[p])
  BY ZenonT(60) DEF TypeOK, TablesFit
<1> HIDE DEF TablesFit
<1>1. CASE Main /\ UNCHANGED <<worker, job, pf_table>>
  <2>1. CASE mq' = mq
    BY <1>0, <1>1, <2>1, ZenonT(60)
  <2>2. ASSUME NEW p \in Pools, mq' = Append(mq, MessageFor(p)')
        PROVE  \A i \in 1 .. Len(mq') : OwnMessage(mq'[i])
    <3> DEFINE m == MessageFor(p)'
    <3>1. OwnMessage(m)
      BY <1>0, SentAreOwn, ZenonT(60)
    <3>2. mq' = Append(mq, m)
      BY <2>2, ZenonT(60)
    <3> HIDE DEF m
    <3>3. Len(mq') = Len(mq) + 1
      BY <1>0, <3>2, SMTT(60)
    <3>4. \A i \in 1 .. Len(mq') : mq'[i] = IF i = Len(mq) + 1 THEN m ELSE mq[i]
      BY <1>0, <3>2, SMTT(60)
    <3> QED
      BY <1>0, <3>1, <3>3, <3>4, SMTT(60)
  <2>3. mq' = mq \/ \E p \in Pools : mq' = Append(mq, MessageFor(p)')
    BY <1>0, <1>1, MainSends, ZenonT(60) DEF QueueRests, Sends
  <2> QED
    BY <1>0, <1>1, <2>1, <2>2, <2>3, ZenonT(60)
<1>2. CASE TakeMessage
  <2>1. /\ mq # <<>> /\ mq' = Tail(mq) /\ Head(mq) = mq[1]
        /\ job'.msg = Head(mq) /\ ~job'.failed /\ pf_table' = pf_table
    BY <1>0, <1>2, TakeMessageStarts, ZenonT(60)
  <2>2. 1 \in 1 .. Len(mq)
    BY <1>0, <2>1, SMTT(60)
  <2>3. \A i \in 1 .. Len(mq') : i + 1 \in 1 .. Len(mq) /\ mq'[i] = mq[i + 1]
    BY <1>0, <2>1, SMTT(60)
  <2> QED
    BY <1>0, <2>1, <2>2, <2>3, ZenonT(60)
<1>3. CASE WorkerStep
  <2>1. /\ job # NoJob /\ UNCHANGED vars
        /\ job' # NoJob => job'.msg = job.msg /\ ~job'.failed
        /\ \A p \in Pools : p # job.msg.pool => pf_table'[p] = pf_table[p]
        /\ \/ pf_table'[job.msg.pool] \subseteq pf_table[job.msg.pool]
           \/ pf_table'[job.msg.pool] \subseteq Sync!WantSet(job.msg)
    BY <1>0, <1>3, WorkerStepEffect, ZenonT(60)
  <2>2. mq' = mq
    BY <2>1, ZenonT(60) DEF vars
  <2>3. OwnMessage(job.msg) /\ job.msg.pool \in Pools
    BY <1>0, <2>1, ZenonT(60) DEF OwnMessage
  <2>4. ASSUME NEW p \in Pools, p = job.msg.pool
        PROVE  pf_table'[p] \subseteq nodes(p) /\ FewEnough(p, pf_table'[p])
    <3>1. PICK T \in {pf_table[p], job.msg.up} : pf_table'[p] \subseteq T
      BY <2>1, <2>4, ZenonT(60) DEF Sync!WantSet
    <3>2. T \subseteq nodes(p) /\ FewEnough(p, T)
      BY <1>0, <2>3, <2>4, ZenonT(60) DEF OwnMessage
    <3>3. T \in SUBSET Nodes /\ pf_table'[p] \in SUBSET T
      BY <3>1, <3>2, ZenonT(60) DEF nodes
    <3> QED
      BY <2>4, <3>2, <3>3, ZenonT(60) DEF FewerFit
  <2> QED
    BY <1>0, <2>1, <2>2, <2>3, <2>4, ZenonT(60)
<1>4. CASE QuietStep
  BY <1>0, <1>4, ZenonT(60) DEF QuietStep, vars
<1>5. CASE ProcessEnds
  <2>1. mq' = mq \/ mq' = <<>>
    BY <1>5 DEF ProcessEnds, Forget, vars
  <2>2. pf_table' = pf_table /\ (job' = job \/ job' = NoJob)
    BY <1>5 DEF ProcessEnds
  <2> QED
    BY <1>0, <2>1, <2>2, SMTT(60)
<1> QED
  BY <1>1, <1>2, <1>3, <1>4, <1>5, QueueSteps, ZenonT(60)

-----------------------------------------------------------------------------
(* What becomes of the messages.                                           *)

(* Outcome with the state as arguments: the messages s wait, the worker is *)
(* at j, and its pool's table is t.                                        *)
OutcomeOf(s, j, t, p) ==
  LET sent == {i \in 1 .. Len(s) : s[i].pool = p}
      last == CHOOSE i \in sent : \A k \in sent : k <= i
  IN  IF sent # {} THEN Sync!WantSet(s[last])
      ELSE IF j # NoJob /\ j.msg.pool = p THEN Sync!WantSet(j.msg)
      ELSE t

(* The message of p at i is the last one in s.                             *)
IsLast(s, p, i) ==
  /\ i \in 1 .. Len(s) /\ s[i].pool = p
  /\ \A k \in 1 .. Len(s) : s[k].pool = p => k <= i

(* A set of numbers that is not empty has a least one.                     *)
LEMMA LeastPlace ==
  ASSUME NEW S \in SUBSET Nat, S # {}
  PROVE  \E x \in S : \A y \in S : x <= y
<1>1. PICK x \in S : \A y \in S : ~(<<y, x>> \in OpToRel(<, Nat))
  BY NatLessThanWellFounded, WFMin
<1>2. \A y \in S : ~(y < x)
  BY <1>1, Zenon DEF OpToRel
<1> QED
  BY <1>2

LEMMA LastExists ==
  ASSUME NEW s \in Seq(Message), NEW p
  PROVE  (\A k \in 1 .. Len(s) : s[k].pool # p) \/ \E i : IsLast(s, p, i)
<1> SUFFICES ASSUME NEW k \in 1 .. Len(s), s[k].pool = p
             PROVE  \E i : IsLast(s, p, i)
  OBVIOUS
<1> DEFINE Left == {l \in Nat : l < Len(s) /\ s[Len(s) - l].pool = p}
<1>1. Len(s) \in Nat
  OBVIOUS
<1>2. Len(s) - k \in Left
  BY <1>1
<1>3. PICK l \in Left : \A m \in Left : l <= m
  BY <1>2, LeastPlace, Zenon
<1>4. Len(s) - l \in 1 .. Len(s) /\ s[Len(s) - l].pool = p
  BY <1>1, <1>3, SMTT(60)
<1>5. ASSUME NEW i \in 1 .. Len(s), s[i].pool = p
      PROVE  i <= Len(s) - l
  <2>1. Len(s) - i \in Left
    BY <1>1, <1>5, SMTT(60)
  <2> QED
    BY <1>1, <1>3, <2>1, SMTT(60)
<1> QED
  BY <1>4, <1>5, Zenon DEF IsLast

LEMMA LastDecides ==
  ASSUME NEW s \in Seq(Message), NEW j, NEW t, NEW p, NEW i, IsLast(s, p, i)
  PROVE  OutcomeOf(s, j, t, p) = Sync!WantSet(s[i])
<1> DEFINE sent == {k \in 1 .. Len(s) : s[k].pool = p}
           last == CHOOSE k \in sent : \A l \in sent : l <= k
<1>1. i \in sent /\ \A k \in sent : k <= i
  BY DEF IsLast
<1>2. last \in sent /\ \A k \in sent : k <= last
  BY <1>1, ZenonT(60)
<1>3. i \in Int /\ last \in Int /\ i <= last /\ last <= i
  BY <1>1, <1>2, SMTT(60)
<1>4. last = i /\ sent # {}
  BY <1>1, <1>3, SMTT(60)
<1> HIDE DEF last
<1> QED
  BY <1>4, Zenon DEF OutcomeOf, last

LEMMA NoneSent ==
  ASSUME NEW s \in Seq(Message), NEW j, NEW t, NEW p,
         \A k \in 1 .. Len(s) : s[k].pool # p
  PROVE  OutcomeOf(s, j, t, p) =
           IF j # NoJob /\ j.msg.pool = p THEN Sync!WantSet(j.msg) ELSE t
<1>1. {i \in 1 .. Len(s) : s[i].pool = p} = {}
  OBVIOUS
<1> QED
  BY <1>1, ZenonT(60) DEF OutcomeOf

(* A message joins the queue.                                              *)
LEMMA AppendDecides ==
  ASSUME NEW s \in Seq(Message), NEW m \in Message, NEW j, NEW t, NEW p
  PROVE  OutcomeOf(Append(s, m), j, t, p) =
           IF m.pool = p THEN Sync!WantSet(m) ELSE OutcomeOf(s, j, t, p)
<1> DEFINE a == Append(s, m)
<1>1. /\ a \in Seq(Message) /\ Len(a) = Len(s) + 1 /\ Len(s) \in Nat
      /\ a[Len(s) + 1] = m /\ \A i \in 1 .. Len(s) : a[i] = s[i]
  BY SMTT(60)
<1> HIDE DEF a
<1>2. CASE m.pool = p
  <2>1. IsLast(a, p, Len(s) + 1)
    BY <1>1, <1>2, SMTT(60) DEF IsLast
  <2>2. OutcomeOf(a, j, t, p) = Sync!WantSet(a[Len(s) + 1])
    BY <1>1, <2>1, LastDecides, SMTT(60)
  <2> QED
    BY <1>1, <1>2, <2>2, ZenonT(60) DEF a
<1>3. CASE m.pool # p
  <2>1. ASSUME NEW i, IsLast(s, p, i)
        PROVE  OutcomeOf(a, j, t, p) = OutcomeOf(s, j, t, p)
    <3>1. IsLast(a, p, i) /\ a[i] = s[i]
      <4>1. i \in 1 .. Len(s) /\ i \in 1 .. Len(a) /\ a[i] = s[i] /\ s[i].pool = p
        BY <1>1, <2>1, SMTT(60) DEF IsLast
      <4>2. ASSUME NEW k \in 1 .. Len(a), a[k].pool = p
            PROVE  k <= i
        <5>1. k \in 1 .. Len(s) /\ s[k].pool = p
          BY <1>1, <1>3, <4>2, SMTT(60)
        <5> QED
          BY <2>1, <5>1, ZenonT(60) DEF IsLast
      <4> QED
        BY <4>1, <4>2, ZenonT(60) DEF IsLast
    <3> QED
      BY <1>1, <2>1, <3>1, LastDecides, SMTT(60)
  <2>2. ASSUME \A k \in 1 .. Len(s) : s[k].pool # p
        PROVE  OutcomeOf(a, j, t, p) = OutcomeOf(s, j, t, p)
    <3>1. \A k \in 1 .. Len(a) : a[k].pool # p
      BY <1>1, <1>3, <2>2, SMTT(60)
    <3> QED
      BY <1>1, <2>2, <3>1, NoneSent, SMTT(60)
  <2> QED
    BY <1>3, <2>1, <2>2, LastExists, Zenon DEF a
<1> QED
  BY <1>2, <1>3, ZenonT(60)

(* The worker takes one.                                                   *)
LEMMA TakeKeepsOutcome ==
  ASSUME NEW s \in Seq(Message), s # <<>>, NEW j, j # NoJob, j.msg = Head(s), NEW t, NEW p
  PROVE  OutcomeOf(Tail(s), j, t, p) = OutcomeOf(s, NoJob, t, p)
<1> DEFINE a == Tail(s)
<1>1. /\ a \in Seq(Message) /\ Len(s) \in Nat \ {0} /\ Len(a) = Len(s) - 1
      /\ Head(s) = s[1] /\ \A i \in 1 .. Len(a) : a[i] = s[i + 1]
  BY SMTT(60)
<1> HIDE DEF a
<1>2. ASSUME NEW i, IsLast(a, p, i)
      PROVE  OutcomeOf(a, j, t, p) = OutcomeOf(s, NoJob, t, p)
  <2>1. i \in 1 .. Len(a) /\ a[i] = s[i + 1] /\ s[i + 1].pool = p /\ i + 1 \in 1 .. Len(s)
    BY <1>1, <1>2, SMTT(60) DEF IsLast
  <2>2. ASSUME NEW k \in 1 .. Len(s), s[k].pool = p
        PROVE  k <= i + 1
    <3>1. CASE k = 1
      BY <2>1, <3>1, SMTT(60)
    <3>2. CASE k # 1
      <4>1. k - 1 \in 1 .. Len(a) /\ (k - 1) + 1 = k
        BY <1>1, <3>2, SMTT(60)
      <4>2. a[k - 1].pool = p
        BY <1>1, <2>2, <4>1, ZenonT(60)
      <4>3. k - 1 <= i
        BY <1>2, <4>1, <4>2, ZenonT(60) DEF IsLast
      <4> QED
        BY <2>1, <4>3, SMTT(60)
    <3> QED
      BY <3>1, <3>2, ZenonT(60)
  <2>3. IsLast(s, p, i + 1)
    BY <2>1, <2>2, ZenonT(60) DEF IsLast
  <2> QED
    BY <1>1, <1>2, <2>1, <2>3, LastDecides, SMTT(60)
<1>3. ASSUME \A k \in 1 .. Len(a) : a[k].pool # p
      PROVE  OutcomeOf(a, j, t, p) = OutcomeOf(s, NoJob, t, p)
  <2>1. ASSUME NEW k \in 1 .. Len(s), k # 1 PROVE s[k].pool # p
    <3>1. k - 1 \in 1 .. Len(a) /\ (k - 1) + 1 = k
      BY <1>1, <2>1, SMTT(60)
    <3> QED
      BY <1>1, <1>3, <3>1, Zenon
  <2>2. 1 \in 1 .. Len(s)
    BY <1>1, SMTT(60)
  <2>3. CASE s[1].pool = p
    <3>1. IsLast(s, p, 1)
      BY <2>1, <2>2, <2>3, SMTT(60) DEF IsLast
    <3>2. OutcomeOf(s, NoJob, t, p) = Sync!WantSet(s[1])
      BY <3>1, LastDecides, ZenonT(60)
    <3> QED
      BY <1>1, <1>3, <2>3, <3>2, NoneSent, SMTT(60)
  <2>4. CASE s[1].pool # p
    <3>1. \A k \in 1 .. Len(s) : s[k].pool # p
      BY <2>1, <2>4, ZenonT(60)
    <3> QED
      BY <1>1, <1>3, <2>4, <3>1, NoneSent, SMTT(60)
  <2> QED
    BY <2>3, <2>4
<1> QED
  BY <1>1, <1>2, <1>3, LastExists, Zenon DEF a

(* A command of the worker.                                                *)
LEMMA SyncKeepsOutcome ==
  ASSUME NEW s \in Seq(Message), NEW p, NEW j, j # NoJob, NEW j2, NEW t, NEW t2,
         j2 # NoJob => j2.msg = j.msg,
         p # j.msg.pool => t2 = t,
         p = j.msg.pool /\ j2 = NoJob => t2 = Sync!WantSet(j.msg)
  PROVE  OutcomeOf(s, j2, t2, p) = OutcomeOf(s, j, t, p)
<1>1. ASSUME NEW i, IsLast(s, p, i)
      PROVE  OutcomeOf(s, j2, t2, p) = OutcomeOf(s, j, t, p)
  BY <1>1, LastDecides, SMTT(60)
<1>2. ASSUME \A k \in 1 .. Len(s) : s[k].pool # p
      PROVE  OutcomeOf(s, j2, t2, p) = OutcomeOf(s, j, t, p)
  BY <1>2, NoneSent, SMTT(60)
<1> QED
  BY <1>1, <1>2, LastExists, Zenon

(* What the messages sent by this step have to ask for.                    *)
MessagesWant ==
  \A p \in Pools : Sync!WantSet(MessageFor(p)') = up_nodes'[p] \cap nodes(p)

LEMMA MessageTyped ==
  ASSUME TypeOK', NEW p \in Pools
  PROVE  MessageFor(p)'.pool = p /\ MessageFor(p)' \in Message
<1>1. up_nodes'[p] \cap nodes(p) \in SUBSET nodes(p)
  OBVIOUS
<1>2. [n \in nodes(p) |-> admin_state'[n]] \in [nodes(p) -> LbNodeAdminState]
  BY ZenonT(60) DEF TypeOK, nodes
<1> QED
  BY <1>1, <1>2, SMTT(60) DEF MessageFor, Message, nodes

(* The newest message of p in s, if there is one, asks for want.           *)
NewestAsks(s, p, want) ==
  \A i \in 1 .. Len(s) :
    s[i].pool = p /\ (\A j \in i + 1 .. Len(s) : s[j].pool # p) => s[i].up = want

LEMMA AppendAsks ==
  ASSUME NEW s \in Seq(Message), NEW m \in Message, NEW p, NEW want,
         IF m.pool = p THEN m.up = want ELSE NewestAsks(s, p, want)
  PROVE  NewestAsks(Append(s, m), p, want)
<1> DEFINE a == Append(s, m)
<1>1. /\ Len(a) = Len(s) + 1 /\ Len(s) \in Nat
      /\ a[Len(s) + 1] = m /\ \A i \in 1 .. Len(s) : a[i] = s[i]
  BY SMTT(60)
<1> HIDE DEF a
<1>2. SUFFICES ASSUME NEW i \in 1 .. Len(a), a[i].pool = p,
                      \A j \in i + 1 .. Len(a) : a[j].pool # p
               PROVE  a[i].up = want
  BY ZenonT(60) DEF NewestAsks, a
<1>3. CASE i = Len(s) + 1
  BY <1>1, <1>2, <1>3, ZenonT(60)
<1>4. CASE i # Len(s) + 1
  <2>1. i \in 1 .. Len(s) /\ Len(a) \in i + 1 .. Len(a) /\ s[i].pool = p
    BY <1>1, <1>2, <1>4, SMTT(60)
  <2>2. m.pool # p
    BY <1>1, <1>2, <2>1, SMTT(60)
  <2>3. \A j \in i + 1 .. Len(s) : s[j].pool # p
    BY <1>1, <1>2, <2>1, SMTT(60)
  <2>4. s[i].up = want
    BY <2>1, <2>2, <2>3, ZenonT(60) DEF NewestAsks
  <2> QED
    BY <1>1, <2>1, <2>4, ZenonT(60)
<1> QED
  BY <1>3, <1>4, ZenonT(60)

LEMMA TailAsks ==
  ASSUME NEW s \in Seq(Message), s # <<>>, NEW p, NEW want, NewestAsks(s, p, want)
  PROVE  NewestAsks(Tail(s), p, want)
<1> DEFINE t == Tail(s)
<1>1. /\ Len(s) = Len(t) + 1 /\ Len(t) \in Nat
      /\ \A i \in 1 .. Len(t) : t[i] = s[i + 1]
  BY SMTT(60)
<1> HIDE DEF t
<1>2. SUFFICES ASSUME NEW i \in 1 .. Len(t), t[i].pool = p,
                      \A j \in i + 1 .. Len(t) : t[j].pool # p
               PROVE  t[i].up = want
  BY ZenonT(60) DEF NewestAsks, t
<1>3. i + 1 \in 1 .. Len(s) /\ t[i] = s[i + 1]
  BY <1>1, SMTT(60)
<1>4. ASSUME NEW j \in (i + 1) + 1 .. Len(s)
      PROVE  s[j].pool # p
  <2>1. j - 1 \in i + 1 .. Len(t) /\ j - 1 \in 1 .. Len(t) /\ (j - 1) + 1 = j
    BY <1>1, SMTT(60)
  <2> QED
    BY <1>1, <1>2, <2>1, ZenonT(60)
<1> QED
  BY <1>2, <1>3, <1>4, ZenonT(60) DEF NewestAsks

LEMMA TellsLatest ==
  /\ QueueTellsLatest <=>
       \A p \in pf_synced : NewestAsks(mq, p, up_nodes[p] \cap nodes(p))
  /\ QueueTellsLatest' <=>
       \A p \in pf_synced' : NewestAsks(mq', p, up_nodes'[p] \cap nodes(p))
  BY ZenonT(60) DEF QueueTellsLatest, NewestAsks, nodes

(* A pool that wants other nodes than its newest message asks for is not   *)
(* synced, whatever it has queued.                                         *)
LEMMA NextTellsLatest ==
  ASSUME TypeOK, TypeOK', QueueTellsLatest, [Next]_vars
  PROVE  QueueTellsLatest'
<1> SUFFICES ASSUME NEW p \in pf_synced'
             PROVE  NewestAsks(mq', p, up_nodes'[p] \cap nodes(p))
  BY TellsLatest, ZenonT(60)
<1>0. mq \in Seq(Message) /\ p \in Pools
  BY ZenonT(60) DEF TypeOK
<1>1. p \in pf_synced => NewestAsks(mq, p, up_nodes[p] \cap nodes(p))
  BY TellsLatest, ZenonT(60)
<1> HIDE DEF QueueTellsLatest
<1>2. CASE QueueRests
  BY <1>1, <1>2, ZenonT(60) DEF QueueRests
<1>3. ASSUME NEW q \in Pools, Sends(q)
      PROVE  NewestAsks(mq', p, up_nodes'[p] \cap nodes(p))
  <2> DEFINE m == MessageFor(q)'
  <2>1. CASE /\ mq' = mq
             /\ q \in pf_synced' => q \in pf_synced /\ up_nodes'[q] = up_nodes[q]
    <3>1. p \in pf_synced /\ up_nodes'[p] = up_nodes[p]
      BY <1>0, <1>3, <2>1, ZenonT(60) DEF Sends
    <3> QED
      BY <1>1, <2>1, <3>1, ZenonT(60)
  <2>2. CASE mq' = Append(mq, m)
    <3>1. m.pool = q /\ m \in Message
      BY MessageTyped, Zenon DEF m
    <3>2. m.up = up_nodes'[q] \cap nodes(q)
      BY ZenonT(60) DEF MessageFor
    <3> HIDE DEF m
    <3>3. p # q => p \in pf_synced /\ up_nodes'[p] = up_nodes[p]
      BY <1>0, <1>3, ZenonT(60) DEF Sends
    <3>4. IF m.pool = p THEN m.up = up_nodes'[p] \cap nodes(p)
          ELSE NewestAsks(mq, p, up_nodes'[p] \cap nodes(p))
      BY <1>1, <3>1, <3>2, <3>3, ZenonT(60)
    <3> QED
      BY <1>0, <2>2, <3>1, <3>4, AppendAsks, ZenonT(60)
  <2> QED
    BY <1>3, <2>1, <2>2, ZenonT(60) DEF Sends
<1>4. CASE Receive
  <2>1. mq # <<>> /\ mq' = Tail(mq) /\ UNCHANGED <<up_nodes, pf_synced>>
    BY <1>4, ZenonT(60) DEF Receive, poolVars
  <2> QED
    BY <1>0, <1>1, <2>1, TailAsks, ZenonT(60)
<1>5. CASE Main
  BY <1>2, <1>3, <1>5, MainSends, ZenonT(60)
<1>6. CASE UNCHANGED vars
  BY <1>2, <1>6, ZenonT(60) DEF vars, poolVars, QueueRests
<1> QED
  BY <1>4, <1>5, <1>6, ZenonT(60) DEF Next

LEMMA OutcomeIs ==
  \A p : /\ Outcome(p) = OutcomeOf(mq, job, pf_table[p], p)
         /\ Outcome(p)' = OutcomeOf(mq', job', pf_table'[p], p)
  BY ZenonT(60) DEF Outcome, OutcomeOf, Pf!WantSet, Sync!WantSet

LEMMA NextSynced ==
  ASSUME TypeOK, TypeOK', Sync!PfInv, TablesFit, MessagesWant,
         SyncedMeansUnderWay, [TesttoolNext]_allVars
  PROVE  SyncedMeansUnderWay'
<1> SUFFICES ASSUME ~pf_fails, ~aborted', worker' = "running", NEW p \in pf_synced'
             PROVE  OutcomeOf(mq', job', pf_table'[p], p) = up_nodes'[p] \cap nodes(p)
  BY OutcomeIs, ZenonT(60) DEF SyncedMeansUnderWay, nodes
<1>0. TypeOK /\ mq \in Seq(Message) /\ p \in Pools
  BY ZenonT(60) DEF TypeOK
<1>1. ASSUME ~aborted, worker = "running", p \in pf_synced
      PROVE  OutcomeOf(mq, job, pf_table[p], p) = up_nodes[p] \cap nodes(p)
  BY <1>1, OutcomeIs, ZenonT(60) DEF SyncedMeansUnderWay
<1> HIDE DEF SyncedMeansUnderWay
<1>2. CASE Main /\ UNCHANGED <<worker, job, pf_table>>
  <2>1. ~aborted /\ worker = "running" /\ (QueueRests \/ \E q \in Pools : Sends(q))
    BY <1>0, <1>2, MainSends, ZenonT(60)
  <2>2. CASE mq' = mq /\ p \in pf_synced /\ up_nodes'[p] = up_nodes[p]
    BY <1>1, <1>2, <2>1, <2>2, ZenonT(60)
  <2>3. CASE QueueRests
    BY <2>2, <2>3, ZenonT(60) DEF QueueRests
  <2>4. ASSUME NEW q \in Pools, Sends(q)
        PROVE  OutcomeOf(mq', job', pf_table'[p], p) = up_nodes'[p] \cap nodes(p)
    <3> DEFINE m == MessageFor(q)'
    <3>1. CASE mq' = mq
      BY <1>0, <2>2, <2>4, <3>1, SMTT(60) DEF Sends
    <3>2. CASE mq' = Append(mq, m)
      <4>1. m.pool = q /\ m \in Message
        BY MessageTyped, Zenon DEF m
      <4>2. Sync!WantSet(m) = up_nodes'[q] \cap nodes(q)
        BY ZenonT(60) DEF MessagesWant
      <4> HIDE DEF m
      <4>3. OutcomeOf(mq', job, pf_table[p], p) =
              IF m.pool = p THEN Sync!WantSet(m) ELSE OutcomeOf(mq, job, pf_table[p], p)
        BY <1>0, <3>2, <4>1, AppendDecides, SMTT(60)
      <4>4. p # q => p \in pf_synced /\ up_nodes'[p] = up_nodes[p]
        BY <1>0, <2>4, ZenonT(60) DEF Sends
      <4> QED
        BY <1>1, <1>2, <2>1, <4>1, <4>2, <4>3, <4>4, ZenonT(60)
    <3> QED
      BY <2>4, <2>2, <3>1, <3>2, ZenonT(60) DEF Sends
  <2> QED
    BY <2>1, <2>3, <2>4, ZenonT(60)
<1>3. CASE TakeMessage
  <2>1. /\ mq # <<>> /\ mq' = Tail(mq) /\ job = NoJob /\ job' # NoJob /\ job'.msg = Head(mq)
        /\ UNCHANGED <<pf_table, up_nodes, pf_synced, aborted, worker>>
    BY <1>0, <1>3, TakeMessageStarts, ZenonT(60)
  <2>2. OutcomeOf(mq', job', pf_table[p], p) = OutcomeOf(mq, job, pf_table[p], p)
    BY <1>0, <2>1, TakeKeepsOutcome, SMTT(60)
  <2> QED
    BY <1>1, <2>1, <2>2, ZenonT(60)
<1>4. CASE WorkerStep
  <2>0. Sync!PfInv /\ (job # NoJob => ~job.failed)
    BY ZenonT(60) DEF TablesFit
  <2>1. /\ job # NoJob /\ UNCHANGED <<vars, worker>>
        /\ job' # NoJob => job'.msg = job.msg
        /\ p # job.msg.pool => pf_table'[p] = pf_table[p]
        /\ p = job.msg.pool /\ job' = NoJob => pf_table'[p] = Sync!WantSet(job.msg)
    BY <1>0, <1>4, <2>0, WorkerStepEffect, ZenonT(60)
  <2>2. UNCHANGED <<mq, up_nodes, pf_synced, aborted, worker>>
    BY <2>1, ZenonT(60) DEF vars, poolVars
  <2>3. OutcomeOf(mq, job', pf_table'[p], p) = OutcomeOf(mq, job, pf_table[p], p)
    BY <1>0, <2>1, SyncKeepsOutcome, SMTT(60)
  <2> QED
    BY <1>1, <2>2, <2>3, ZenonT(60)
<1>5. CASE QuietStep
  <2>1. UNCHANGED <<mq, up_nodes, pf_synced, aborted, worker, job, pf_table>>
    BY <1>5 DEF QuietStep, vars, poolVars
  <2> QED
    BY <1>1, <2>1, Zenon
<1>6. CASE ProcessEnds
  BY <1>6 DEF ProcessEnds, Forget
<1> QED
  BY <1>2, <1>3, <1>4, <1>5, <1>6, QueueSteps, ZenonT(60)
=============================================================================
