--------------------------- MODULE TesttoolProofs ---------------------------
(***************************************************************************)
(* Proofs about module Testtool: what is proved of the main process and of *)
(* pf_sync_table() on their own stays true when they work together and die *)
(* at any point, nothing is lost between them, and a restart keeps traffic.*)
(***************************************************************************)
EXTENDS TesttoolLemmas, LbPoolWantedProofs

-----------------------------------------------------------------------------
(* The main process.                                                       *)

(* The inductive invariant of the main process, its parts proved in        *)
(* LbPoolProofs and LbPoolWantedProofs for a process that never dies.      *)
MainInv ==
  /\ TypeOK
  /\ AdminFollowsConfig /\ UpMeansAllChecksUp /\ StatePublished
  /\ OwnNodesEnabled /\ InStepOrInCalls
  /\ PoolsServeTheirNodes /\ BackupOnlyWhenShort /\ KeptInv
  /\ QueueTellsLatest

(* A new process satisfies it.                                             *)
LEMMA ForgetInv ==
  ASSUME Forget, aborted' \in BOOLEAN
  PROVE  MainInv'
<1>1. TypeOK'
  <2>1. HealthcheckTypeOK'
    BY HealthcheckAssumption, SMTT(60) DEF Forget, HealthcheckTypeOK, HealthcheckState
  <2>2. "STATE_ENABLED" \in ConfiguredAdminState
    BY LbPoolAssumption, SMTT(60) DEF ConfiguredAdminState, admin_state_from_config
  <2> QED
    BY <2>1, <2>2, LbPoolAssumption, SMTT(60) DEF Forget, TypeOK, LbNodeState, LbNodeAdminState
<1>2. AdminFollowsConfig' /\ StatePublished'
  BY ZenonT(60) DEF Forget, AdminFollowsConfig, StatePublished
<1>3. UpMeansAllChecksUp'
  BY LbPoolAssumption, ZenonT(60) DEF Forget, UpMeansAllChecksUp, IsUp, IsEnabled
<1>4. OwnNodesEnabled' /\ InStepOrInCalls'
  BY ZenonT(60) DEF Forget, OwnNodesEnabled, InStepOrInCalls
<1>5. PoolsServeTheirNodes' /\ BackupOnlyWhenShort' /\ QueueTellsLatest'
  BY ZenonT(60) DEF Forget, PoolsServeTheirNodes, BackupOnlyWhenShort, QueueTellsLatest
<1>6. KeptInv'
  <2>1. \A p \in Pools : UpNodes(p)' = {}
    BY ZenonT(60) DEF Forget, UpNodes, IsUp, IsEnabled, nodes
  <2>2. /\ max_nodes_kept' = {} /\ reload' = {} /\ created' = {} /\ backup_pool_active' = {}
        /\ up_nodes' = [p \in Pools |-> {}]
    BY ZenonT(60) DEF Forget
  <2>3. \A p \in Pools : Cardinality(max_nodes_kept' \cap nodes(p)) = 0 /\ max_nodes(p) \in Nat
    BY <2>2, FS_EmptySet, PoolNumbers, ZenonT(60)
  <2> QED
    BY <2>1, <2>2, <2>3, SMTT(60) DEF KeptInv, ReloadAfterStart
<1> QED
  BY <1>1, <1>2, <1>3, <1>4, <1>5, <1>6, ZenonT(60) DEF MainInv

LEMMA NextMainInv == MainInv /\ [TesttoolNext]_allVars => MainInv'
<1> SUFFICES ASSUME MainInv, [TesttoolNext]_allVars
             PROVE  MainInv'
  BY ZenonT(60)
<1>1. CASE [Next]_vars
  BY <1>1, NextType, NextAdmin, NextUp, NextPublished, NextOwnNodes, NextInStep,
     NextServes, NextNeeded, NextKept, NextTellsLatest, ZenonT(60) DEF MainInv
<1>2. CASE Forget /\ aborted' \in BOOLEAN
  BY <1>2, ForgetInv, ZenonT(60)
<1> QED
  BY <1>1, <1>2, MainStep, ZenonT(60)

LEMMA InitMainInv == TesttoolInit => MainInv
<1> SUFFICES ASSUME TesttoolInit PROVE MainInv
  OBVIOUS
<1>1. Init
  BY DEF TesttoolInit
<1>2. TypeOK
  BY <1>1, InitType, ZenonT(60)
<1>3. AdminFollowsConfig /\ StatePublished /\ OwnNodesEnabled /\ InStepOrInCalls
  BY <1>1, ZenonT(60) DEF Init, AdminFollowsConfig, StatePublished, OwnNodesEnabled, InStepOrInCalls
<1>4. UpMeansAllChecksUp
  BY <1>1, LbPoolAssumption, ZenonT(60) DEF Init, UpMeansAllChecksUp, IsUp, IsEnabled
<1>5. PoolsServeTheirNodes /\ BackupOnlyWhenShort /\ QueueTellsLatest
  BY <1>1, ZenonT(60) DEF Init, PoolsServeTheirNodes, BackupOnlyWhenShort, QueueTellsLatest
<1>6. KeptInv
  <2>1. \A p \in Pools : UpNodes(p) = {}
    BY <1>1, ZenonT(60) DEF Init, UpNodes, IsUp, IsEnabled, nodes
  <2>2. \A p \in Pools : Cardinality(max_nodes_kept \cap nodes(p)) = 0 /\ max_nodes(p) \in Nat
    BY <1>1, FS_EmptySet, PoolNumbers, ZenonT(60) DEF Init
  <2> QED
    BY <1>1, <2>1, <2>2, SMTT(60) DEF Init, KeptInv, ReloadAfterStart
<1> QED
  BY <1>2, <1>3, <1>4, <1>5, <1>6, ZenonT(60) DEF MainInv

(* The queue never asks for less or more than a synced pool wants, however *)
(* many messages of how many pools a callback sends and a queue of any     *)
(* length refuses.                                                         *)
THEOREM QueueIsLatest == Spec => []QueueTellsLatest
<1>1. Init => QueueTellsLatest
  BY ZenonT(60) DEF Init, QueueTellsLatest
<1>2. TypeOK /\ TypeOK' /\ QueueTellsLatest /\ [Next]_vars => QueueTellsLatest'
  BY NextTellsLatest, ZenonT(60)
<1> QED
  BY <1>1, <1>2, TypeCorrect, PTL DEF Spec

(* Crashes and restarts at any point, and what pf's tables make the new    *)
(* process start from, break none of the invariants of the main process.   *)
THEOREM MainSurvivesCrashes ==
  TesttoolSpec => [](/\ TypeOK /\ AdminFollowsConfig /\ UpMeansAllChecksUp
                     /\ StatePublished /\ BackupsInStep
                     /\ PoolsServeTheirNodes /\ BackupOnlyWhenShort
                     /\ QueueTellsLatest)
<1>1. TesttoolSpec => []MainInv
  BY InitMainInv, NextMainInv, PTL DEF TesttoolSpec
<1>2. MainInv => /\ TypeOK /\ AdminFollowsConfig /\ UpMeansAllChecksUp
                 /\ StatePublished /\ BackupsInStep
                 /\ PoolsServeTheirNodes /\ BackupOnlyWhenShort
                 /\ QueueTellsLatest
  <2>1. InStepOrInCalls => BackupsInStep
    BY SMTT(60) DEF InStepOrInCalls, BackupsInStep, InCalls, Idle
  <2> QED
    BY <2>1, ZenonT(60) DEF MainInv
<1> QED
  BY <1>1, <1>2, PTL

(* A crash lets all nodes go, but no crash and no restart lets a node take *)
(* the place of another: max_nodes_kept starts anew with up_nodes.         *)
THEOREM PlacesSurviveCrashes == TesttoolSpec => NoDisplacement
<1> DEFINE Step == \A p \in Pools : \A n \in up_nodes[p] \cap nodes(p) :
                     IsUp(n) /\ IsUp(n)' => \/ n \in up_nodes'[p]
                                            \/ up_nodes'[p] = {}
                                            \/ p \in backup_pool_active'
<1>1. MainInv /\ [TesttoolNext]_allVars => [Step]_vars
  <2> SUFFICES ASSUME MainInv, [TesttoolNext]_allVars
               PROVE  Step
    BY ZenonT(60)
  <2>1. CASE [Next]_vars
    BY <2>1, NextKeepsPlaces, ZenonT(60) DEF MainInv
  <2>2. CASE Forget
    BY <2>2, ZenonT(60) DEF Forget
  <2> QED
    BY <2>1, <2>2, MainStep, ZenonT(60)
<1> HIDE DEF Step
<1>2. TesttoolSpec => [][Step]_vars
  BY <1>1, InitMainInv, NextMainInv, PTL DEF TesttoolSpec
<1> QED
  BY <1>2, ZenonT(60) DEF NoDisplacement, Step

-----------------------------------------------------------------------------
(* The worker.                                                             *)

LEMMA PfInvHolds == TesttoolSpec => [](MainInv /\ Sync!PfInv)
<1>1. MainInv /\ Sync!PfInv /\ [TesttoolNext]_allVars => Sync!PfInv'
  BY NextPfInv, ZenonT(60) DEF MainInv
<1> QED
  BY <1>1, InitMainInv, NextMainInv, InitPfInv, PTL DEF TesttoolSpec

(* What pfctl.cpp promises of tables and connections holds for the         *)
(* messages the main process really sends, through crashes of both         *)
(* processes: a worker that dies in pf_sync_table() leaves nothing behind  *)
(* that the next call could not start from.                                *)
THEOREM TrafficSurvivesCrashes ==
  TesttoolSpec =>
    /\ [](Pf!PfTypeOK /\ Pf!SyncInstallsMessage /\ Pf!RemovedNodesAreSilent)
    /\ Pf!WantedNodesStay
    /\ Pf!OnlyRemovalsKillStates
<1>1. TesttoolSpec => [](Pf!PfTypeOK /\ Pf!SyncInstallsMessage /\ Pf!RemovedNodesAreSilent)
  BY PfInvPromises, PfInvHolds, PTL
<1>2. MainInv /\ Sync!PfInv /\ [TesttoolNext]_allVars
        => [KeepsWanted]_(Pf!pfVars) /\ [SparesOthers]_(Pf!pfVars)
  BY StepPromises, ZenonT(60) DEF MainInv
<1>3. TesttoolSpec => [][KeepsWanted]_(Pf!pfVars) /\ [][SparesOthers]_(Pf!pfVars)
  BY <1>2, PfInvHolds, PTL DEF TesttoolSpec
<1> QED
  BY <1>1, <1>3, ZenonT(60)
     DEF Pf!WantedNodesStay, Pf!OnlyRemovalsKillStates, KeepsWanted, SparesOthers

-----------------------------------------------------------------------------
(* Restarts.                                                               *)

LEMMA FewerAreFewEnough ==
  ASSUME NEW p \in Pools, NEW T \in SUBSET Nodes, NEW S \in SUBSET T, FewEnough(p, T)
  PROVE  FewEnough(p, S)
<1>1. /\ IsFiniteSet(T) /\ Cardinality(T) \in Nat /\ Cardinality(S) \in Nat
      /\ Cardinality(S) <= Cardinality(T) /\ max_nodes(p) \in Nat
  BY NodeSets, FS_Subset, PoolNumbers, ZenonT(60)
<1> QED
  BY <1>1, SMTT(60) DEF FewEnough

LEMMA NoneAreFewEnough ==
  ASSUME NEW p \in Pools
  PROVE  FewEnough(p, {})
  BY FS_EmptySet, PoolNumbers, SMTT(60) DEF FewEnough

(* A pool that relies on its own nodes wants no more than max_nodes.       *)
LEMMA PromiseFits ==
  ASSUME TypeOK', NEW p \in Pools, PoolPromise(p)'
  PROVE  FewEnough(p, up_nodes'[p])
<1> DEFINE up      == UpNodes(p)'
           enabled == EnabledNodes(p)'
           wanted  == up_nodes'[p]
           room    == IF max_nodes(p) = 0 THEN Cardinality(up) ELSE max_nodes(p)
<1>1. up \in SUBSET Nodes /\ enabled \in SUBSET Nodes
  BY DEF UpNodes, EnabledNodes, nodes
<1>2. /\ Cardinality(up) \in Nat /\ Cardinality(enabled) \in Nat
      /\ min_nodes(p) \in Nat /\ max_nodes(p) \in Nat
      /\ max_nodes(p) = 0 \/ min_nodes(p) <= max_nodes(p)
  BY <1>1, NodeSets, PoolNumbers, ZenonT(60)
<1>3. IF Cardinality(up) >= min_nodes(p)
      THEN Cardinality(wanted) = Smaller(room, Cardinality(up))
      ELSE \/ wanted = {} \/ wanted = up
           \/ Cardinality(wanted) = Smaller(min_nodes(p), Cardinality(enabled))
  BY DEF PoolPromise, Smaller
<1>4. wanted = {} => FewEnough(p, wanted)
  BY NoneAreFewEnough, ZenonT(60)
<1> HIDE DEF up, enabled, wanted
<1>5. FewEnough(p, wanted)
  BY <1>2, <1>3, <1>4, SMTT(60) DEF FewEnough, Smaller
<1> QED
  BY <1>5, ZenonT(60) DEF wanted

LEMMA NextWantedFit == MainInv /\ WantedFit /\ [TesttoolNext]_allVars => WantedFit'
<1> SUFFICES ASSUME MainInv, WantedFit, [TesttoolNext]_allVars, NEW p \in Pools, NEW q \in Pools
             PROVE  FewEnough(p, up_nodes'[q] \cap nodes(p))
  BY ZenonT(60) DEF WantedFit, FewEnough, nodes, max_nodes, min_nodes, has_hcs
<1>1. TypeOK /\ TypeOK'
  BY NextMainInv, ZenonT(60) DEF MainInv
<1>2. CASE Forget
  <2>1. up_nodes'[q] \cap nodes(p) = {}
    BY <1>2, ZenonT(60) DEF Forget
  <2> QED
    BY <2>1, NoneAreFewEnough, ZenonT(60)
<1>3. CASE up_nodes'[q] = up_nodes[q]
  BY <1>3, ZenonT(60) DEF WantedFit
<1>4. ASSUME LogicRuns(q)
      PROVE  FewEnough(p, up_nodes'[q] \cap nodes(p))
  <2>1. \/ backup_pool_name(q) \in Pools /\ up_nodes'[q] = up_nodes[backup_pool_name(q)]
        \/ q \notin backup_pool_active' /\ up_nodes'[q] \subseteq nodes(q)
    <3>1. PICK wanted \in SUBSET Nodes :
            /\ up_nodes' = [up_nodes EXCEPT ![q] = wanted]
            /\ \/ backup_pool_name(q) \in Pools /\ wanted = up_nodes[backup_pool_name(q)]
               \/ /\ backup_pool_active' = backup_pool_active \ {q}
                  /\ \A n \in wanted : n \in nodes(q)
      BY <1>1, <1>4, LogicOutcome, ZenonT(60)
    <3>2. up_nodes'[q] = wanted
      BY <1>1, <3>1, ZenonT(60) DEF TypeOK
    <3> QED
      BY <3>1, <3>2, ZenonT(60)
  <2>2. CASE backup_pool_name(q) \in Pools /\ up_nodes'[q] = up_nodes[backup_pool_name(q)]
    BY <2>2, ZenonT(60) DEF WantedFit
  <2>3. CASE q \notin backup_pool_active' /\ up_nodes'[q] \subseteq nodes(q)
    <3>1. CASE p = q
      <4>1. PoolPromise(q)'
        BY <1>1, <1>4, <2>3, LogicKeepsPromise, ZenonT(60)
      <4>2. up_nodes'[q] \cap nodes(p) = up_nodes'[q]
        BY <2>3, <3>1, ZenonT(60)
      <4> QED
        BY <1>1, <3>1, <4>1, <4>2, PromiseFits, ZenonT(60)
    <3>2. CASE p # q
      <4>1. up_nodes'[q] \cap nodes(p) = {}
        BY <2>3, <3>2, ZenonT(60) DEF nodes
      <4> QED
        BY <4>1, NoneAreFewEnough, ZenonT(60)
    <3> QED
      BY <3>1, <3>2, ZenonT(60)
  <2> QED
    BY <2>1, <2>2, <2>3, ZenonT(60)
<1>5. CASE [Next]_vars
  <2>1. CASE PoolsRest
    BY <1>3, <2>1, ZenonT(60) DEF PoolsRest
  <2>2. ASSUME NEW r \in Pools, LogicRuns(r), r # q
        PROVE  up_nodes'[q] = up_nodes[q]
    BY <1>1, <2>2, OtherPoolsStay, ZenonT(60)
  <2> QED
    BY <1>1, <1>3, <1>4, <1>5, <2>1, <2>2, PoolStep, ZenonT(60)
<1> QED
  BY <1>2, <1>5, MainStep, ZenonT(60)

(* The inductive invariant of the whole, without failing commands.         *)
FitInv == MainInv /\ Sync!PfInv /\ WantedFit /\ TablesFit

LEMMA FitInvHolds == TesttoolSpec => []FitInv
<1>1. TesttoolInit => FitInv
  <2> SUFFICES ASSUME TesttoolInit PROVE FitInv
    BY ZenonT(60)
  <2>1. /\ up_nodes = [p \in Pools |-> {}] /\ mq = <<>> /\ job = NoJob
        /\ pf_table = [p \in Pools |-> {}]
    BY DEF TesttoolInit, Init
  <2>2. WantedFit /\ TablesFit
    BY <2>1, NoneAreFewEnough, SMTT(60) DEF WantedFit, TablesFit
  <2> QED
    BY <2>2, InitMainInv, InitPfInv, ZenonT(60) DEF FitInv
<1>2. FitInv /\ [TesttoolNext]_allVars => FitInv'
  BY NextMainInv, NextPfInv, NextWantedFit, FewerAreFewEnough, NextTablesFit, ZenonT(60)
     DEF FitInv, MainInv, FewerFit
<1> QED
  BY <1>1, <1>2, PTL DEF TesttoolSpec

LEMMA StartKeepsNodes ==
  ASSUME FitInv, [TesttoolNext]_allVars, ~pf_fails, NEW p \in created' \ created,
         Cardinality({n \in pf_table[p] : IsEnabled(n)'}) >= min_nodes(p)
  PROVE  {n \in pf_table[p] : IsEnabled(n)'} \subseteq up_nodes'[p]
<1> DEFINE serving == {n \in pf_table[p] : IsEnabled(n)'}
<1>0. TypeOK /\ TypeOK' /\ p \in Pools
  BY NextMainInv, ZenonT(60) DEF FitInv, MainInv, TypeOK
<1>1. [Next]_vars
  BY MainStep, ZenonT(60) DEF Forget
<1>2. LogicRuns(p)
  <2>1. PICK q \in Pools : LogicRuns(q)
    BY <1>0, <1>1, PoolStep, ZenonT(60) DEF PoolsRest
  <2> QED
    BY <2>1, ZenonT(60) DEF LogicRuns
<1>3. Construct(p)
  <2>1. PICK q \in Pools : Construct(q)
    <3>1. ASSUME Event PROVE created' = created
      BY <3>1, ZenonT(60)
         DEF Event, Schedule, EndCheck, LoadDowntimes, KeepDowntime, ChangeDowntime,
             UpdateUser, SyncLbPools, SyncNoHc
    <3>2. ASSUME TakeMessage PROVE created' = created
      BY <3>2, ZenonT(60) DEF TakeMessage, Receive
    <3>3. ASSUME WorkerStep \/ ClientStep \/ WorkerDies \/ UNCHANGED allVars
          PROVE  created' = created
      BY <3>3, ZenonT(60) DEF WorkerStep, ClientStep, WorkerDies, allVars, vars
    <3>4. ASSUME MainDies \/ WorkerCheck \/ Restart PROVE created' \subseteq created
      BY <3>4, ZenonT(60) DEF MainDies, WorkerCheck, Restart, Forget, vars
    <3> QED
      BY <3>1, <3>2, <3>3, <3>4, ZenonT(60) DEF TesttoolNext
  <2>2. created' = created \cup {q}
    BY <2>1, ZenonT(60) DEF Construct, ConstructPool
  <2> QED
    BY <2>1, <2>2, ZenonT(60)
<1>4. pf_table[p] \subseteq nodes(p) /\ FewEnough(p, pf_table[p])
  BY <1>0, ZenonT(60) DEF FitInv, TablesFit
<1>5. \A n \in nodes(p) : state'[n] = PfState(n, pf_table[p] \cap nodes(p))
  <2>1. InTable(p) = {pf_table[p] \cap nodes(p)}
    BY DEF InTable
  <2>2. \A n \in nodes(p) : n \in Nodes
    BY ZenonT(60) DEF nodes
  <2> QED
    BY <1>3, <2>1, <2>2, ZenonT(60) DEF Construct, ConstructPool
<1>6. UpNodes(p)' = serving
  BY <1>4, <1>5, ZenonT(60) DEF UpNodes, IsUp, IsEnabled, PfState, nodes
<1>7. PICK kept \in SUBSET Nodes : LogicResult(p, kept)
  BY <1>0, <1>2, LogicResults, ZenonT(60)
<1>8. serving \in SUBSET Nodes /\ pf_table[p] \in SUBSET Nodes /\ serving \in SUBSET pf_table[p]
  BY <1>4, ZenonT(60) DEF nodes
<1>9. FewEnough(p, serving)
  BY <1>0, <1>4, <1>8, FewerAreFewEnough, ZenonT(60)
<1>10. Cardinality(serving) >= min_nodes(p)
  OBVIOUS
<1> HIDE DEF serving
<1>11. /\ Cardinality(serving) \in Nat /\ IsFiniteSet(serving)
       /\ min_nodes(p) \in Nat /\ max_nodes(p) \in Nat
  BY <1>0, <1>8, NodeSets, PoolNumbers, ZenonT(60)
<1>12. up_nodes'[p] = Available(p, serving, kept)
  BY <1>6, <1>7, <1>10, <1>11, SMTT(60) DEF LogicResult
<1>13. Available(p, serving, kept) = serving
  <2>1. CASE max_nodes(p) = 0
    BY <1>0, <1>8, <2>1, AvailableCount, ZenonT(60)
  <2>2. CASE max_nodes(p) > 0
    <3>1. Cardinality(Available(p, serving, kept)) = Cardinality(serving)
      BY <1>0, <1>8, <1>9, <1>11, <2>2, AvailableCount, SMTT(60) DEF Smaller, FewEnough
    <3>2. Available(p, serving, kept) \in SUBSET serving
      BY AvailableAreUp, ZenonT(60)
    <3> QED
      BY <1>11, <3>1, <3>2, FS_Subset, ZenonT(60)
  <2> QED
    BY <1>11, <2>1, <2>2, SMTT(60)
<1> QED
  BY <1>12, <1>13, ZenonT(60) DEF serving

(* A restart of testtool, after a crash at any point of the main process   *)
(* or of a sync, takes no node out of a table that has been in it and is   *)
(* still enabled, if there are min_nodes of them: the constructors find no *)
(* more of them than max_nodes and no other pool's.                        *)
THEOREM RestartsKeepTraffic == TesttoolSpec => RestartKeepsTraffic
<1> DEFINE Step == ~pf_fails =>
     \A p \in created' \ created :
       LET serving == {n \in pf_table[p] : IsEnabled(n)'}
       IN  serving \subseteq up_nodes'[p] \/ Cardinality(serving) < min_nodes(p)
<1>1. FitInv /\ [TesttoolNext]_allVars => Step
  <2> SUFFICES ASSUME FitInv, [TesttoolNext]_allVars, ~pf_fails, NEW p \in created' \ created
               PROVE  LET serving == {n \in pf_table[p] : IsEnabled(n)'}
                      IN  serving \subseteq up_nodes'[p] \/ Cardinality(serving) < min_nodes(p)
    BY ZenonT(60)
  <2> DEFINE serving == {n \in pf_table[p] : IsEnabled(n)'}
  <2>1. p \in Pools /\ TypeOK
    BY NextMainInv, ZenonT(60) DEF FitInv, MainInv, TypeOK
  <2>2. serving \in SUBSET Nodes
    BY <2>1, ZenonT(60) DEF FitInv, TablesFit, nodes
  <2>3. Cardinality(serving) \in Nat /\ min_nodes(p) \in Nat
    BY <2>1, <2>2, NodeSets, PoolNumbers, ZenonT(60)
  <2>4. Cardinality(serving) >= min_nodes(p) => serving \subseteq up_nodes'[p]
    BY StartKeepsNodes, ZenonT(60)
  <2> HIDE DEF serving
  <2>5. serving \subseteq up_nodes'[p] \/ Cardinality(serving) < min_nodes(p)
    BY <2>3, <2>4, SMTT(60)
  <2> QED
    BY <2>5, ZenonT(60) DEF serving
<1> HIDE DEF Step
<1>2. FitInv /\ [TesttoolNext]_allVars => [Step]_allVars
  BY <1>1, ZenonT(60)
<1>3. TesttoolSpec => [][Step]_allVars
  BY <1>2, FitInvHolds, PTL DEF TesttoolSpec
<1> QED
  BY <1>3, ZenonT(60) DEF RestartKeepsTraffic, Step

-----------------------------------------------------------------------------
(* Nothing is lost on the way to pf.                                       *)

(* With an order of the pools in which a backup comes before its users, a  *)
(* pool wants nodes of itself and of earlier pools only, and of earlier    *)
(* pools only while it uses its backup.                                    *)
Ranked(rank) ==
  \A p \in Pools : \A n \in up_nodes[p] :
    /\ rank[parent_lbpool[n]] <= rank[p]
    /\ p \in backup_pool_active => rank[parent_lbpool[n]] < rank[p]

LEMMA NextRanked ==
  ASSUME NEW rank \in [Pools -> Nat],
         \A p \in Pools :
           backup_pool_name(p) \in Pools => rank[backup_pool_name(p)] < rank[p],
         MainInv, Ranked(rank), [TesttoolNext]_allVars
  PROVE  Ranked(rank)'
<1>0. TypeOK /\ TypeOK' /\ \A n \in Nodes : parent_lbpool[n] \in Pools
  BY NextMainInv, LbPoolAssumption, ZenonT(60) DEF MainInv
<1>1. CASE Forget
  BY <1>1, ZenonT(60) DEF Forget, Ranked
<1>2. CASE PoolsRest
  BY <1>2, ZenonT(60) DEF PoolsRest, Ranked
<1>3. ASSUME NEW p \in Pools, LogicRuns(p)
      PROVE  Ranked(rank)'
  <2>1. PICK wanted \in SUBSET Nodes :
          /\ up_nodes' = [up_nodes EXCEPT ![p] = wanted]
          /\ \/ /\ backup_pool_active' = backup_pool_active \cup {p}
                /\ backup_pool_name(p) \in Pools
                /\ wanted = up_nodes[backup_pool_name(p)]
             \/ /\ backup_pool_active' = backup_pool_active \ {p}
                /\ \A n \in wanted : n \in nodes(p)
    BY <1>0, <1>3, LogicOutcome, ZenonT(60)
  <2>2. ASSUME NEW q \in Pools, NEW n \in up_nodes'[q]
        PROVE  /\ rank[parent_lbpool[n]] <= rank[q]
               /\ q \in backup_pool_active' => rank[parent_lbpool[n]] < rank[q]
    <3>1. CASE q # p
      BY <1>0, <2>1, <2>2, <3>1, ZenonT(60) DEF Ranked, TypeOK
    <3>2. CASE q = p /\ backup_pool_name(p) \in Pools /\ wanted = up_nodes[backup_pool_name(p)]
      <4>1. n \in up_nodes[backup_pool_name(p)] /\ n \in Nodes
        BY <1>0, <2>1, <2>2, <3>2, ZenonT(60) DEF TypeOK
      <4>2. /\ rank[parent_lbpool[n]] <= rank[backup_pool_name(p)]
            /\ rank[backup_pool_name(p)] < rank[p]
        BY <3>2, <4>1, ZenonT(60) DEF Ranked
      <4>3. rank[parent_lbpool[n]] \in Nat /\ rank[backup_pool_name(p)] \in Nat /\ rank[p] \in Nat
        BY <1>0, <3>2, <4>1, ZenonT(60)
      <4> QED
        BY <3>2, <4>2, <4>3, SMTT(60)
    <3>3. CASE /\ q = p /\ backup_pool_active' = backup_pool_active \ {p}
               /\ \A m \in wanted : m \in nodes(p)
      <4>1. parent_lbpool[n] = p
        BY <1>0, <2>1, <2>2, <3>3, ZenonT(60) DEF TypeOK, nodes
      <4> QED
        BY <3>3, <4>1, SMTT(60)
    <3> QED
      BY <2>1, <3>1, <3>2, <3>3, ZenonT(60)
  <2> QED
    BY <2>2, ZenonT(60) DEF Ranked
<1> QED
  BY <1>0, <1>1, <1>2, <1>3, MainStep, PoolStep, ZenonT(60)

(* The message of a pool asks for all of its own nodes that the pool wants.*)
LEMMA MessageWants ==
  ASSUME NEW rank \in [Pools -> Nat], MainInv', Ranked(rank)', NEW p \in Pools
  PROVE  Sync!WantSet(MessageFor(p)') = up_nodes'[p] \cap nodes(p)
<1>1. ASSUME NEW n \in up_nodes'[p] \cap nodes(p)
      PROVE  admin_state'[n] = "STATE_ENABLED"
  <2>1. parent_lbpool[n] = p
    BY ZenonT(60) DEF nodes
  <2>2. p \notin backup_pool_active'
    BY <2>1, SMTT(60) DEF Ranked
  <2> QED
    BY <2>2, ZenonT(60) DEF MainInv, OwnNodesEnabled, EnabledNodes, IsEnabled
<1>2. /\ MessageFor(p)'.up = up_nodes'[p] \cap nodes(p)
      /\ MessageFor(p)'.admin = [n \in nodes(p) |-> admin_state'[n]]
  BY ZenonT(60) DEF MessageFor
<1> QED
  BY <1>1, <1>2, ZenonT(60) DEF Sync!WantSet

(* A pool that counts as synced has its wanted nodes in its table, in the  *)
(* worker's hands or in the queue, and nothing later than them: through    *)
(* full queues, retries, backups and crashes no change is lost.  As in     *)
(* NoDowntimedNodeAnywhere, rank exists if there is no cycle of backups.   *)
THEOREM NothingIsLost ==
  ASSUME NEW rank \in [Pools -> Nat],
         \A p \in Pools :
           backup_pool_name(p) \in Pools => rank[backup_pool_name(p)] < rank[p]
  PROVE  TesttoolSpec => []SyncedMeansUnderWay
<1>1. TesttoolInit => Ranked(rank) /\ SyncedMeansUnderWay
  BY ZenonT(60) DEF TesttoolInit, Init, Ranked, SyncedMeansUnderWay
<1>2. FitInv /\ Ranked(rank) /\ [TesttoolNext]_allVars => Ranked(rank)'
  BY NextRanked, ZenonT(60) DEF FitInv
<1>3. FitInv /\ FitInv' /\ Ranked(rank)' /\ SyncedMeansUnderWay /\ [TesttoolNext]_allVars
        => SyncedMeansUnderWay'
  <2> SUFFICES ASSUME FitInv, FitInv', Ranked(rank)', SyncedMeansUnderWay,
                      [TesttoolNext]_allVars
               PROVE  SyncedMeansUnderWay'
    BY ZenonT(60)
  <2>1. MessagesWant
    BY MessageWants, ZenonT(60) DEF MessagesWant, FitInv
  <2>2. TypeOK /\ TypeOK' /\ Sync!PfInv /\ TablesFit
    BY DEF FitInv, MainInv
  <2> QED
    BY <2>1, <2>2, NextSynced, ZenonT(60)
<1> QED
  BY <1>1, <1>2, <1>3, FitInvHolds, PTL DEF TesttoolSpec

(* The whole at rest: with every decision carried out and no pfctl command *)
(* failing, each table holds exactly the pool's own nodes that the pool    *)
(* wants, and none that the configuration takes out of service.            *)
THEOREM QuietTablesAreRight ==
  ASSUME NEW rank \in [Pools -> Nat],
         \A p \in Pools :
           backup_pool_name(p) \in Pools => rank[backup_pool_name(p)] < rank[p]
  PROVE  TesttoolSpec =>
           [](Quiet /\ ~pf_fails =>
                \A p \in Pools :
                  /\ pf_table[p] = up_nodes[p] \cap nodes(p)
                  /\ \A n \in pf_table[p] : config[n] = "STATE_ENABLED")
<1>1. ASSUME MainInv, SyncedMeansUnderWay, Quiet, ~pf_fails, NEW p \in Pools
      PROVE  pf_table[p] = up_nodes[p] \cap nodes(p)
  <2>1. Outcome(p) = pf_table[p]
    BY <1>1, SMTT(60) DEF Outcome, Quiet
  <2> QED
    BY <1>1, <2>1, ZenonT(60) DEF SyncedMeansUnderWay, Quiet, Idle
<1>2. ASSUME MainInv, Quiet, NEW p \in Pools, NEW n \in up_nodes[p]
      PROVE  config[n] = "STATE_ENABLED"
  <2>1. NoTrafficToDowntimedNodes /\ n \in Nodes
    BY <1>2, NoneDowntimed, ZenonT(60) DEF MainInv, TypeOK
  <2>2. admin_state[n] = "STATE_ENABLED"
    BY <1>2, <2>1, ZenonT(60) DEF NoTrafficToDowntimedNodes, Quiet, IsEnabled
  <2> QED
    BY <1>2, <2>1, <2>2, ZenonT(60) DEF MainInv, AdminFollowsConfig, DrainedByChecks
<1>3. MainInv /\ SyncedMeansUnderWay =>
        (Quiet /\ ~pf_fails =>
           \A p \in Pools :
             /\ pf_table[p] = up_nodes[p] \cap nodes(p)
             /\ \A n \in pf_table[p] : config[n] = "STATE_ENABLED")
  BY <1>1, <1>2, ZenonT(60)
<1>4. TesttoolSpec => []SyncedMeansUnderWay
  BY NothingIsLost, ZenonT(60)
<1> QED
  BY <1>3, <1>4, PfInvHolds, PTL
=============================================================================
