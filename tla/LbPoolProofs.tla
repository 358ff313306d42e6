---------------------------- MODULE LbPoolProofs ----------------------------
(***************************************************************************)
(* Proofs about module LbPool, for any number of checks, nodes and pools.  *)
(***************************************************************************)
EXTENDS LbPool, SequenceTheorems, TLAPS

-----------------------------------------------------------------------------
(* Lemmas about checks.                                                    *)

(* Every run of a check leaves the counter in range and the states legal.  *)
LEMMA HandleResultType ==
  ASSUME HealthcheckTypeOK, NEW h \in Checks,
         NEW last \in HealthcheckState, HandleResult(h, last)
  PROVE  HealthcheckTypeOK'
<1>1. NextCounter(h, last) \in 0 .. CounterMod - 1
  BY HealthcheckAssumption DEF NextCounter, HealthcheckTypeOK
<1>2. NextHardState(h, last) \in HealthcheckState
  BY DEF NextHardState, HealthcheckTypeOK, HealthcheckState
<1> QED
  BY <1>1, <1>2 DEF HandleResult, HealthcheckTypeOK

(* end_check() turns every result but HC_PANIC into a state.               *)
LEMMA LastStateType ==
  ASSUME NEW result \in HealthcheckResult
  PROVE  LastState(result) \in HealthcheckState
  BY DEF HealthcheckResult, LastState, HealthcheckState

(* The constructor leaves the checks it builds, and the others, typed.     *)
LEMMA ConstructChecksType ==
  ASSUME HealthcheckTypeOK, NEW New, NEW Up, ConstructChecks(New, Up)
  PROVE  HealthcheckTypeOK'
<1>1. \A h \in Checks : ConstructedCounter(h, Up) \in 0 .. CounterMod - 1
  BY HealthcheckAssumption DEF ConstructedCounter
<1>2. \A h \in Checks : ConstructedState(h, Up) \in HealthcheckState
  BY DEF ConstructedState, HealthcheckState
<1> QED
  BY <1>1, <1>2 DEF ConstructChecks, HealthcheckTypeOK
-----------------------------------------------------------------------------
(* Lemmas about pool_logic().                                              *)

(* The loops only ever pick nodes out of the sets they run over.           *)
LEMMA AvailableAreUp ==
  ASSUME NEW p, NEW up, NEW kept
  PROVE  /\ Available(p, up, kept) \subseteq up
         /\ NewlyWanted(p, up, kept) \subseteq up
BY DEF Available, NewlyWanted, PreviouslyWanted, TakeFirst

LEMMA ForceUpPicksEnabled ==
  ASSUME NEW p, NEW last, NEW available, NEW up, NEW enabled, NEW forced
  PROVE  /\ ForceUp(p, last, available, up, enabled, forced).wanted
              \subseteq available \cup enabled
         /\ ForceUp(p, last, available, up, enabled, forced).kept
              \subseteq forced \cup enabled
<1> DEFINE recent  == RecentlyChanged(last, up, enabled)
           rest    == enabled \ {last}
           wanted1 == available \cup recent
           wanted2 == wanted1 \cup ForcedAgain(p, wanted1, rest, forced)
           any     == ForcedAny(p, wanted2, rest)
<1>1. recent \subseteq enabled
  BY DEF RecentlyChanged
<1>2. ForcedAgain(p, wanted1, rest, forced) \subseteq enabled
  BY DEF ForcedAgain, TakeFirst
<1>3. any \subseteq enabled
  BY DEF ForcedAny
<1>4. ForceUp(p, last, available, up, enabled, forced)
        = [wanted |-> wanted2 \cup any, kept |-> forced \cup recent \cup any]
  BY DEF ForceUp
<1> HIDE DEF recent, rest, any
<1> QED
  BY <1>1, <1>2, <1>3, <1>4, SMTT(60)

(* The wanted nodes are typed and, unless they are a backup's, enabled.    *)
LEMMA WantedType ==
  ASSUME NEW p \in Pools, NEW available, NEW forceUp,
         TypeOK, available \subseteq Nodes, forceUp \subseteq Nodes
  PROVE  WantedNodes(p, available, forceUp) \subseteq Nodes
<1>1. CASE UseBackup(p, available)
  <2>1. backup_pool_name(p) \in Pools
    BY <1>1 DEF UseBackup, TypeOK
  <2> QED
    BY <2>1 DEF WantedNodes, TypeOK
<1>2. CASE ~UseBackup(p, available)
  BY <1>2 DEF WantedNodes
<1> QED
  BY <1>1, <1>2

(* update_pfctl() respects the types and the length of the queue.          *)
LEMMA UpdatePfctlType ==
  ASSUME NEW p \in Pools, NEW synced \in BOOLEAN,
         TypeOK, admin_state' \in [Nodes -> LbNodeAdminState],
         UpdatePfctl(p, synced)
  PROVE  /\ mq' \in Seq(Message) /\ Len(mq') <= QUEUE_LEN
         /\ pf_synced' \subseteq Pools
         /\ calls' \in Seq(Pools)
         /\ aborted' \in BOOLEAN
<1>0. QUEUE_LEN \in Nat /\ Users[p] \in Seq(Pools)
  BY LbPoolAssumption
<1> DEFINE m == [pool |-> p, up |-> up_nodes'[p] \cap nodes(p),
                 admin |-> [n \in nodes(p) |-> admin_state'[n]]]
<1>1. m \in Message
  <2>1. nodes(p) \subseteq Nodes
    BY DEF nodes
  <2>2. [n \in nodes(p) |-> admin_state'[n]] \in [nodes(p) -> LbNodeAdminState]
    BY <2>1
  <2> HIDE DEF nodes
  <2> QED
    BY <2>1, <2>2 DEF Message
<1>2. mq \in Seq(Message) /\ Len(mq) \in Nat /\ Len(mq) <= QUEUE_LEN
  BY DEF TypeOK
<1>3. mq' \in Seq(Message) /\ Len(mq') <= QUEUE_LEN
  <2>1. mq' = mq \/ (Len(mq) < QUEUE_LEN /\ mq' = Append(mq, m))
    BY DEF UpdatePfctl, MessageFor
  <2> HIDE DEF m
  <2>2. Append(mq, m) \in Seq(Message) /\ Len(Append(mq, m)) = Len(mq) + 1
    BY <1>1, <1>2
  <2> QED
    BY <1>0, <1>2, <2>1, <2>2, SMTT(60)
<1>4. pf_synced' \subseteq Pools
  BY DEF UpdatePfctl, MessageFor, TypeOK
<1>5. calls' \in Seq(Pools)
  <2>1. calls = <<>> \/ Tail(calls) \in Seq(Pools)
    BY DEF TypeOK
  <2> QED
    BY <1>0, <2>1 DEF UpdatePfctl, MessageFor, CallsAfter
<1>6. aborted' \in BOOLEAN
  BY DEF UpdatePfctl, MessageFor
<1> QED
  BY <1>3, <1>4, <1>5, <1>6

(* pool_logic() does, whatever flags its caller left behind.               *)
LEMMA PoolLogicType ==
  ASSUME NEW p \in Pools, NEW last, NEW kept \in SUBSET Nodes,
         NEW forced \in SUBSET Nodes,
         TypeOK, admin_state' \in [Nodes -> LbNodeAdminState],
         PoolLogic(p, last, kept, forced)
  PROVE  /\ min_nodes_kept' \subseteq Nodes
         /\ max_nodes_kept' \subseteq Nodes
         /\ up_nodes' \in [Pools -> SUBSET Nodes]
         /\ pool_state' \in [Pools -> LbNodeState]
         /\ backup_pool_active' \subseteq Pools
         /\ mq' \in Seq(Message) /\ Len(mq') <= QUEUE_LEN
         /\ pf_synced' \subseteq Pools
         /\ calls' \in Seq(Pools)
         /\ aborted' \in BOOLEAN
<1> DEFINE enabled   == {n \in nodes(p) : admin_state'[n] = "STATE_ENABLED"}
           up        == {n \in nodes(p) :
                           admin_state'[n] = "STATE_ENABLED" /\ state'[n] = "STATE_UP"}
           available == Available(p, up, kept)
           force     == ForceUp(p, last, available, up, enabled, forced)
           wanted    == WantedNodes(p, available, force.wanted)
<1>1. up \subseteq Nodes /\ enabled \subseteq Nodes
  BY ZenonT(60) DEF nodes
<1>2. /\ max_nodes_kept' = kept \cup NewlyWanted(p, up, kept)
      /\ min_nodes_kept' \in {force.kept, forced}
      /\ backup_pool_active' \subseteq backup_pool_active \cup {p}
      /\ up_nodes' = [up_nodes EXCEPT ![p] = wanted]
      /\ pool_state' = [pool_state EXCEPT ![p] = PublishedState(p, wanted)]
      /\ UpdatePfctl(p, wanted = up_nodes[p] /\ p \in pf_synced)
  BY ZenonT(60) DEF PoolLogic, UpNodes, EnabledNodes, IsUp, IsEnabled
<1> HIDE DEF up, enabled
<1>3. available \subseteq Nodes /\ NewlyWanted(p, up, kept) \subseteq Nodes
  BY <1>1, AvailableAreUp
<1> HIDE DEF available
<1>4. force.wanted \subseteq Nodes /\ force.kept \subseteq Nodes
  BY <1>1, <1>3, ForceUpPicksEnabled
<1> HIDE DEF force
<1>5. wanted \subseteq Nodes
  BY <1>3, <1>4, WantedType
<1> HIDE DEF wanted
<1>6. PublishedState(p, wanted) \in LbNodeState
  BY DEF PublishedState, LbNodeState, TypeOK
<1>7. up_nodes' \in [Pools -> SUBSET Nodes] /\ pool_state' \in [Pools -> LbNodeState]
  BY <1>2, <1>5, <1>6 DEF TypeOK
<1>8. /\ mq' \in Seq(Message) /\ Len(mq') <= QUEUE_LEN
      /\ pf_synced' \subseteq Pools
      /\ calls' \in Seq(Pools)
      /\ aborted' \in BOOLEAN
  <2>1. PICK synced \in BOOLEAN : synced = (wanted = up_nodes[p] /\ p \in pf_synced)
    BY Zenon
  <2>2. UpdatePfctl(p, synced)
    BY <1>2, <2>1
  <2> QED
    BY <2>2, UpdatePfctlType
<1> QED
  BY <1>2, <1>3, <1>4, <1>7, <1>8 DEF TypeOK

-----------------------------------------------------------------------------
(* Type correctness.                                                       *)

LEMMA InitType == Init => TypeOK
<1> SUFFICES ASSUME Init PROVE TypeOK
  OBVIOUS
<1>1. HealthcheckTypeOK
  BY HealthcheckAssumption DEF Init, HealthcheckTypeOK, HealthcheckState
<1>2. "STATE_ENABLED" \in ConfiguredAdminState
  BY LbPoolAssumption DEF ConfiguredAdminState, admin_state_from_config
<1>3. QUEUE_LEN \in Nat
  BY LbPoolAssumption
<1>4. mq \in Seq(Message) /\ Len(mq) <= QUEUE_LEN /\ calls \in Seq(Pools)
  BY <1>3 DEF Init
<1> QED
  BY <1>1, <1>2, <1>4, Zenon DEF Init, TypeOK, LbNodeState, LbNodeAdminState

LEMMA ConfiguredType == ConfiguredAdminState \subseteq LbNodeAdminState
  BY DEF ConfiguredAdminState, admin_state_from_config, LbNodeAdminState

LEMMA ConstructPoolType ==
  ASSUME TypeOK, NEW p \in Pools, NEW inTable,
         NEW admin \in [nodes(p) -> ConfiguredAdminState],
         ConstructPool(p, inTable, admin)
  PROVE  TypeOK'
<1>1. HealthcheckTypeOK'
  <2>1. PICK New, Up : ConstructChecks(New, Up)
    BY DEF ConstructPool, IsUp, IsEnabled
  <2> QED
    BY <2>1, ConstructChecksType DEF TypeOK
<1>2. state' \in [Nodes -> LbNodeState]
  BY DEF ConstructPool, PfState, TypeOK, LbNodeState, IsUp, IsEnabled
<1>3. admin_state' \in [Nodes -> LbNodeAdminState]
  BY ConfiguredType DEF ConstructPool, TypeOK, IsUp, IsEnabled
<1>4. config' \in [Nodes -> ConfiguredAdminState]
  BY DEF ConstructPool, TypeOK, IsUp, IsEnabled
<1>5. PICK kept \in SUBSET Nodes, forced \in SUBSET Nodes :
        PoolLogic(p, NoNode, kept, forced)
  BY Zenon DEF ConstructPool, TypeOK, IsUp, IsEnabled
<1>6. created' = created \cup {p} /\ UNCHANGED <<reload, sweep>>
  BY DEF ConstructPool, IsUp, IsEnabled
<1> QED
  BY <1>1, <1>2, <1>3, <1>4, <1>5, <1>6, PoolLogicType, Zenon DEF TypeOK

LEMMA EndCheckType ==
  ASSUME TypeOK, NEW h \in Checks, NEW result \in HealthcheckResult,
         EndCheck(h, result)
  PROVE  TypeOK'
<1> DEFINE n == parent_lbnode[h]
<1>1. n \in Nodes /\ parent_lbpool[n] \in Pools
  BY LbPoolAssumption
<1>2. HealthcheckTypeOK' /\ UNCHANGED <<created, reload, sweep, config>>
  BY HandleResultType, LastStateType DEF EndCheck, TypeOK
<1>3. NodeLogic(n)
  BY DEF EndCheck
<1> HIDE DEF n
<1>4. /\ state' \in [Nodes -> LbNodeState]
      /\ admin_state' \in [Nodes -> LbNodeAdminState]
  BY <1>1, <1>3 DEF NodeLogic, AdminAfterChecks, TypeOK, LbNodeState, LbNodeAdminState
<1>5. CASE PoolLogicUnchanged(parent_lbpool[n])
  <2>1. UpdatePfctl(parent_lbpool[n], TRUE) \/ UpdatePfctl(parent_lbpool[n], FALSE)
    BY <1>5 DEF PoolLogicUnchanged, UpdatePfctl, MessageFor
  <2> QED
    BY <1>1, <1>2, <1>4, <1>5, <2>1, UpdatePfctlType, Zenon DEF PoolLogicUnchanged, TypeOK
<1>6. CASE \E kept, forced \in SUBSET Nodes :
             PoolLogic(parent_lbpool[n], n, kept, forced)
  BY <1>1, <1>2, <1>4, <1>6, PoolLogicType, Zenon DEF TypeOK
<1> QED
  BY <1>3, <1>5, <1>6, Zenon DEF NodeLogic, TypeOK

LEMMA ChangeDowntimeType ==
  ASSUME TypeOK, NEW n \in Nodes, NEW admin \in ConfiguredAdminState,
         ChangeDowntime(n, admin)
  PROVE  TypeOK'
<1>1. parent_lbpool[n] \in Pools
  BY LbPoolAssumption
<1>2. /\ state' \in [Nodes -> LbNodeState]
      /\ admin_state' \in [Nodes -> LbNodeAdminState]
      /\ config' \in [Nodes -> ConfiguredAdminState]
      /\ HealthcheckTypeOK'
      /\ reload' \subseteq Nodes
      /\ UNCHANGED <<created, sweep>>
  BY ConfiguredType
     DEF ChangeDowntime, TypeOK, LbNodeState, hcVars, HealthcheckTypeOK
<1>3. PICK kept \in SUBSET Nodes, forced \in SUBSET Nodes :
        PoolLogic(parent_lbpool[n], n, kept, forced)
  BY DEF ChangeDowntime, TypeOK
<1> QED
  BY <1>1, <1>2, <1>3, PoolLogicType, Zenon DEF TypeOK

LEMMA UpdateUserType ==
  ASSUME TypeOK, NEW p \in Pools, UpdateUser(p)
  PROVE  TypeOK'
<1>1. UNCHANGED <<hcVars, state, admin_state, created, reload, sweep, config>>
  BY DEF UpdateUser
<1>2. CASE p \in backup_pool_active
  <2>1. PICK kept \in SUBSET Nodes, forced \in SUBSET Nodes :
          PoolLogic(p, NoNode, kept, forced)
    BY <1>2 DEF UpdateUser, TypeOK
  <2> QED
    BY <1>1, <2>1, PoolLogicType, Zenon DEF TypeOK, hcVars, HealthcheckTypeOK
<1>3. CASE p \notin backup_pool_active
  <2>1. calls \in Seq(Pools) /\ calls # <<>> /\ calls' = Tail(calls)
    BY <1>3 DEF UpdateUser, TypeOK
  <2>2. calls' \in Seq(Pools)
    BY <2>1
  <2> QED
    BY <1>1, <1>3, <2>2 DEF UpdateUser, poolVars, TypeOK, hcVars, HealthcheckTypeOK
<1> QED
  BY <1>2, <1>3

LEMMA SyncNoHcType ==
  ASSUME TypeOK, NEW p \in Pools, SyncNoHc(p)
  PROVE  TypeOK'
<1>1. /\ UNCHANGED <<hcVars, nodeVars, up_nodes, pool_state, backup_pool_active,
                     created, reload, config>>
      /\ sweep' \subseteq Pools
  BY DEF SyncNoHc, TypeOK
<1>2. CASE p \in pf_synced
  BY <1>1, <1>2 DEF SyncNoHc, TypeOK, hcVars, nodeVars, HealthcheckTypeOK
<1>3. CASE p \notin pf_synced
  <2>1. UpdatePfctl(p, FALSE)
    BY <1>3, Zenon DEF SyncNoHc
  <2>2. admin_state' \in [Nodes -> LbNodeAdminState]
    BY <1>1 DEF TypeOK, nodeVars
  <2> QED
    BY <1>1, <2>1, <2>2, UpdatePfctlType, Zenon DEF TypeOK, hcVars, nodeVars, HealthcheckTypeOK
<1> QED
  BY <1>2, <1>3

LEMMA NextType == TypeOK /\ [Next]_vars => TypeOK'
<1> SUFFICES ASSUME TypeOK, [Next]_vars
             PROVE  TypeOK'
  OBVIOUS
<1>1. ASSUME NEW p \in Pools, NEW inTable,
             NEW admin \in [nodes(p) -> ConfiguredAdminState],
             ConstructPool(p, inTable, admin)
      PROVE  TypeOK'
  BY <1>1, ConstructPoolType
<1>2. ASSUME NEW S \in SUBSET Checks, Schedule(S)
      PROVE  TypeOK'
  BY <1>2 DEF Schedule, ScheduleHealthchecks, TypeOK, HealthcheckTypeOK,
              nodeVars, poolVars
<1>3. ASSUME NEW h \in Checks, NEW result \in HealthcheckResult, EndCheck(h, result)
      PROVE  TypeOK'
  BY <1>3, EndCheckType
<1>4. CASE LoadDowntimes
  BY <1>4 DEF LoadDowntimes, TypeOK, HealthcheckTypeOK, hcVars, nodeVars, poolVars
<1>5. ASSUME NEW n \in Nodes, KeepDowntime(n)
      PROVE  TypeOK'
  BY <1>5, ZenonT(60) DEF KeepDowntime, TypeOK, HealthcheckTypeOK, hcVars, nodeVars, poolVars
<1>6. ASSUME NEW n \in Nodes, NEW admin \in ConfiguredAdminState,
             ChangeDowntime(n, admin)
      PROVE  TypeOK'
  BY <1>6, ChangeDowntimeType
<1>7. ASSUME NEW p \in Pools, UpdateUser(p)
      PROVE  TypeOK'
  BY <1>7, UpdateUserType
<1>8. CASE SyncLbPools
  BY <1>8 DEF SyncLbPools, TypeOK, HealthcheckTypeOK, hcVars, nodeVars, poolVars
<1>9. ASSUME NEW p \in Pools, SyncNoHc(p)
      PROVE  TypeOK'
  BY <1>9, SyncNoHcType
<1>10. CASE Receive
  <2>1. mq \in Seq(Message) /\ mq # <<>> /\ mq' = Tail(mq)
    BY <1>10 DEF Receive, TypeOK
  <2>2. mq' \in Seq(Message) /\ Len(mq') = Len(mq) - 1 /\ Len(mq) \in Nat
    BY <2>1
  <2>3. Len(mq') <= QUEUE_LEN
    BY <2>2, LbPoolAssumption DEF TypeOK
  <2> QED
    BY <1>10, <2>2, <2>3
       DEF Receive, TypeOK, HealthcheckTypeOK, hcVars, nodeVars, poolVars
<1>11. CASE UNCHANGED vars
  BY <1>11 DEF vars, TypeOK, HealthcheckTypeOK, hcVars, nodeVars, poolVars
<1> QED
  BY <1>1, <1>2, <1>3, <1>4, <1>5, <1>6, <1>7, <1>8, <1>9, <1>10, <1>11
     DEF Next, Main, Event

(* Type correctness of checks, nodes and pools, the length of the queue to *)
(* the worker included: no order of callbacks leaves a value out of range. *)
THEOREM TypeCorrect == Spec => []TypeOK
  BY InitType, NextType, PTL DEF Spec

-----------------------------------------------------------------------------
(* Admin states.                                                           *)

LEMMA ConfiguredIsNoDrainSoft == "STATE_DRAIN_SOFT" \notin ConfiguredAdminState
  BY DEF ConfiguredAdminState, admin_state_from_config

LEMMA NextAdmin == TypeOK /\ AdminFollowsConfig /\ [Next]_vars => AdminFollowsConfig'
<1> SUFFICES ASSUME TypeOK, AdminFollowsConfig, [Next]_vars, NEW m \in Nodes
             PROVE  admin_state'[m] = config'[m] \/ DrainedByChecks(m)'
  BY ZenonT(60) DEF AdminFollowsConfig
<1>0. admin_state[m] = config[m] \/ DrainedByChecks(m)
  BY ZenonT(60) DEF AdminFollowsConfig
<1>1. CASE /\ admin_state'[m] = admin_state[m] /\ config'[m] = config[m]
           /\ state'[m] = state[m]
           /\ \A h \in healthchecks(m) : hard_state'[h] = hard_state[h]
  BY <1>0, <1>1, ZenonT(60) DEF DrainedByChecks, healthchecks
<1>2. ASSUME NEW p \in Pools, NEW inTable,
             NEW admin \in [nodes(p) -> ConfiguredAdminState],
             ConstructPool(p, inTable, admin)
      PROVE  admin_state'[m] = config'[m] \/ DrainedByChecks(m)'
  <2>1. CASE m \in nodes(p)
    BY <1>2, <2>1, ZenonT(60) DEF ConstructPool
  <2>2. CASE m \notin nodes(p)
    <3>1. admin_state'[m] = admin_state[m] /\ config'[m] = config[m] /\ state'[m] = state[m]
      BY <1>2, <2>2, ZenonT(60) DEF ConstructPool
    <3>2. \A h \in healthchecks(m) : hard_state'[h] = hard_state[h]
      BY <1>2, <2>2, ZenonT(60) DEF ConstructPool, ConstructChecks, healthchecks
    <3> QED
      BY <1>1, <3>1, <3>2, ZenonT(60)
  <2> QED
    BY <2>1, <2>2, ZenonT(60)
<1>3. ASSUME NEW h \in Checks, NEW result \in HealthcheckResult, EndCheck(h, result)
      PROVE  admin_state'[m] = config'[m] \/ DrainedByChecks(m)'
  <2> DEFINE n == parent_lbnode[h]
             all_up   == \A f \in healthchecks(n) : hard_state'[f] = "STATE_UP"
             draining == \E f \in healthchecks(n) : hard_state'[f] = "STATE_DRAIN"
             failed   == state[n] = "STATE_UP" /\ ~all_up
             passed   == state[n] = "STATE_DOWN" /\ all_up
  <2>1. config' = config /\ NodeLogic(n) /\ n \in Nodes
    BY <1>3, LbPoolAssumption DEF EndCheck
  <2>2. /\ state' = [state EXCEPT ![n] = IF all_up THEN "STATE_UP" ELSE "STATE_DOWN"]
        /\ admin_state' = [admin_state EXCEPT ![n] =
                             AdminAfterChecks(n, failed, passed, draining)]
    BY <2>1, ZenonT(60) DEF NodeLogic
  <2>3. \A f \in Checks : f # h => hard_state'[f] = hard_state[f]
    BY <1>3, ZenonT(60) DEF EndCheck, HandleResult, TypeOK, HealthcheckTypeOK
  <2>4. m # n => \A f \in healthchecks(m) : hard_state'[f] = hard_state[f]
    BY <2>3, ZenonT(60) DEF healthchecks
  <2>5. ~all_up => \E f \in healthchecks(n) : hard_state'[f] # "STATE_UP"
    BY ZenonT(60)
  <2> HIDE DEF n, all_up, draining
  <2>6. CASE m # n
    <3>1. admin_state'[m] = admin_state[m] /\ state'[m] = state[m]
      BY <2>1, <2>2, <2>6, ZenonT(60) DEF TypeOK
    <3> QED
      BY <1>1, <2>1, <2>4, <2>6, <3>1, ZenonT(60)
  <2>7. CASE m = n
    <3>1. /\ state'[m] = IF all_up THEN "STATE_UP" ELSE "STATE_DOWN"
          /\ admin_state'[m] = AdminAfterChecks(m, failed, passed, draining)
      BY <2>2, <2>7, ZenonT(60) DEF TypeOK
    <3>2. config[m] \in ConfiguredAdminState
      BY DEF TypeOK
    <3>3. CASE all_up
      BY <1>0, <2>1, <2>7, <3>1, <3>2, <3>3, ConfiguredIsNoDrainSoft, ZenonT(60)
         DEF AdminAfterChecks, DrainedByChecks
    <3>4. CASE ~all_up
      BY <1>0, <2>1, <2>5, <2>7, <3>1, <3>4, ZenonT(60)
         DEF AdminAfterChecks, DrainedByChecks, healthchecks
    <3> QED
      BY <3>3, <3>4, ZenonT(60)
  <2> QED
    BY <2>6, <2>7, ZenonT(60)
<1>4. ASSUME NEW n \in Nodes, KeepDowntime(n)
      PROVE  admin_state'[m] = config'[m] \/ DrainedByChecks(m)'
  <2>1. UNCHANGED <<admin_state, state, hard_state>>
    BY <1>4 DEF KeepDowntime, nodeVars, hcVars
  <2>2. config'[m] = config[m] \/ config'[m] = admin_state[m]
    BY <1>4, ZenonT(60) DEF KeepDowntime, TypeOK
  <2> QED
    BY <1>1, <2>1, <2>2, ZenonT(60)
<1>5. ASSUME NEW n \in Nodes, NEW admin \in ConfiguredAdminState,
             ChangeDowntime(n, admin)
      PROVE  admin_state'[m] = config'[m] \/ DrainedByChecks(m)'
  <2>1. CASE m = n
    BY <1>5, <2>1, ZenonT(60) DEF ChangeDowntime, TypeOK
  <2>2. CASE m # n
    <3>1. /\ admin_state'[m] = admin_state[m] /\ config'[m] = config[m]
          /\ state'[m] = state[m] /\ UNCHANGED hard_state
      BY <1>5, <2>2, ZenonT(60) DEF ChangeDowntime, TypeOK, hcVars
    <3> QED
      BY <1>1, <3>1, ZenonT(60)
  <2> QED
    BY <2>1, <2>2, ZenonT(60)
<1>6. UNCHANGED <<admin_state, config, state, hard_state>> =>
        admin_state'[m] = config'[m] \/ DrainedByChecks(m)'
  BY <1>1, ZenonT(60)
<1>7. ASSUME NEW S \in SUBSET Checks, Schedule(S)
      PROVE  UNCHANGED <<admin_state, config, state, hard_state>>
  BY <1>7 DEF Schedule, ScheduleHealthchecks, nodeVars
<1>8. ASSUME NEW p \in Pools, UpdateUser(p) \/ SyncNoHc(p)
      PROVE  UNCHANGED <<admin_state, config, state, hard_state>>
  BY <1>8, ZenonT(60) DEF UpdateUser, SyncNoHc, nodeVars, hcVars
<1>9. LoadDowntimes \/ SyncLbPools \/ Receive \/ UNCHANGED vars
        => UNCHANGED <<admin_state, config, state, hard_state>>
  BY DEF LoadDowntimes, SyncLbPools, Receive, vars, nodeVars, hcVars
<1> QED
  BY <1>2, <1>3, <1>4, <1>5, <1>6, <1>7, <1>8, <1>9, ZenonT(60) DEF Next, Main, Event

(* Whatever the order of check results and reloads, the admin state of     *)
(* every node is its configured one, unless a check drains an enabled node *)
(* that is down and has a check that is not up: node_logic() never drains  *)
(* over a configured state and ends each drain with its cause.             *)
THEOREM AdminStateFollowsConfig == Spec => []AdminFollowsConfig
<1>1. Init => AdminFollowsConfig
  BY DEF Init, AdminFollowsConfig
<1> QED
  BY <1>1, NextAdmin, TypeCorrect, PTL DEF Spec

-----------------------------------------------------------------------------
(* Node states.                                                            *)

LEMMA NextUp == TypeOK /\ UpMeansAllChecksUp /\ [Next]_vars => UpMeansAllChecksUp'
<1> SUFFICES ASSUME TypeOK, UpMeansAllChecksUp, [Next]_vars,
                    NEW g \in Checks,
                    admin_state'[parent_lbnode[g]] = "STATE_ENABLED",
                    state'[parent_lbnode[g]] = "STATE_UP"
             PROVE  hard_state'[g] = "STATE_UP"
  BY DEF UpMeansAllChecksUp, IsUp, IsEnabled
<1>0. parent_lbnode[g] \in Nodes
  BY LbPoolAssumption, ZenonT(60)
<1>1. ASSUME NEW p \in Pools, NEW inTable,
             NEW admin \in [nodes(p) -> ConfiguredAdminState],
             ConstructPool(p, inTable, admin)
      PROVE  hard_state'[g] = "STATE_UP"
  BY <1>0, <1>1 DEF ConstructPool, PfState, ConstructChecks, ConstructedState,
                    UpMeansAllChecksUp, IsUp, IsEnabled
<1>2. ASSUME NEW h \in Checks, NEW result \in HealthcheckResult, EndCheck(h, result)
      PROVE  hard_state'[g] = "STATE_UP"
  <2>1. CASE parent_lbnode[g] = parent_lbnode[h]
    <3>1. NodeLogic(parent_lbnode[g])
      BY <1>2, <2>1, ZenonT(60) DEF EndCheck
    <3>2. \A f \in healthchecks(parent_lbnode[g]) : hard_state'[f] = "STATE_UP"
      BY <1>0, <3>1, ZenonT(60) DEF NodeLogic, TypeOK
    <3> QED
      BY <3>2 DEF healthchecks
  <2>2. CASE parent_lbnode[g] # parent_lbnode[h]
    <3>1. parent_lbnode[h] \in Nodes /\ NodeLogic(parent_lbnode[h])
      BY <1>2, LbPoolAssumption, ZenonT(60) DEF EndCheck
    <3>2. /\ state'[parent_lbnode[g]] = state[parent_lbnode[g]]
          /\ admin_state'[parent_lbnode[g]] = admin_state[parent_lbnode[g]]
      BY <1>0, <2>2, <3>1, ZenonT(60) DEF NodeLogic, TypeOK
    <3>3. hard_state'[g] = hard_state[g]
      BY <1>2, <2>2, ZenonT(60) DEF EndCheck, HandleResult, TypeOK, HealthcheckTypeOK
    <3> QED
      BY <3>2, <3>3 DEF UpMeansAllChecksUp, IsUp, IsEnabled
  <2> QED
    BY <2>1, <2>2
<1>3. ASSUME NEW n \in Nodes, NEW admin \in ConfiguredAdminState,
             ChangeDowntime(n, admin)
      PROVE  hard_state'[g] = "STATE_UP"
  BY <1>0, <1>3, Zenon DEF ChangeDowntime, UpMeansAllChecksUp, IsUp, IsEnabled, TypeOK, hcVars
<1>4. CASE UNCHANGED <<state, admin_state, hard_state>>
  BY <1>4 DEF UpMeansAllChecksUp, IsUp, IsEnabled
<1>5. ASSUME NEW S \in SUBSET Checks, Schedule(S)
      PROVE  UNCHANGED <<state, admin_state, hard_state>>
  BY <1>5 DEF Schedule, ScheduleHealthchecks, nodeVars
<1>6. ASSUME NEW n \in Nodes, KeepDowntime(n)
      PROVE  UNCHANGED <<state, admin_state, hard_state>>
  BY <1>6 DEF KeepDowntime, nodeVars, hcVars
<1>7. ASSUME NEW p \in Pools, UpdateUser(p) \/ SyncNoHc(p)
      PROVE  UNCHANGED <<state, admin_state, hard_state>>
  BY <1>7, Zenon DEF UpdateUser, SyncNoHc, nodeVars, hcVars
<1>8. LoadDowntimes \/ SyncLbPools \/ Receive \/ UNCHANGED vars
        => UNCHANGED <<state, admin_state, hard_state>>
  BY DEF LoadDowntimes, SyncLbPools, Receive, vars, nodeVars, hcVars
<1> QED
  BY <1>1, <1>2, <1>3, <1>4, <1>5, <1>6, <1>7, <1>8, Zenon DEF Next, Main, Event

(* A node that counts as up has all of its checks up, across failures,     *)
(* drains, downtimes and restarts of the process.                          *)
THEOREM UpNodesPassAllChecks == Spec => []UpMeansAllChecksUp
<1>1. Init => UpMeansAllChecksUp
  BY LbPoolAssumption DEF Init, UpMeansAllChecksUp, IsUp, IsEnabled
<1> QED
  BY <1>1, NextUp, TypeCorrect, PTL DEF Spec

-----------------------------------------------------------------------------
(* Pool states.                                                            *)

(* A pool's turn in the running update_pfctl() loops is still to come.     *)
InCalls(q) == \E i \in 1 .. Len(calls) : calls[i] = q

(* The caller of pool_logic() takes the flag of max_nodes from nodes that  *)
(* are not up, and from every one that was up until then.                  *)
FlagsFollow(p, kept) ==
  /\ kept \subseteq max_nodes_kept
  /\ \A n \in max_nodes_kept \ kept : ~IsUp(n)'
  /\ p \in created => \A n \in kept : IsUp(n) => IsUp(n)'

(* pool_logic() runs for p, in a fresh callback or at p's turn in a loop,  *)
(* and only nodes of p have changed before it.                             *)
LogicRuns(p) ==
  /\ \E last \in Nodes \cup {NoNode}, kept \in SUBSET Nodes,
        forced \in SUBSET Nodes : PoolLogic(p, last, kept, forced) /\ FlagsFollow(p, kept)
  /\ calls = <<>> \/ p = Head(calls)
  /\ \A n \in Nodes \ nodes(p) :
       admin_state'[n] = admin_state[n] /\ state'[n] = state[n]
  /\ \/ created' = created \cup {p}
     \/ /\ created' = created
        /\ created = Pools \/ reload # {} \/ UNCHANGED <<state, admin_state>>

(* The pools stay as they are, and with them their nodes; no turn of a     *)
(* pool that uses its backup is skipped.                                   *)
PoolsRest ==
  /\ UNCHANGED <<up_nodes, pool_state, backup_pool_active, created>>
  /\ UNCHANGED <<admin_state, state, max_nodes_kept>>
  /\ \A q \in backup_pool_active : InCalls(q) => InCalls(q)'

LEMMA EndCheckPoolStep ==
  ASSUME TypeOK, NEW h \in Checks, NEW result \in HealthcheckResult,
         EndCheck(h, result)
  PROVE  PoolsRest \/ \E p \in Pools : LogicRuns(p)
<1> DEFINE n == parent_lbnode[h]
<1>1. /\ n \in Nodes /\ parent_lbpool[n] \in Pools /\ NodeLogic(n)
      /\ calls = <<>> /\ created = Pools /\ created' = created
  BY LbPoolAssumption, ZenonT(60) DEF EndCheck, Idle
<1> HIDE DEF n
<1> DEFINE all_up   == \A f \in healthchecks(n) : hard_state'[f] = "STATE_UP"
           draining == \E f \in healthchecks(n) : hard_state'[f] = "STATE_DRAIN"
           failed   == state[n] = "STATE_UP" /\ ~all_up
           passed   == state[n] = "STATE_DOWN" /\ all_up
<1>2. /\ state' = [state EXCEPT ![n] = IF all_up THEN "STATE_UP" ELSE "STATE_DOWN"]
      /\ admin_state' = [admin_state EXCEPT ![n] =
                           AdminAfterChecks(n, failed, passed, draining)]
      /\ IF failed \/ passed
         THEN PoolLogic(parent_lbpool[n], n,
                        IF failed THEN max_nodes_kept \ {n} ELSE max_nodes_kept,
                        IF passed THEN min_nodes_kept \ {n} ELSE min_nodes_kept)
         ELSE PoolLogicUnchanged(parent_lbpool[n])
  BY <1>1 DEF NodeLogic
<1> HIDE DEF all_up, draining
<1>3. CASE failed \/ passed
  <2> DEFINE kept   == IF failed THEN max_nodes_kept \ {n} ELSE max_nodes_kept
             forced == IF passed THEN min_nodes_kept \ {n} ELSE min_nodes_kept
  <2>1. kept \in SUBSET Nodes /\ forced \in SUBSET Nodes /\ PoolLogic(parent_lbpool[n], n, kept, forced)
    BY <1>2, <1>3, Zenon DEF TypeOK
  <2>2. \A m \in Nodes \ {n} : admin_state'[m] = admin_state[m] /\ state'[m] = state[m]
    BY <1>1, <1>2 DEF TypeOK
  <2>3. failed => state'[n] # "STATE_UP"
    BY <1>1, <1>2, ZenonT(60) DEF TypeOK
  <2>4. FlagsFollow(parent_lbpool[n], kept)
    <3>1. CASE failed
      BY <1>1, <2>2, <2>3, <3>1, ZenonT(60) DEF FlagsFollow, IsUp, IsEnabled, TypeOK
    <3>2. CASE ~failed
      BY <1>1, <1>3, <2>2, <3>2 DEF FlagsFollow, IsUp, IsEnabled, TypeOK
    <3> QED
      BY <3>1, <3>2, ZenonT(60)
  <2>5. n \in nodes(parent_lbpool[n])
    BY <1>1 DEF nodes
  <2> HIDE DEF kept, forced
  <2> QED
    BY <1>1, <2>1, <2>2, <2>4, <2>5, Zenon DEF LogicRuns
<1>4. CASE ~(failed \/ passed)
  <2>1. \A q : ~InCalls(q)
    BY <1>1, SMTT(60) DEF InCalls
  <2>2. admin_state' = admin_state
    BY <1>2, <1>4, ZenonT(60) DEF AdminAfterChecks, TypeOK
  <2>3. state' = state
    BY <1>1, <1>2, <1>4, ZenonT(60) DEF TypeOK, LbNodeState
  <2>4. PoolLogicUnchanged(parent_lbpool[n])
    BY <1>2, <1>4, ZenonT(60)
  <2> QED
    BY <1>1, <2>1, <2>2, <2>3, <2>4 DEF PoolLogicUnchanged, PoolsRest
<1> QED
  BY <1>3, <1>4

(* Every step computes one pool's wanted nodes anew, or none.              *)
LEMMA PoolStep ==
  ASSUME TypeOK, [Next]_vars
  PROVE  PoolsRest \/ \E p \in Pools : LogicRuns(p)
<1> USE DEF PoolsRest, InCalls
<1>1. ASSUME NEW p \in Pools \ created, NEW inTable,
             NEW admin \in [nodes(p) -> ConfiguredAdminState],
             ConstructPool(p, inTable, admin)
      PROVE  LogicRuns(p)
  <2>1. FlagsFollow(p, max_nodes_kept)
    BY <1>1 DEF FlagsFollow
  <2>2. PoolLogic(p, NoNode, max_nodes_kept, min_nodes_kept)
    BY <1>1, Zenon DEF ConstructPool
  <2>3. /\ \A n \in Nodes \ nodes(p) :
             admin_state'[n] = admin_state[n] /\ state'[n] = state[n]
        /\ calls = <<>> /\ created' = created \cup {p}
    BY <1>1, Zenon DEF ConstructPool, IsUp, IsEnabled
  <2> QED
    BY <2>1, <2>2, <2>3, ZenonT(60) DEF LogicRuns, TypeOK
<1>2. ASSUME NEW S \in SUBSET Checks, Schedule(S)
      PROVE  PoolsRest
  BY <1>2 DEF Schedule, nodeVars, poolVars
<1>3. ASSUME NEW n \in Nodes, KeepDowntime(n)
      PROVE  PoolsRest
  BY <1>3 DEF KeepDowntime, nodeVars, poolVars
<1>4. ASSUME NEW n \in Nodes, NEW admin \in ConfiguredAdminState,
             ChangeDowntime(n, admin)
      PROVE  \E p \in Pools : LogicRuns(p)
  <2> DEFINE kept == IF admin = "STATE_ENABLED" THEN max_nodes_kept
                     ELSE max_nodes_kept \ {n}
  <2>1. parent_lbpool[n] \in Pools /\ n \in nodes(parent_lbpool[n])
    BY LbPoolAssumption DEF nodes
  <2>2. \A m \in Nodes \ {n} : admin_state'[m] = admin_state[m] /\ state'[m] = state[m]
    BY <1>4 DEF ChangeDowntime, TypeOK
  <2>3. calls = <<>> /\ reload # {} /\ created' = created
    BY <1>4 DEF ChangeDowntime, NextToReload
  <2>4. PoolLogic(parent_lbpool[n], n, kept, min_nodes_kept)
    BY <1>4, ZenonT(60) DEF ChangeDowntime
  <2>5. FlagsFollow(parent_lbpool[n], kept)
    <3>1. admin_state'[n] = admin /\ admin_state[n] # admin
      BY <1>4 DEF ChangeDowntime, TypeOK
    <3> QED
      BY <2>2, <3>1, ZenonT(60) DEF FlagsFollow, IsUp, IsEnabled, TypeOK
  <2>6. kept \in SUBSET Nodes
    BY DEF TypeOK
  <2> HIDE DEF kept
  <2> QED
    BY <2>1, <2>2, <2>3, <2>4, <2>5, <2>6 DEF LogicRuns, TypeOK
<1>5. ASSUME NEW p \in Pools, UpdateUser(p)
      PROVE  PoolsRest \/ LogicRuns(p)
  <2>1. CASE p \in backup_pool_active
    <3>1. UNCHANGED <<state, admin_state, created>>
      BY <1>5 DEF UpdateUser
    <3>2. FlagsFollow(p, max_nodes_kept)
      BY <3>1 DEF FlagsFollow, IsUp, IsEnabled
    <3>3. PoolLogic(p, NoNode, max_nodes_kept, min_nodes_kept) /\ p = Head(calls)
      BY <1>5, <2>1 DEF UpdateUser
    <3> QED
      BY <3>1, <3>2, <3>3, Zenon DEF LogicRuns, TypeOK
  <2>2. CASE p \notin backup_pool_active
    <3>1. calls \in Seq(Pools) /\ calls # <<>> /\ p = calls[1] /\ calls' = Tail(calls)
      BY <1>5, <2>2 DEF UpdateUser, TypeOK
    <3>2. ASSUME NEW q \in backup_pool_active, NEW i \in 1 .. Len(calls), calls[i] = q
          PROVE  i - 1 \in 1 .. Len(calls') /\ calls'[i - 1] = q
      BY <2>2, <3>1, <3>2
    <3> QED
      BY <1>5, <2>2, <3>2 DEF UpdateUser, poolVars
  <2> QED
    BY <2>1, <2>2
<1>6. ASSUME NEW p \in Pools, SyncNoHc(p)
      PROVE  PoolsRest
  <2>1. calls = <<>>
    BY <1>6 DEF SyncNoHc
  <2> QED
    BY <1>6, <2>1 DEF SyncNoHc, nodeVars
<1>7. LoadDowntimes \/ SyncLbPools \/ Receive \/ UNCHANGED vars => PoolsRest
  BY ZenonT(60) DEF LoadDowntimes, SyncLbPools, Receive, vars, nodeVars, poolVars
<1> QED
  BY <1>1, <1>2, <1>3, <1>4, <1>5, <1>6, <1>7, EndCheckPoolStep, Zenon DEF Next, Main, Event

(* What pool_logic() leaves of the pools, with the loops taken together.   *)
LEMMA LogicOutcome ==
  ASSUME TypeOK, NEW p \in Pools, LogicRuns(p)
  PROVE  \E wanted \in SUBSET Nodes :
           /\ up_nodes' = [up_nodes EXCEPT ![p] = wanted]
           /\ pool_state' = [pool_state EXCEPT ![p] = PublishedState(p, wanted)]
           /\ calls' = Users[p] \o (IF calls = <<>> THEN <<>> ELSE Tail(calls))
           /\ \/ /\ backup_pool_active' = backup_pool_active \cup {p}
                 /\ backup_pool_name(p) \in Pools
                 /\ wanted = up_nodes[backup_pool_name(p)]
              \/ /\ backup_pool_active' = backup_pool_active \ {p}
                 /\ \A n \in wanted : n \in nodes(p) /\ admin_state'[n] = "STATE_ENABLED"
<1>1. PICK last \in Nodes \cup {NoNode}, kept \in SUBSET Nodes,
           forced \in SUBSET Nodes : PoolLogic(p, last, kept, forced)
  BY DEF LogicRuns
<1> DEFINE enabled   == {n \in nodes(p) : admin_state'[n] = "STATE_ENABLED"}
           up        == {n \in nodes(p) :
                           admin_state'[n] = "STATE_ENABLED" /\ state'[n] = "STATE_UP"}
           available == Available(p, up, kept)
           force     == ForceUp(p, last, available, up, enabled, forced)
           wanted    == WantedNodes(p, available, force.wanted)
<1>2. /\ up_nodes' = [up_nodes EXCEPT ![p] = wanted]
      /\ pool_state' = [pool_state EXCEPT ![p] = PublishedState(p, wanted)]
      /\ backup_pool_active' = IF UseBackup(p, available)
                               THEN backup_pool_active \cup {p}
                               ELSE backup_pool_active \ {p}
      /\ UpdatePfctl(p, wanted = up_nodes[p] /\ p \in pf_synced)
  BY <1>1, ZenonT(60) DEF PoolLogic, UpNodes, EnabledNodes, IsUp, IsEnabled
<1>3. calls' = Users[p] \o (IF calls = <<>> THEN <<>> ELSE Tail(calls))
  BY <1>2, ZenonT(60) DEF UpdatePfctl, MessageFor, CallsAfter
<1>4. up \subseteq enabled /\ enabled \subseteq Nodes
  BY Zenon DEF nodes
<1>5. \A n \in enabled : n \in nodes(p) /\ admin_state'[n] = "STATE_ENABLED"
  OBVIOUS
<1> HIDE DEF up, enabled
<1>6. available \subseteq enabled
  BY <1>4, AvailableAreUp, ZenonT(60)
<1> HIDE DEF available
<1>7. force.wanted \subseteq enabled
  BY <1>6, ForceUpPicksEnabled, Zenon
<1> HIDE DEF force
<1>8. CASE UseBackup(p, available)
  <2>1. backup_pool_name(p) \in Pools /\ wanted = up_nodes[backup_pool_name(p)]
    BY <1>8, ZenonT(60) DEF UseBackup, WantedNodes, TypeOK
  <2>2. wanted \in SUBSET Nodes
    BY <2>1 DEF TypeOK
  <2> HIDE DEF wanted
  <2> QED
    BY <1>2, <1>3, <1>8, <2>1, <2>2, Zenon
<1>9. CASE ~UseBackup(p, available)
  <2>1. wanted \subseteq enabled
    BY <1>6, <1>7, <1>9, Zenon DEF WantedNodes
  <2> HIDE DEF wanted
  <2> QED
    BY <1>2, <1>3, <1>4, <1>5, <1>9, <2>1, Zenon
<1> QED
  BY <1>8, <1>9, Zenon

LEMMA NextPublished == TypeOK /\ StatePublished /\ [Next]_vars => StatePublished'
<1> SUFFICES ASSUME TypeOK, StatePublished, [Next]_vars
             PROVE  StatePublished'
  OBVIOUS
<1>1. CASE PoolsRest
  BY <1>1 DEF PoolsRest, StatePublished
<1>2. ASSUME NEW p \in Pools, LogicRuns(p)
      PROVE  StatePublished'
  <2>1. PICK wanted \in SUBSET Nodes :
          /\ up_nodes' = [up_nodes EXCEPT ![p] = wanted]
          /\ pool_state' = [pool_state EXCEPT ![p] = PublishedState(p, wanted)]
    BY <1>2, LogicOutcome, Zenon
  <2> QED
    BY <2>1 DEF StatePublished, PublishedState, TypeOK
<1> QED
  BY <1>1, <1>2, PoolStep

(* The state that dump_status() publishes for BGP always tells whether the *)
(* pool has wanted nodes.                                                  *)
THEOREM StateIsPublished == Spec => []StatePublished
<1>1. Init => StatePublished
  BY DEF Init, StatePublished
<1> QED
  BY <1>1, NextPublished, TypeCorrect, PTL DEF Spec

(* At no moment, not even between the steps of a callback, does a pool     *)
(* that relies on its own nodes want one that is drained or in downtime,   *)
(* or another pool's.                                                      *)
OwnNodesEnabled ==
  \A p \in Pools \ backup_pool_active : up_nodes[p] \subseteq EnabledNodes(p)

LEMMA NextOwnNodes == TypeOK /\ OwnNodesEnabled /\ [Next]_vars => OwnNodesEnabled'
<1> USE DEF OwnNodesEnabled, EnabledNodes, IsEnabled
<1> SUFFICES ASSUME TypeOK, OwnNodesEnabled, [Next]_vars
             PROVE  OwnNodesEnabled'
  OBVIOUS
<1>1. CASE PoolsRest
  BY <1>1 DEF PoolsRest
<1>2. ASSUME NEW p \in Pools, LogicRuns(p), NEW q \in Pools \ backup_pool_active',
             NEW n \in up_nodes'[q]
      PROVE  n \in nodes(q) /\ admin_state'[n] = "STATE_ENABLED"
  <2>1. PICK wanted \in SUBSET Nodes :
          /\ up_nodes' = [up_nodes EXCEPT ![p] = wanted]
          /\ \/ backup_pool_active' = backup_pool_active \cup {p}
             \/ /\ backup_pool_active' = backup_pool_active \ {p}
                /\ \A m \in wanted : m \in nodes(p) /\ admin_state'[m] = "STATE_ENABLED"
    BY <1>2, LogicOutcome, ZenonT(60)
  <2>2. CASE q = p
    BY <1>2, <2>1, <2>2, ZenonT(60) DEF TypeOK
  <2>3. CASE q # p
    <3>1. n \in nodes(q) /\ admin_state[n] = "STATE_ENABLED"
      BY <1>2, <2>1, <2>3, ZenonT(60) DEF TypeOK
    <3>2. n \in Nodes \ nodes(p)
      BY <2>3, <3>1 DEF nodes
    <3> QED
      BY <1>2, <3>1, <3>2, ZenonT(60) DEF LogicRuns
  <2> QED
    BY <2>2, <2>3, ZenonT(60)
<1> QED
  BY <1>1, <1>2, PoolStep

(* A pool that relies on its own nodes never wants one that is drained or  *)
(* in downtime, at any point of any callback: a part of what pool_logic()  *)
(* promises, here without counting nodes.                                  *)
LEMMA NoDowntimedNodeWanted == Spec => []OwnNodesEnabled
<1> USE DEF OwnNodesEnabled, EnabledNodes, IsEnabled
<1>1. Init => OwnNodesEnabled
  BY ZenonT(60) DEF Init
<1> QED
  BY <1>1, NextOwnNodes, TypeCorrect, PTL DEF Spec

-----------------------------------------------------------------------------
(* Backup pools.                                                           *)

(* The inductive form of BackupsInStep: in the middle of a callback a pool *)
(* that uses its backup wants the backup's nodes or has its turn to come.  *)
InStepOrInCalls ==
  \A p \in backup_pool_active :
    /\ backup_pool_name(p) \in Pools
    /\ up_nodes[p] = up_nodes[backup_pool_name(p)] \/ InCalls(p)

(* After pool_logic() of p the loop turns to all users of p, and then to   *)
(* whoever waited before.                                                  *)
LEMMA LogicKeepsCalls ==
  ASSUME TypeOK, NEW p \in Pools, NEW q \in Pools,
         calls = <<>> \/ p = Head(calls),
         calls' = Users[p] \o (IF calls = <<>> THEN <<>> ELSE Tail(calls))
  PROVE  /\ backup_pool_name(q) = p => InCalls(q)'
         /\ InCalls(q) /\ q # p => InCalls(q)'
<1> DEFINE rest == IF calls = <<>> THEN <<>> ELSE Tail(calls)
<1>1. Users[p] \in Seq(Pools) /\ calls \in Seq(Pools)
  BY LbPoolAssumption DEF TypeOK
<1>2. rest \in Seq(Pools) /\ calls' = Users[p] \o rest
  BY <1>1
<1>3. ASSUME backup_pool_name(q) = p
      PROVE  \E i \in 1 .. Len(Users[p]) : Users[p][i] = q
  BY <1>3, UsersAssumption DEF backup_pool_name
<1>4. ASSUME InCalls(q), q # p
      PROVE  \E i \in 1 .. Len(rest) : rest[i] = q
  <2>1. PICK i \in 1 .. Len(calls) : calls[i] = q
    BY <1>4 DEF InCalls
  <2>2. calls # <<>> /\ i # 1
    BY <1>1, <1>4, <2>1
  <2>3. i - 1 \in 1 .. Len(rest) /\ rest[i - 1] = q
    BY <1>1, <2>1, <2>2
  <2> QED
    BY <2>3, Zenon
<1> HIDE DEF rest
<1>5. ASSUME \/ \E i \in 1 .. Len(Users[p]) : Users[p][i] = q
             \/ \E i \in 1 .. Len(rest) : rest[i] = q
      PROVE  InCalls(q)'
  <2> DEFINE users == Users[p]
  <2>1. /\ users \in Seq(Pools)
        /\ \/ \E i \in 1 .. Len(users) : users[i] = q
           \/ \E i \in 1 .. Len(rest) : rest[i] = q
        /\ calls' = users \o rest
    BY <1>1, <1>2, <1>5, Zenon
  <2> HIDE DEF users
  <2> DEFINE all == users \o rest
  <2>2. /\ Len(users) \in Nat /\ Len(rest) \in Nat
        /\ Len(all) = Len(users) + Len(rest)
        /\ \A i \in 1 .. Len(users) + Len(rest) :
             all[i] = IF i <= Len(users) THEN users[i] ELSE rest[i - Len(users)]
    BY <1>2, <2>1, ConcatProperties
  <2> HIDE DEF all
  <2>3. ASSUME NEW i \in 1 .. Len(users), users[i] = q
        PROVE  i \in 1 .. Len(all) /\ all[i] = q
    BY <2>2, <2>3
  <2>4. ASSUME NEW i \in 1 .. Len(rest), rest[i] = q
        PROVE  Len(users) + i \in 1 .. Len(all) /\ all[Len(users) + i] = q
    <3> DEFINE j == Len(users) + i
    <3>1. /\ j \in 1 .. Len(users) + Len(rest)
          /\ ~(j <= Len(users)) /\ j - Len(users) = i
      BY <2>2
    <3> HIDE DEF j
    <3>2. j \in 1 .. Len(all) /\ all[j] = rest[j - Len(users)]
      BY <2>2, <3>1, ZenonT(60)
    <3> QED
      BY <2>4, <3>1, <3>2 DEF j
  <2>5. \E i \in 1 .. Len(all) : all[i] = q
    BY <2>1, <2>3, <2>4
  <2> QED
    BY <2>1, <2>5, Zenon DEF InCalls, all
<1> QED
  BY <1>3, <1>4, <1>5, ZenonT(60)

LEMMA NextInStep == TypeOK /\ InStepOrInCalls /\ [Next]_vars => InStepOrInCalls'
<1> SUFFICES ASSUME TypeOK, InStepOrInCalls, [Next]_vars,
                    NEW q \in backup_pool_active'
             PROVE  /\ backup_pool_name(q) \in Pools
                    /\ \/ up_nodes'[q] = up_nodes'[backup_pool_name(q)]
                       \/ InCalls(q)'
  BY DEF InStepOrInCalls
<1>1. CASE PoolsRest
  BY <1>1 DEF PoolsRest, InStepOrInCalls, InCalls
<1>2. ASSUME NEW p \in Pools, LogicRuns(p)
      PROVE  /\ backup_pool_name(q) \in Pools
             /\ \/ up_nodes'[q] = up_nodes'[backup_pool_name(q)]
                \/ InCalls(q)'
  <2>1. PICK wanted \in SUBSET Nodes :
          /\ up_nodes' = [up_nodes EXCEPT ![p] = wanted]
          /\ calls' = Users[p] \o (IF calls = <<>> THEN <<>> ELSE Tail(calls))
          /\ \/ /\ backup_pool_active' = backup_pool_active \cup {p}
                /\ backup_pool_name(p) \in Pools
                /\ wanted = up_nodes[backup_pool_name(p)]
             \/ backup_pool_active' = backup_pool_active \ {p}
    BY <1>2, LogicOutcome, ZenonT(60)
  <2>2. CASE q = p
    BY <2>1, <2>2, ZenonT(60) DEF TypeOK
  <2>3. CASE q # p
    <3>1. /\ q \in Pools /\ backup_pool_name(q) \in Pools
          /\ up_nodes[q] = up_nodes[backup_pool_name(q)] \/ InCalls(q)
      BY <2>1, <2>3 DEF InStepOrInCalls, TypeOK
    <3>2. /\ backup_pool_name(q) = p => InCalls(q)'
          /\ InCalls(q) => InCalls(q)'
      BY <1>2, <2>1, <2>3, <3>1, LogicKeepsCalls, Zenon DEF LogicRuns
    <3> QED
      BY <2>1, <2>3, <3>1, <3>2, ZenonT(60) DEF TypeOK
  <2> QED
    BY <2>2, <2>3
<1> QED
  BY <1>1, <1>2, PoolStep, ZenonT(60)

LEMMA InStepOrInCallsHolds == Spec => []InStepOrInCalls
<1>1. Init => InStepOrInCalls
  BY DEF Init, InStepOrInCalls
<1> QED
  BY <1>1, NextInStep, TypeCorrect, PTL DEF Spec

(* No user of a backup pool is left behind: between callbacks every pool   *)
(* that uses its backup wants exactly the backup's nodes, for any number   *)
(* of pools and any chains of backups between them.                        *)
THEOREM UsersFollowTheirBackup == Spec => []BackupsInStep
<1>1. InStepOrInCalls => BackupsInStep
  BY DEF InStepOrInCalls, BackupsInStep, InCalls, Idle
<1> QED
  BY <1>1, InStepOrInCallsHolds, PTL
=============================================================================
