------------------------------- MODULE LbPool -------------------------------
(***************************************************************************)
(* The core of testtool: LB Nodes, the LB Pools they form, and the events  *)
(* of the single-threaded main process that move them (lb_node.cpp,        *)
(* lb_pool.cpp, the callbacks of testtool.cpp), up to the message that     *)
(* hands a pool's wanted nodes to the pfctl worker.                        *)
(*                                                                         *)
(* A callback runs to its end before the next one starts, but the worker   *)
(* empties the queue meanwhile, and whether a message is accepted decides  *)
(* pf_synced.  A callback that may send several messages is therefore a    *)
(* series of steps, one per pool_logic() or update_pfctl() call, and the   *)
(* rest of the callback is kept in calls, reload and sweep.                *)
(***************************************************************************)
EXTENDS Healthcheck, Integers, FiniteSets, Sequences

CONSTANTS
  Nodes,          \* LB Nodes, numbered in the order of set<LbNode *>
  Pools,          \* LB Pools, numbered in the order of their names
  parent_lbnode,  \* the LB Node of each check
  parent_lbpool,  \* the LB Pool of each LB Node
  ConfigStates,   \* the words used as "state" of a node in the configuration
  PoolConfig,     \* the configuration of each LB Pool
  Users,          \* the pools that name a pool as backup_pool, by name
  NoPool,         \* backup_pool of a pool that names none, or a missing one
  NoNode,         \* NULL as last_node
  QUEUE_LEN,      \* messages the queue to the worker holds
  MAX_NODES       \* LB Nodes that fit into a message

PoolConfigType ==
  [min_nodes : Nat, max_nodes : Nat, min_nodes_action : STRING,
   backup_pool : Pools \cup {NoPool}, health_checks : BOOLEAN]

ASSUME LbPoolAssumption ==
  /\ Nodes \subseteq Nat /\ IsFiniteSet(Nodes) /\ NoNode \notin Nodes
  /\ Pools \subseteq Nat /\ IsFiniteSet(Pools) /\ NoPool \notin Pools
  /\ parent_lbnode \in [Checks -> Nodes]
  /\ parent_lbpool \in [Nodes -> Pools]
  /\ "online" \in ConfigStates
  /\ PoolConfig \in [Pools -> PoolConfigType]
  /\ Users \in [Pools -> Seq(Pools)]
  /\ QUEUE_LEN \in Nat \ {0}
  /\ MAX_NODES \in Nat

(* Users lists every pool under its backup pool, in the order in which     *)
(* update_pfctl() meets them.                                              *)
ASSUME UsersAssumption ==
  \A p \in Pools :
    /\ \A q \in Pools :
         PoolConfig[q].backup_pool = p <=> \E i \in 1 .. Len(Users[p]) : Users[p][i] = q
    /\ \A i, j \in 1 .. Len(Users[p]) : i < j => Users[p][i] < Users[p][j]

-----------------------------------------------------------------------------
(* What the constructors derive from the configuration.                    *)

nodes(p) == {n \in Nodes : parent_lbpool[n] = p}
healthchecks(n) == {h \in Checks : parent_lbnode[h] = n}

backup_pool_name(p) == PoolConfig[p].backup_pool
has_hcs(p) == PoolConfig[p].health_checks

fault_policy_from_string(s) ==
  IF s = "force_up" THEN "FORCE_UP"
  ELSE IF s = "backup_pool" THEN "BACKUP_POOL" ELSE "FORCE_DOWN"

(* A pool without health checks keeps all of its nodes up, whatever else   *)
(* is configured; naming a backup pool overrides min_nodes_action.         *)
fault_policy(p) ==
  IF ~has_hcs(p) THEN "FORCE_UP"
  ELSE IF backup_pool_name(p) # NoPool THEN "BACKUP_POOL"
  ELSE fault_policy_from_string(PoolConfig[p].min_nodes_action)

min_nodes(p) ==
  IF has_hcs(p) THEN PoolConfig[p].min_nodes ELSE Cardinality(nodes(p))

max_nodes(p) ==
  LET max == PoolConfig[p].max_nodes
  IN  IF 0 < max /\ max < min_nodes(p) THEN min_nodes(p) ELSE max

admin_state_from_config(s) ==
  IF s = "deploy_offline" THEN "STATE_DRAIN_HARD"
  ELSE IF s \in {"maintenance", "cold_standby", "retired"}
       THEN "STATE_DOWNTIME" ELSE "STATE_ENABLED"

ConfiguredAdminState == {admin_state_from_config(s) : s \in ConfigStates}

LbNodeState == {"STATE_DOWN", "STATE_UP"}
LbNodeAdminState == {"STATE_DRAIN_HARD", "STATE_DRAIN_SOFT",
                     "STATE_DOWNTIME", "STATE_ENABLED"}
-----------------------------------------------------------------------------
VARIABLES
  created,             \* lb_pools: the pools constructed so far
  state,               \* of each LB Node, from its health checks
  admin_state,         \* of each LB Node, from its configuration and drains
  min_nodes_kept,      \* LB Nodes forced up to meet min_nodes
  max_nodes_kept,      \* LB Nodes that were let in under max_nodes
  up_nodes,            \* the LB Nodes each pool wants to get traffic
  pool_state,          \* LbPool::state, published for BGP
  backup_pool_active,  \* pools that use the nodes of their backup pool
  pf_synced,           \* pools whose up_nodes were handed to the worker
  mq,                  \* the queue to the worker
  calls,               \* pools whose turn in update_pfctl()'s loop is to come
  reload,              \* LB Nodes load_downtimes() has still to visit
  sweep,               \* pools sync_lbpools_without_healthchecks() has left
  aborted,             \* the main process is gone; in this module because
                       \* an assertion of send_message() failed
  config               \* history: what the configuration said of each node
                       \* when it was last read

nodeVars == <<state, admin_state, min_nodes_kept, max_nodes_kept>>
poolVars == <<up_nodes, pool_state, backup_pool_active, pf_synced>>
vars == <<hcVars, nodeVars, poolVars, created, mq, calls, reload, sweep,
          aborted, config>>

Message ==
  [pool : Pools, up : SUBSET Nodes,
   admin : UNION {[nodes(p) -> LbNodeAdminState] : p \in Pools}]

(* Every variable keeps its type and the queue its length.                 *)
TypeOK ==
  /\ HealthcheckTypeOK
  /\ created \subseteq Pools
  /\ state \in [Nodes -> LbNodeState]
  /\ admin_state \in [Nodes -> LbNodeAdminState]
  /\ min_nodes_kept \subseteq Nodes
  /\ max_nodes_kept \subseteq Nodes
  /\ up_nodes \in [Pools -> SUBSET Nodes]
  /\ pool_state \in [Pools -> LbNodeState]
  /\ backup_pool_active \subseteq Pools
  /\ pf_synced \subseteq Pools
  /\ mq \in Seq(Message) /\ Len(mq) <= QUEUE_LEN
  /\ calls \in Seq(Pools)
  /\ reload \subseteq Nodes
  /\ sweep \subseteq Pools
  /\ aborted \in BOOLEAN
  /\ config \in [Nodes -> ConfiguredAdminState]

-----------------------------------------------------------------------------
(* The wanted nodes of LbPool::pool_logic(), loop by loop.  Each loop over *)
(* a set<LbNode *> runs in node order and stops at a size, which makes its *)
(* effect the first k members of a set.                                    *)

TakeFirst(S, k) == {n \in S : Cardinality({m \in S : m < n}) < k}

IsEnabled(n) == admin_state[n] = "STATE_ENABLED"

(* Mutant: a downtime is forgotten.                                        *)
IsUp_IgnoresDowntime(n) == state[n] = "STATE_UP"

(* LbNode::is_up() *)
IsUp(n) == IsEnabled(n) /\ state[n] = "STATE_UP"

UpNodes(p) == {n \in nodes(p) : IsUp(n)}
EnabledNodes(p) == {n \in nodes(p) : IsEnabled(n)}

(* First loop: up nodes that were let in before, until max_nodes is full.  *)
PreviouslyWanted(p, up, kept) ==
  IF max_nodes(p) = 0 THEN up \cap kept ELSE TakeFirst(up \cap kept, max_nodes(p))

(* Second loop: other up nodes, into the room that is left.                *)
NewlyWanted(p, up, kept) ==
  IF max_nodes(p) = 0 THEN up \ kept
  ELSE TakeFirst(up \ kept,
                 max_nodes(p) - Cardinality(PreviouslyWanted(p, up, kept)))

(* Mutant: one loop over all up nodes, without the memory of who was in.   *)
Available_FirstUp(p, up, kept) ==
  IF max_nodes(p) = 0 THEN up ELSE TakeFirst(up, max_nodes(p))

(* What the two loops leave in wanted_nodes.                               *)
Available(p, up, kept) ==
  PreviouslyWanted(p, up, kept) \cup NewlyWanted(p, up, kept)

(* Mutant: min_nodes is taken as exclusive.                                *)
TooFew_Exclusive(p, wanted) ==
  min_nodes(p) > 0 /\ Cardinality(wanted) <= min_nodes(p)

(* Does min_nodes ask for more?                                            *)
TooFew(p, wanted) == min_nodes(p) > 0 /\ Cardinality(wanted) < min_nodes(p)

(* FORCE_UP, first the node that changed last, if it is down and enabled.  *)
RecentlyChanged(last, up, enabled) == {last} \cap (enabled \ up)

(* Then candidates that were forced up before ...                          *)
ForcedAgain(p, wanted, candidates, forced) ==
  TakeFirst((candidates \cap forced) \ wanted, min_nodes(p) - Cardinality(wanted))

(* Mutant: the last loop stops one node too late.                          *)
ForcedAny_OneMore(p, wanted, candidates) ==
  {c \in candidates :
     Cardinality(wanted) + Cardinality({d \in candidates \ wanted : d < c})
       <= min_nodes(p)}

(* ... and then any candidates.  The loop marks the candidates it meets,   *)
(* those that are wanted already included, until enough are wanted.        *)
ForcedAny(p, wanted, candidates) ==
  {c \in candidates :
     Cardinality(wanted) + Cardinality({d \in candidates \ wanted : d < c})
       < min_nodes(p)}

(* The nodes FORCE_UP wants in the end, and the nodes it marks as kept.    *)
ForceUp(p, last, available, up, enabled, forced) ==
  LET recent  == RecentlyChanged(last, up, enabled)
      rest    == enabled \ {last}
      wanted1 == available \cup recent
      wanted2 == wanted1 \cup ForcedAgain(p, wanted1, rest, forced)
      any     == ForcedAny(p, wanted2, rest)
  IN  [wanted |-> wanted2 \cup any, kept |-> forced \cup recent \cup any]

-----------------------------------------------------------------------------
(* The queue end of the main process.                                      *)

(* Mutant: update_pfctl() without its loop.                                *)
CallsAfter_NoUsers(p) == IF calls = <<>> THEN <<>> ELSE Tail(calls)

(* The part of the running update_pfctl() loops that is left, and then the *)
(* pools that use p as their backup.                                       *)
CallsAfter(p) == Users[p] \o (IF calls = <<>> THEN <<>> ELSE Tail(calls))

(* The message of send_message(): of the pool's own nodes, those wanted up *)
(* and how each is to be taken down.                                       *)
MessageFor(p) ==
  [pool |-> p, up |-> up_nodes[p] \cap nodes(p),
   admin |-> [n \in nodes(p) |-> admin_state[n]]]

(* Mutant: the result of try_send() is ignored.                            *)
UpdatePfctl_IgnoresFull(p, synced) ==
  /\ mq' = IF ~synced /\ Len(mq) < QUEUE_LEN THEN Append(mq, MessageFor(p)') ELSE mq
  /\ pf_synced' = pf_synced \cup {p}
  /\ calls' = CallsAfter(p)
  /\ UNCHANGED aborted

(* LbPool::update_pfctl() with send_message(): try_send() fails on a full  *)
(* queue, the assertions stop the process.                                 *)
UpdatePfctl(p, synced) ==
  LET fits == /\ Cardinality(nodes(p)) < MAX_NODES
              /\ Cardinality(up_nodes'[p]) < MAX_NODES
      sent == ~synced /\ fits /\ Len(mq) < QUEUE_LEN
  IN  /\ mq' = IF sent THEN Append(mq, MessageFor(p)') ELSE mq
      /\ pf_synced' = IF synced \/ sent THEN pf_synced \cup {p} ELSE pf_synced \ {p}
      /\ aborted' = (~synced /\ ~fits)
      /\ calls' = CallsAfter(p)

(* The switch on fault_policy, and the nodes wanted after it.              *)
UseBackup(p, available) ==
  /\ TooFew(p, available)
  /\ fault_policy(p) = "BACKUP_POOL"
  /\ backup_pool_name(p) \in created

(* Mutant: a pool that recovered keeps the nodes of its backup.            *)
WantedNodes_StaysOnBackup(p, available, forceUp) ==
  IF p \in backup_pool_active \/ UseBackup(p, available)
  THEN up_nodes[backup_pool_name(p)]
  ELSE IF TooFew(p, available) /\ fault_policy(p) = "FORCE_DOWN" THEN {}
  ELSE available

(* wanted_nodes after the switch; forceUp is what FORCE_UP makes of it.    *)
WantedNodes(p, available, forceUp) ==
  IF ~TooFew(p, available) THEN available
  ELSE IF fault_policy(p) = "FORCE_DOWN" THEN {}
  ELSE IF fault_policy(p) = "FORCE_UP" THEN forceUp
  ELSE IF UseBackup(p, available) THEN up_nodes[backup_pool_name(p)]
  ELSE available

PublishedState(p, wanted) ==
  IF wanted = up_nodes[p] THEN pool_state[p]
  ELSE IF wanted = {} THEN "STATE_DOWN" ELSE "STATE_UP"

(* LbPool::pool_logic() when there is no last node or its state_changed is *)
(* set: the wanted nodes are computed anew.  kept and forced are the flags *)
(* of the nodes as the caller left them.  (A \E over a set of one element  *)
(* names a value, which TLC then computes once.)                           *)
PoolLogic(p, last, kept, forced) ==
  \E up \in {UpNodes(p)'}, enabled \in {EnabledNodes(p)'} :
  \E available \in {Available(p, up, kept)} :
  \E force \in {ForceUp(p, last, available, up, enabled, forced)} :
  \E wanted \in {WantedNodes(p, available, force.wanted)} :
    /\ max_nodes_kept' = kept \cup NewlyWanted(p, up, kept)
    /\ min_nodes_kept' = IF TooFew(p, available) /\ fault_policy(p) = "FORCE_UP"
                         THEN force.kept ELSE forced
    /\ backup_pool_active' = IF UseBackup(p, available)
                             THEN backup_pool_active \cup {p}
                             ELSE backup_pool_active \ {p}
    /\ up_nodes' = [up_nodes EXCEPT ![p] = wanted]
    /\ pool_state' = [pool_state EXCEPT ![p] = PublishedState(p, wanted)]
    /\ UpdatePfctl(p, wanted = up_nodes[p] /\ p \in pf_synced)

(* Mutant: nothing is sent unless something changed.                       *)
PoolLogicUnchanged_NoRetry(p) ==
  UNCHANGED <<min_nodes_kept, max_nodes_kept, poolVars, mq, aborted, calls>>

(* LbPool::pool_logic() called for a node that did not change.             *)
PoolLogicUnchanged(p) ==
  /\ UNCHANGED <<min_nodes_kept, max_nodes_kept, up_nodes, pool_state,
                 backup_pool_active>>
  /\ UpdatePfctl(p, p \in pf_synced)

-----------------------------------------------------------------------------
(* The events of the main process.                                         *)

(* No callback is in the middle of its work and the main loop runs.        *)
Idle ==
  /\ ~aborted /\ created = Pools
  /\ calls = <<>> /\ reload = {} /\ sweep = {}

Init ==
  /\ hard_state = [h \in Checks |-> "STATE_DOWN"]
  /\ failure_counter = [h \in Checks |-> 0]
  /\ is_running = {}
  /\ state = [n \in Nodes |-> "STATE_DOWN"]
  /\ admin_state = [n \in Nodes |-> "STATE_ENABLED"]
  /\ min_nodes_kept = {} /\ max_nodes_kept = {}
  /\ up_nodes = [p \in Pools |-> {}]
  /\ pool_state = [p \in Pools |-> "STATE_DOWN"]
  /\ backup_pool_active = {} /\ pf_synced = {} /\ created = {}
  /\ mq = <<>> /\ calls = <<>> /\ reload = {} /\ sweep = {}
  /\ aborted = FALSE
  /\ config = [n \in Nodes |-> "STATE_ENABLED"]

(* LbNode::LbNode() reads the initial state of a node from pf.             *)
PfState(n, inTable) == IF n \in inTable THEN "STATE_UP" ELSE "STATE_DOWN"

(* load_config() builds the next pool: its LB Nodes, up when pf has them   *)
(* in the pool's table (inTable), their checks, and the first pool_logic().*)
(* The pool enters lb_pools after its constructor.                         *)
ConstructPool(p, inTable, admin) ==
  /\ ~aborted /\ calls = <<>>
  /\ \A q \in Pools \ created : p <= q
  /\ state' = [n \in Nodes |->
       IF n \in nodes(p) THEN PfState(n, inTable) ELSE state[n]]
  /\ admin_state' = [n \in Nodes |->
       IF n \in nodes(p) THEN admin[n] ELSE admin_state[n]]
  /\ config' = [n \in Nodes |-> IF n \in nodes(p) THEN admin[n] ELSE config[n]]
  /\ ConstructChecks({h \in Checks : parent_lbnode[h] \in nodes(p)},
                     {h \in Checks : IsUp(parent_lbnode[h])'})
  /\ PoolLogic(p, NoNode, max_nodes_kept, min_nodes_kept)
  /\ created' = created \cup {p}
  /\ UNCHANGED <<reload, sweep>>

(* healthcheck_scheduler_callback(): the due checks S start, those of      *)
(* nodes in a downtime included.                                           *)
Schedule(S) ==
  /\ Idle
  /\ ScheduleHealthchecks(S)
  /\ UNCHANGED <<nodeVars, poolVars, created, mq, calls, reload, sweep,
                 aborted, config>>

(* Mutant: a drain overrides a configured downtime.                        *)
AdminAfterChecks_DrainsAll(n, failed, passed, draining) ==
  IF failed /\ draining THEN "STATE_DRAIN_SOFT"
  ELSE IF passed /\ admin_state[n] = "STATE_DRAIN_SOFT" THEN "STATE_ENABLED"
  ELSE admin_state[n]

(* A drain asked for by a check starts and ends with the node's state.     *)
AdminAfterChecks(n, failed, passed, draining) ==
  IF failed /\ draining /\ admin_state[n] = "STATE_ENABLED"
  THEN "STATE_DRAIN_SOFT"
  ELSE IF passed /\ admin_state[n] = "STATE_DRAIN_SOFT" THEN "STATE_ENABLED"
  ELSE admin_state[n]

(* LbNode::node_logic(), called when a check of the node ended, so that    *)
(* the early return for a node without any ended check is never taken.     *)
NodeLogic(n) ==
  LET all_up   == \A h \in healthchecks(n) : hard_state'[h] = "STATE_UP"
      draining == \E h \in healthchecks(n) : hard_state'[h] = "STATE_DRAIN"
      failed   == state[n] = "STATE_UP" /\ ~all_up
      passed   == state[n] = "STATE_DOWN" /\ all_up
  IN  /\ state' = [state EXCEPT ![n] = IF all_up THEN "STATE_UP" ELSE "STATE_DOWN"]
      /\ admin_state' = [admin_state EXCEPT ![n] =
                           AdminAfterChecks(n, failed, passed, draining)]
      /\ IF failed \/ passed
         THEN PoolLogic(parent_lbpool[n], n,
                        IF failed THEN max_nodes_kept \ {n} ELSE max_nodes_kept,
                        IF passed THEN min_nodes_kept \ {n} ELSE min_nodes_kept)
         ELSE PoolLogicUnchanged(parent_lbpool[n])

(* Healthcheck::end_check(), from the callback of the check's type.        *)
EndCheck(h, result) ==
  /\ Idle
  /\ h \in is_running
  /\ HandleResult(h, LastState(result))
  /\ NodeLogic(parent_lbnode[h])
  /\ UNCHANGED <<created, reload, sweep, config>>

(* schedule_healthchecks() after SIGUSR1: load_downtimes() reads the file  *)
(* and starts on the nodes of all pools.  The checks that are due start    *)
(* after it, if there are any (Schedule).                                  *)
LoadDowntimes ==
  /\ Idle
  /\ reload' = Nodes
  /\ UNCHANGED <<hcVars, nodeVars, poolVars, created, mq, calls, sweep,
                 aborted, config>>

(* The node load_downtimes() visits next: pools by name, nodes in order.   *)
NextToReload(n) ==
  /\ ~aborted /\ calls = <<>>
  /\ n \in reload
  /\ \A m \in reload : \/ parent_lbpool[n] < parent_lbpool[m]
                       \/ parent_lbpool[n] = parent_lbpool[m] /\ n <= m

(* The node or its pool is gone from the file, or its admin state is the   *)
(* one the node has: nothing happens.                                      *)
KeepDowntime(n) ==
  /\ NextToReload(n)
  /\ reload' = reload \ {n}
  /\ \/ UNCHANGED config
     \/ /\ admin_state[n] \in ConfiguredAdminState
        /\ config' = [config EXCEPT ![n] = admin_state[n]]
  /\ UNCHANGED <<hcVars, nodeVars, poolVars, created, mq, calls, sweep, aborted>>

(* Mutant: the end of a downtime leaves the node's old state in place.     *)
ChangeDowntime_KeepsState(n, admin) ==
  /\ NextToReload(n)
  /\ admin # admin_state[n]
  /\ admin_state' = [admin_state EXCEPT ![n] = admin]
  /\ config' = [config EXCEPT ![n] = admin]
  /\ UNCHANGED <<hcVars, state, created, sweep>>
  /\ PoolLogic(parent_lbpool[n], n, max_nodes_kept \ {n}, min_nodes_kept)
  /\ reload' = reload \ {n}

(* LbNode::change_downtime() to another admin state: the end of a downtime *)
(* leaves the node down until a check of it ends.                          *)
ChangeDowntime(n, admin) ==
  /\ NextToReload(n)
  /\ admin # admin_state[n]
  /\ state' = [state EXCEPT ![n] = IF admin = "STATE_ENABLED" THEN "STATE_DOWN" ELSE @]
  /\ admin_state' = [admin_state EXCEPT ![n] = admin]
  /\ config' = [config EXCEPT ![n] = admin]
  /\ PoolLogic(parent_lbpool[n], n,
               IF admin = "STATE_ENABLED" THEN max_nodes_kept ELSE max_nodes_kept \ {n},
               min_nodes_kept)
  /\ reload' = reload \ {n}
  /\ UNCHANGED <<hcVars, created, sweep>>

(* The loop of update_pfctl() meets a pool that names this one as backup:  *)
(* its own logic runs if it uses the backup at this moment.                *)
UpdateUser(p) ==
  /\ ~aborted /\ calls # <<>>
  /\ p = Head(calls)
  /\ UNCHANGED <<hcVars, state, admin_state, created, reload, sweep, config>>
  /\ IF p \in backup_pool_active
     THEN PoolLogic(p, NoNode, max_nodes_kept, min_nodes_kept)
     ELSE /\ calls' = Tail(calls)
          /\ UNCHANGED <<min_nodes_kept, max_nodes_kept, poolVars, mq, aborted>>

(* lbpool_syncer_callback() starts on the pools without health checks.     *)
SyncLbPools ==
  /\ Idle
  /\ \E p \in Pools : ~has_hcs(p)
  /\ sweep' = {p \in Pools : ~has_hcs(p)}
  /\ UNCHANGED <<hcVars, nodeVars, poolVars, created, mq, calls, reload,
                 aborted, config>>

(* LbPool::sync_no_hc() of the next one: only an unsynced pool is sent.    *)
SyncNoHc(p) ==
  /\ ~aborted /\ calls = <<>>
  /\ p \in sweep /\ \A q \in sweep : p <= q
  /\ sweep' = sweep \ {p}
  /\ UNCHANGED <<hcVars, nodeVars, up_nodes, pool_state, backup_pool_active,
                 created, reload, config>>
  /\ IF p \in pf_synced
     THEN UNCHANGED <<pf_synced, mq, calls, aborted>>
     ELSE UpdatePfctl(p, FALSE)

(* The worker process takes a message (pfctl_worker_loop).                 *)
Receive ==
  /\ mq # <<>>
  /\ mq' = Tail(mq)
  /\ UNCHANGED <<hcVars, nodeVars, poolVars, created, calls, reload, sweep,
                 aborted, config>>

(* The callbacks of the main loop.                                         *)
Event ==
  \/ \E S \in SUBSET Checks : Schedule(S)
  \/ \E h \in Checks, result \in HealthcheckResult : EndCheck(h, result)
  \/ LoadDowntimes
  \/ \E n \in Nodes : KeepDowntime(n)
  \/ \E n \in Nodes, admin \in ConfiguredAdminState : ChangeDowntime(n, admin)
  \/ \E p \in Pools : UpdateUser(p)
  \/ SyncLbPools
  \/ \E p \in Pools : SyncNoHc(p)

Main ==
  \/ \E p \in Pools \ created :
       \E inTable \in SUBSET nodes(p),
          admin \in [nodes(p) -> ConfiguredAdminState] :
         ConstructPool(p, inTable, admin)
  \/ Event

Next == Main \/ Receive

Spec == Init /\ [][Next]_vars

-----------------------------------------------------------------------------
(* Properties.                                                             *)

(* The admin state of a node is what the configuration said when it was    *)
(* last read, unless a check drains it: then the node is configured as     *)
(* enabled, it is down, and some check of it still is not up.  A drain     *)
(* (node_logic) thus never stands in for a configured downtime or drain,   *)
(* and it ends with its cause.  Nothing is said of how long it lasts: a    *)
(* change_downtime() ends a drain whose cause is still there.              *)
DrainedByChecks(n) ==
  /\ admin_state[n] = "STATE_DRAIN_SOFT" /\ config[n] = "STATE_ENABLED"
  /\ state[n] = "STATE_DOWN"
  /\ \E h \in healthchecks(n) : hard_state[h] # "STATE_UP"

AdminFollowsConfig ==
  \A n \in Nodes : admin_state[n] = config[n] \/ DrainedByChecks(n)

(* A node that counts as up has no check that does not: not when one of    *)
(* its checks failed long ago and another passes (node_logic), and not     *)
(* after a downtime that began or ended at any point of this               *)
(* (change_downtime, the constructors).                                    *)
UpMeansAllChecksUp ==
  \A h \in Checks : IsUp(parent_lbnode[h]) => hard_state[h] = "STATE_UP"

(* What pool_logic() promises of a pool that does not use its backup, in   *)
(* terms of its nodes alone: every up node is wanted, up to max_nodes; too *)
(* few of them take a FORCE_DOWN pool down, and make a FORCE_UP pool add   *)
(* as many enabled nodes as it can to reach min_nodes.  It holds between   *)
(* any two calls, so no change of a node is ever missed.                   *)
Smaller(a, b) == IF a < b THEN a ELSE b

PoolPromise(p) ==
  LET up     == UpNodes(p)
      wanted == up_nodes[p]
      room   == IF max_nodes(p) = 0 THEN Cardinality(up) ELSE max_nodes(p)
  IN  IF Cardinality(up) >= min_nodes(p)
      THEN /\ wanted \subseteq up
           /\ Cardinality(wanted) = Smaller(room, Cardinality(up))
      ELSE IF fault_policy(p) = "FORCE_DOWN" THEN wanted = {}
      ELSE IF fault_policy(p) = "BACKUP_POOL" THEN wanted = up
      ELSE /\ up \subseteq wanted
           /\ wanted \subseteq EnabledNodes(p)
           /\ Cardinality(wanted) = Smaller(min_nodes(p), Cardinality(EnabledNodes(p)))

PoolsServeTheirNodes ==
  \A p \in created \ backup_pool_active : PoolPromise(p)

(* Between callbacks a pool that uses its backup wants exactly the nodes   *)
(* of the backup pool: the loop in update_pfctl() reaches every user, also *)
(* through a chain of backups, and no user is left with older nodes.       *)
BackupsInStep ==
  Idle => \A p \in backup_pool_active : up_nodes[p] = up_nodes[backup_pool_name(p)]

(* A pool uses its backup only while it has too few up nodes of its own:   *)
(* no recovery is missed, even one that a downtime ended or delayed.       *)
BackupOnlyWhenShort ==
  \A p \in backup_pool_active : Cardinality(UpNodes(p)) < min_nodes(p)

(* Between callbacks no pool wants a node that is drained or in downtime,  *)
(* neither its own nor, while it uses a backup, another pool's.            *)
NoTrafficToDowntimedNodes ==
  Idle => \A p \in Pools : \A n \in up_nodes[p] : IsEnabled(n)

(* The newest message of a synced pool in the queue asks for what the pool *)
(* wants now.  A callback may change several pools, each sends on its own  *)
(* (update_pfctl), and a full queue may take the messages of some and      *)
(* refuse those of others, or refuse the second message of a pool whose    *)
(* first is still queued: a pool left with an outdated message is unsynced,*)
(* and so will send again.                                                 *)
QueueTellsLatest ==
  \A p \in pf_synced, i \in 1 .. Len(mq) :
    mq[i].pool = p /\ (\A j \in i + 1 .. Len(mq) : mq[j].pool # p)
      => mq[i].up = up_nodes[p] \cap nodes(p)

(* The published state of a pool tells whether it has wanted nodes.        *)
StatePublished ==
  \A p \in Pools : pool_state[p] = "STATE_UP" <=> up_nodes[p] # {}

(* An up node that is wanted stays wanted while it is up: no recovering    *)
(* node takes the place of another under max_nodes (max_nodes_kept: "in    *)
(* order to avoid rebalancing").  Only a pool that goes down or over to    *)
(* its backup lets such a node go.                                         *)
NoDisplacement ==
  [][\A p \in Pools : \A n \in up_nodes[p] \cap nodes(p) :
       IsUp(n) /\ IsUp(n)' => \/ n \in up_nodes'[p]
                              \/ up_nodes'[p] = {}
                              \/ p \in backup_pool_active']_vars

(* README.rst says that after a downtime "only if all health checks pass,  *)
(* the node is marked as up again and starts receiving traffic".  The code *)
(* does not do this: change_downtime() leaves the states of the checks as  *)
(* they are, and the next result, a failure included, brings the node up.  *)
UpOnlyAfterPass ==
  [][\A n \in Nodes :
       (config[n] = "STATE_ENABLED" /\ ~IsUp(n) /\ IsUp(n)' /\ created = created')
         => \E h \in healthchecks(n) : EndCheck(h, "HC_PASS")]_vars
=============================================================================
