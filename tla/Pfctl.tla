------------------------------- MODULE Pfctl -------------------------------
(***************************************************************************)
(* What the pfctl worker does to pf (pfctl.cpp): pf_sync_table() makes the *)
(* table of a pool follow a message, with one pfctl command per step, so   *)
(* that clients of the load balancer act between the commands.             *)
(*                                                                         *)
(* pf itself is external and modelled from the commands and the comments   *)
(* of pfctl.cpp: a table of LB Nodes per pool, source nodes that stick a   *)
(* client to an LB Node, and the states of its connections: linked to      *)
(* their source node, deferred (the source node will be made later) or     *)
(* plain (their source node is gone).  The two addresses of an LB Node are *)
(* always added and removed by the same command and are one entry here.    *)
(***************************************************************************)
EXTENDS Naturals, FiniteSets

CONSTANTS
  Pools,      \* each with a table
  Nodes,      \* numbered in the order of the message
  Clients,    \* of the load balancer
  NoJob,      \* the worker waits for a message
  pf_fails    \* may a pfctl command exit with an error?

ASSUME PfctlAssumption ==
  /\ Nodes \subseteq Nat
  /\ pf_fails \in BOOLEAN

VARIABLES
  pf_table,   \* the LB Nodes in each table
  src_nodes,  \* source nodes: <<client, pool, node>>
  linked,     \* states with a source node
  deferred,   \* states that will make a source node
  plain,      \* states without one
  job         \* the call of pf_sync_table() the worker is in

traffic == <<src_nodes, linked, deferred, plain>>
pfVars == <<pf_table, traffic, job>>

Flows == Clients \X Pools \X Nodes
states == linked \cup deferred \cup plain

AdminStates == {"STATE_DRAIN_HARD", "STATE_DRAIN_SOFT",
                "STATE_DOWNTIME", "STATE_ENABLED"}

(* A message: a pool, its LB Nodes that are wanted up, and the admin state *)
(* of all of its LB Nodes.                                                 *)
PfMessage ==
  [pool : Pools, up : SUBSET Nodes, admin : UNION {[S -> AdminStates] : S \in SUBSET Nodes}]

(* todo are the nodes the kill loop has not finished, and kill the command *)
(* to run on the first of them.  failed is history: a command of this sync *)
(* failed and the sync went on.                                            *)
Job ==
  [msg : PfMessage, pc : {"show", "del", "kill", "add", "rebalance"},
   to_add : SUBSET Nodes, to_del : SUBSET Nodes, todo : SUBSET Nodes, kill : 1 .. 3,
   failed : BOOLEAN]

(* Every variable keeps its type.                                          *)
PfTypeOK ==
  /\ pf_table \in [Pools -> SUBSET Nodes]
  /\ src_nodes \subseteq Flows
  /\ linked \subseteq Flows /\ deferred \subseteq Flows /\ plain \subseteq Flows
  /\ job # NoJob =>
       /\ job.msg.pool \in Pools /\ job.msg.up \subseteq Nodes
       /\ DOMAIN job.msg.admin \subseteq Nodes
       /\ job.to_add \subseteq Nodes /\ job.to_del \subseteq Nodes
       /\ job.todo \subseteq job.to_del
-----------------------------------------------------------------------------
(* want_set *)
WantSet(msg) == {n \in msg.up : msg.admin[n] = "STATE_ENABLED"}

(* Mutant: only a soft drain spares the states.                            *)
WithStates_HardDrain(msg, n) == msg.admin[n] # "STATE_DRAIN_SOFT"

(* with_states: is a node taken out along with its connections?            *)
WithStates(msg, n) == msg.admin[n] \notin {"STATE_DRAIN_HARD", "STATE_DRAIN_SOFT"}

At(pc) == job # NoJob /\ job.pc = pc

(* The command failed and pf_sync_table() returns; nobody reads its result.*)
GiveUp == pf_fails /\ job' = NoJob /\ UNCHANGED <<pf_table, traffic>>

(* pfctl_worker_loop() calls pf_sync_table() for a message.                *)
Start(msg) ==
  /\ job = NoJob
  /\ job' = [msg |-> msg, pc |-> "show", to_add |-> {}, to_del |-> {},
             todo |-> {}, kill |-> 1, failed |-> FALSE]
  /\ UNCHANGED <<pf_table, traffic>>

(* pf_get_table(): when showing the table fails, the table is created and  *)
(* taken for empty, even if it was there.                                  *)
GetTable(p) == {pf_table[p]} \cup (IF pf_fails THEN {{}} ELSE {})

(* Mutant: nodes that are not wanted stay in the table.                    *)
ToDel_AddOnly(msg, cur) == {}

(* to_del *)
ToDel(msg, cur) == cur \ WantSet(msg)

(* pf_get_table() and the two set differences.                             *)
ShowTable ==
  /\ At("show")
  /\ \/ \E cur \in GetTable(job.msg.pool) :
          /\ job' = [job EXCEPT !.pc = "del", !.to_add = WantSet(job.msg) \ cur,
                                !.to_del = ToDel(job.msg, cur),
                                !.failed = cur # pf_table[job.msg.pool]]
          /\ UNCHANGED <<pf_table, traffic>>
     \/ GiveUp

(* The nodes of the kill loop: those of the message that were removed.     *)
ToKill(msg, to_del) == to_del \cap DOMAIN msg.admin

(* Mutant: the table is emptied when a node has to go.                     *)
TableDel_Flush ==
  /\ At("del")
  /\ pf_table' = [pf_table EXCEPT ![job.msg.pool] = IF job.to_del = {} THEN @ ELSE {}]
  /\ job' = [job EXCEPT !.pc = "kill", !.todo = ToKill(job.msg, job.to_del)]
  /\ UNCHANGED traffic

(* pf_table_del() *)
TableDel ==
  /\ At("del")
  /\ \/ /\ pf_table' = [pf_table EXCEPT ![job.msg.pool] = @ \ job.to_del]
        /\ job' = [job EXCEPT !.pc = "kill", !.todo = ToKill(job.msg, job.to_del)]
        /\ UNCHANGED traffic
     \/ job.to_del # {} /\ GiveUp

(* pf_kill_src_nodes_to(): the source nodes to n, and with them their      *)
(* states if with_states.                                                  *)
KillSrcNodes(p, n, with_states) ==
  LET to == Clients \X {p} \X {n}
  IN  /\ src_nodes' = src_nodes \ to
      /\ linked' = linked \ to
      /\ plain' = IF with_states THEN plain ELSE plain \cup (linked \cap to)
      /\ UNCHANGED deferred

(* pf_kill_states_to_rdr(): all states to n.                               *)
KillStates(p, n) ==
  LET to == Clients \X {p} \X {n}
  IN  /\ linked' = linked \ to
      /\ deferred' = deferred \ to
      /\ plain' = plain \ to
      /\ UNCHANGED src_nodes

(* Mutant: the source nodes are killed once only.                          *)
LastKill_Once(with_states) == IF with_states THEN 2 ELSE 1

(* The kill loop runs three commands on a node that goes with its states.  *)
LastKill(with_states) == IF with_states THEN 3 ELSE 1

AfterKill(n, with_states) ==
  IF job.kill < LastKill(with_states)
  THEN [job EXCEPT !.kill = @ + 1]
  ELSE [job EXCEPT !.kill = 1, !.todo = @ \ {n}]

(* One command of the kill loop; its result is ignored.                    *)
KillNode(n) ==
  LET p == job.msg.pool
      with_states == WithStates(job.msg, n)
  IN  /\ At("kill")
      /\ n \in job.todo /\ \A m \in job.todo : n <= m
      /\ \/ /\ IF job.kill = 2 THEN KillStates(p, n) ELSE KillSrcNodes(p, n, with_states)
            /\ job' = AfterKill(n, with_states)
         \/ /\ pf_fails
            /\ job' = [AfterKill(n, with_states) EXCEPT !.failed = TRUE]
            /\ UNCHANGED traffic
      /\ UNCHANGED pf_table

(* pf_table_add() *)
TableAdd ==
  /\ At("kill") /\ job.todo = {}
  /\ \/ /\ pf_table' = [pf_table EXCEPT ![job.msg.pool] = @ \cup job.to_add]
        /\ job' = [job EXCEPT !.pc = "rebalance"]
        /\ UNCHANGED traffic
     \/ job.to_add # {} /\ GiveUp

(* pf_table_rebalance() when a node was added: the source nodes to all     *)
(* others go, the states stay.  Its commands are one step, as none of them *)
(* touches a table or a state; a failure stops it half way.                *)
Rebalance ==
  /\ At("rebalance")
  /\ LET p   == job.msg.pool
         old == IF job.to_add = {} THEN {} ELSE pf_table[p] \ job.to_add
     IN  \E S \in IF pf_fails THEN SUBSET old ELSE {old} :
           LET to == Clients \X {p} \X S
           IN  /\ src_nodes' = src_nodes \ to
               /\ linked' = linked \ to
               /\ plain' = plain \cup (linked \cap to)
  /\ job' = NoJob
  /\ UNCHANGED <<pf_table, deferred>>

SyncStep ==
  \/ ShowTable \/ TableDel \/ TableAdd \/ Rebalance
  \/ \E n \in Nodes : KillNode(n)
-----------------------------------------------------------------------------
(* Clients: a connection goes where the client's source node points, or to *)
(* a node of the table, with the source node made at once or later.        *)
Connect(c, p, n) ==
  LET f == <<c, p, n>>
      sticky == \E m \in Nodes : <<c, p, m>> \in src_nodes
  IN  /\ IF sticky THEN f \in src_nodes ELSE n \in pf_table[p]
      /\ \/ linked' = linked \cup {f} /\ src_nodes' = src_nodes \cup {f}
            /\ UNCHANGED deferred
         \/ ~sticky /\ deferred' = deferred \cup {f} /\ UNCHANGED <<src_nodes, linked>>
      /\ UNCHANGED <<pf_table, plain, job>>

(* A deferred source node is made.                                         *)
MakeSrcNode(f) ==
  /\ f \in deferred
  /\ deferred' = deferred \ {f}
  /\ linked' = linked \cup {f}
  /\ src_nodes' = src_nodes \cup {f}
  /\ UNCHANGED <<pf_table, plain, job>>

(* The last connection of a kind ends; its source node may outlive it.     *)
Disconnect(f) ==
  /\ f \in states
  /\ \/ linked' = linked \ {f} /\ UNCHANGED <<deferred, plain>>
     \/ deferred' = deferred \ {f} /\ UNCHANGED <<linked, plain>>
     \/ plain' = plain \ {f} /\ UNCHANGED <<linked, deferred>>
  /\ src_nodes' \in {src_nodes, src_nodes \ ({f} \ linked')}
  /\ UNCHANGED <<pf_table, job>>

ClientStep ==
  \/ \E c \in Clients, p \in Pools, n \in Nodes : Connect(c, p, n)
  \/ \E f \in Flows : MakeSrcNode(f) \/ Disconnect(f)

PfInit ==
  /\ pf_table \in [Pools -> SUBSET Nodes]
  /\ src_nodes = {} /\ linked = {} /\ deferred = {} /\ plain = {}
  /\ job = NoJob

(* The messages of the main process: a node that is wanted up is enabled   *)
(* (PoolsServeTheirNodes in module LbPool), nodes may be missing, or gone  *)
(* from the configuration after a restart.                                 *)
Messages ==
  {msg \in PfMessage :
     \A n \in msg.up : n \in DOMAIN msg.admin /\ msg.admin[n] = "STATE_ENABLED"}

PfNext == (\E msg \in Messages : Start(msg)) \/ SyncStep \/ ClientStep

PfSpec == PfInit /\ [][PfNext]_pfVars
-----------------------------------------------------------------------------
(* Properties.                                                             *)

(* Unless a command failed, pf_sync_table() leaves exactly the wanted nodes *)
(* in the table, whatever was in it.                                       *)
SyncInstallsMessage ==
  At("rebalance") /\ ~job.failed => pf_table[job.msg.pool] = WantSet(job.msg)

(* Traffic fails over without a gap where it can: no command takes a node  *)
(* out of the table that the message wants in it, so that the table is     *)
(* empty on the way only if no wanted node was in it.                      *)
WantedNodesStay ==
  [][job # NoJob =>
       pf_table[job.msg.pool] \cap WantSet(job.msg) \subseteq pf_table'[job.msg.pool]]_pfVars

(* A node taken out with its states is silent once the kill loop has left  *)
(* it, if no command failed: no client has a connection or a source node   *)
(* to it, although clients connect and deferred source nodes are made      *)
(* between the commands ("Kill nodes again, there might be some which were *)
(* created after last kill").                                              *)
RemovedNodesAreSilent ==
  ((At("kill") \/ At("rebalance")) /\ ~job.failed) =>
    \A n \in (job.to_del \cap DOMAIN job.msg.admin) \ job.todo :
      job.msg.admin[n] \in {"STATE_DOWNTIME", "STATE_ENABLED"} =>
        \A f \in src_nodes \cup states : f[2] = job.msg.pool => f[3] # n

(* No connection is killed except to a node that is taken out for a        *)
(* downtime or a failed check: drains and rebalancing spare them ("States  *)
(* of existing connections will not be killed, only src_nodes").           *)
OnlyRemovalsKillStates ==
  [][\A f \in states :
       \/ f \in states'
       \/ Disconnect(f)
       \/ /\ At("kill") /\ f[2] = job.msg.pool /\ f[3] \in job.to_del
          /\ job.msg.admin[f[3]] \in {"STATE_DOWNTIME", "STATE_ENABLED"}]_pfVars
=============================================================================
