---------------------------- MODULE PfctlProofs ----------------------------
(***************************************************************************)
(* Proofs about module Pfctl, for any pools, nodes and clients, with and   *)
(* without failing commands.                                               *)
(***************************************************************************)
EXTENDS Pfctl, TLAPS

JobOK == job = NoJob \/ job \in Job

TablesOK == pf_table \in [Pools -> SUBSET Nodes]

TrafficOK ==
  /\ src_nodes \subseteq Flows
  /\ linked \subseteq Flows /\ deferred \subseteq Flows /\ plain \subseteq Flows

(* The sets of a call: the two differences with want_set, and the nodes    *)
(* that the kill loop has left to do.                                      *)
SetsOK ==
  job # NoJob =>
    /\ job.to_add \subseteq WantSet(job.msg)
    /\ job.to_del \cap WantSet(job.msg) = {}
    /\ job.todo \subseteq job.to_del \cap DOMAIN job.msg.admin
    /\ job.pc \in {"show", "del"} => job.todo = {} /\ job.kill = 1

(* What a call promises of its table when another call may have worked on  *)
(* it for a message m, or none has and m is NoJob.                         *)
Lower(m) == IF m = NoJob THEN WantSet(job.msg) ELSE WantSet(job.msg) \cap WantSet(m)
Upper(m) == IF m = NoJob THEN WantSet(job.msg) ELSE WantSet(job.msg) \cup WantSet(m)

(* How far a call has come with its table, if no command failed.           *)
TableOK(m) ==
  job # NoJob /\ ~job.failed =>
    LET table == pf_table[job.msg.pool]
    IN  /\ job.pc \in {"del", "kill"} => Lower(m) \subseteq table \cup job.to_add
        /\ job.pc = "del" => table \subseteq Upper(m) \cup job.to_del
        /\ job.pc \in {"kill", "rebalance"} => table \subseteq Upper(m)
        /\ job.pc = "rebalance" => Lower(m) \subseteq table

(* The node that the kill loop is at.                                      *)
IsFirst(n) == n \in job.todo /\ \A m \in job.todo : n <= m

(* Only a node that goes with its states gets more than one command.       *)
KillOK ==
  job # NoJob /\ job.kill # 1 => \A n \in Nodes : IsFirst(n) => WithStates(job.msg, n)

(* No flow of S goes to node n of pool p.                                  *)
NoneTo(S, p, n) == \A f \in S : f[2] = p => f[3] # n

(* A node that goes with its states has no source nodes and states left    *)
(* after its last command; before it, nothing that would survive it.       *)
SilentOK ==
  job # NoJob /\ ~job.failed /\ job.pc \in {"kill", "rebalance"} =>
    \A n \in job.to_del \cap DOMAIN job.msg.admin :
      WithStates(job.msg, n) =>
        /\ n \notin job.todo => NoneTo(src_nodes \cup states, job.msg.pool, n)
        /\ IsFirst(n) /\ job.kill = 3 => NoneTo(deferred \cup plain, job.msg.pool, n)

(* The parts of a call.                                                    *)
CallOK == TablesOK /\ JobOK /\ SetsOK

(* The inductive invariant.                                                *)
PfInv == CallOK /\ KillOK /\ TrafficOK /\ TableOK(NoJob) /\ SilentOK

(* The steps of PfNext, with messages that may want any node up: none of   *)
(* the proofs needs more of them.                                          *)
AnyNext == (\E msg \in PfMessage : Start(msg)) \/ SyncStep \/ ClientStep
-----------------------------------------------------------------------------
LEMMA WantedAreNodes ==
  ASSUME NEW msg \in PfMessage
  PROVE  WantSet(msg) \subseteq Nodes
  BY DEF WantSet, PfMessage

LEMMA StartKeepsCall ==
  ASSUME CallOK, NEW msg \in PfMessage, Start(msg)
  PROVE  /\ CallOK' /\ KillOK' /\ job'.pc = "show"
         /\ \A m : TableOK(m)'
<1>1. job' \in Job
  BY DEF Start, Job
<1> QED
  BY <1>1 DEF Start, CallOK, TablesOK, JobOK, SetsOK, TableOK, KillOK

LEMMA ShowTableKeepsCall ==
  ASSUME CallOK, ShowTable, ~GiveUp
  PROVE  /\ CallOK' /\ KillOK' /\ job'.msg = job.msg /\ job'.pc = "del"
         /\ UNCHANGED <<pf_table, traffic>>
         /\ \A m : TableOK(m)'
<1>1. PICK cur \in GetTable(job.msg.pool) :
        /\ job' = [job EXCEPT !.pc = "del", !.to_add = WantSet(job.msg) \ cur,
                              !.to_del = ToDel(job.msg, cur),
                              !.failed = cur # pf_table[job.msg.pool]]
        /\ UNCHANGED <<pf_table, traffic>>
  BY ZenonT(60) DEF ShowTable
<1>2. job \in Job /\ job.msg \in PfMessage /\ job.msg.pool \in Pools
  BY Zenon DEF ShowTable, At, CallOK, JobOK, Job, PfMessage
<1>3. cur \subseteq Nodes
  BY <1>2, ZenonT(60) DEF GetTable, CallOK, TablesOK
<1>4. job.todo = {} /\ job.kill = 1
  BY Zenon DEF ShowTable, At, CallOK, SetsOK
<1>5. job' \in Job
  BY <1>1, <1>2, <1>3, WantedAreNodes, Zenon DEF Job, ToDel
<1>6. /\ job'.pc = "del" /\ job'.msg = job.msg /\ job'.todo = {} /\ job'.kill = 1
      /\ job'.to_add = WantSet(job.msg) \ cur
      /\ job'.to_del = cur \ WantSet(job.msg)
      /\ job'.failed = (cur # pf_table[job.msg.pool])
  BY <1>1, <1>2, <1>4 DEF Job, ToDel
<1>7. SetsOK' /\ KillOK'
  BY <1>6 DEF SetsOK, KillOK
<1>8. \A m : TableOK(m)'
  BY <1>1, <1>6, Zenon DEF TableOK, Lower, Upper
<1> QED
  BY <1>1, <1>5, <1>6, <1>7, <1>8, ZenonT(60) DEF CallOK, TablesOK, JobOK

LEMMA TableDelKeepsCall ==
  ASSUME CallOK, TableDel, ~GiveUp
  PROVE  /\ CallOK' /\ KillOK' /\ job'.msg = job.msg /\ job'.pc = "kill"
         /\ job'.todo = job'.to_del \cap DOMAIN job'.msg.admin
         /\ UNCHANGED traffic
         /\ job'.kill = 1 /\ job'.failed = job.failed
         /\ pf_table' = [pf_table EXCEPT ![job.msg.pool] = @ \ job.to_del]
         /\ \A m : TableOK(m) => TableOK(m)'
<1>1. /\ pf_table' = [pf_table EXCEPT ![job.msg.pool] = @ \ job.to_del]
      /\ job' = [job EXCEPT !.pc = "kill", !.todo = ToKill(job.msg, job.to_del)]
      /\ UNCHANGED traffic
  BY DEF TableDel
<1>2. job \in Job /\ job.msg \in PfMessage /\ job.msg.pool \in Pools /\ job.pc = "del"
  BY DEF TableDel, At, CallOK, JobOK, Job, PfMessage
<1>3. job.kill = 1
  BY <1>2 DEF TableDel, At, CallOK, SetsOK
<1>4. job' \in Job
  BY <1>1, <1>2, Zenon DEF Job, ToKill
<1>5. /\ job'.pc = "kill" /\ job'.msg = job.msg /\ job'.kill = 1
      /\ job'.todo = job.to_del \cap DOMAIN job.msg.admin
      /\ job'.to_add = job.to_add /\ job'.to_del = job.to_del
      /\ job'.failed = job.failed
  BY <1>1, <1>2, <1>3 DEF Job, ToKill
<1>6. SetsOK' /\ KillOK'
  BY <1>5 DEF SetsOK, KillOK, CallOK, TableDel, At
<1>7. pf_table'[job.msg.pool] = pf_table[job.msg.pool] \ job.to_del
  BY <1>1, <1>2 DEF CallOK, TablesOK
<1>8. ASSUME NEW m, TableOK(m) PROVE TableOK(m)'
  BY <1>2, <1>5, <1>7, <1>8 DEF TableOK, Lower, Upper, SetsOK, CallOK, TableDel, At
<1>9. TablesOK'
  BY <1>1, <1>2 DEF CallOK, TablesOK
<1> QED
  BY <1>1, <1>4, <1>5, <1>6, <1>8, <1>9 DEF CallOK, JobOK

LEMMA TableAddKeepsCall ==
  ASSUME CallOK, TableAdd, ~GiveUp
  PROVE  /\ CallOK' /\ KillOK' /\ job'.msg = job.msg /\ job'.pc = "rebalance"
         /\ job'.todo = {} /\ job'.to_del = job.to_del /\ job'.failed = job.failed
         /\ UNCHANGED traffic
         /\ pf_table' = [pf_table EXCEPT ![job.msg.pool] = @ \cup job.to_add]
         /\ \A m : TableOK(m) => TableOK(m)'
<1>1. /\ pf_table' = [pf_table EXCEPT ![job.msg.pool] = @ \cup job.to_add]
      /\ job' = [job EXCEPT !.pc = "rebalance"]
      /\ UNCHANGED traffic
  BY DEF TableAdd
<1>2. /\ job \in Job /\ job.msg \in PfMessage /\ job.msg.pool \in Pools
      /\ job.pc = "kill" /\ job.todo = {}
  BY DEF TableAdd, At, CallOK, JobOK, Job, PfMessage
<1>3. job' \in Job
  BY <1>1, <1>2 DEF Job
<1>4. /\ job'.pc = "rebalance" /\ job'.msg = job.msg /\ job'.todo = {}
      /\ job'.to_add = job.to_add /\ job'.to_del = job.to_del
      /\ job'.failed = job.failed
  BY <1>1, <1>2 DEF Job
<1>5. SetsOK' /\ KillOK'
  BY <1>4 DEF SetsOK, KillOK, CallOK, TableAdd, At, IsFirst
<1>6. pf_table'[job.msg.pool] = pf_table[job.msg.pool] \cup job.to_add
  BY <1>1, <1>2 DEF CallOK, TablesOK
<1>7. job.to_add \subseteq WantSet(job.msg)
  BY DEF CallOK, SetsOK, TableAdd, At
<1>8. ASSUME NEW m, TableOK(m) PROVE TableOK(m)'
  BY <1>2, <1>4, <1>6, <1>7, <1>8 DEF TableOK, Lower, Upper, TableAdd, At
<1>9. TablesOK'
  BY <1>1, <1>2 DEF CallOK, TablesOK, Job
<1> QED
  BY <1>1, <1>3, <1>4, <1>5, <1>8, <1>9 DEF CallOK, JobOK

(* What a command of the kill loop does to the call.                       *)
LEMMA KillNodeJob ==
  ASSUME CallOK, NEW n \in Nodes, KillNode(n)
  PROVE  /\ job \in Job /\ job.pc = "kill" /\ job.kill \in 1 .. 3 /\ IsFirst(n)
         /\ job' \in Job /\ job'.msg = job.msg /\ job'.pc = "kill"
         /\ job'.to_add = job.to_add /\ job'.to_del = job.to_del
         /\ job'.failed \in {job.failed, TRUE}
         /\ \/ /\ job.kill < LastKill(WithStates(job.msg, n))
               /\ job'.kill = job.kill + 1 /\ job'.todo = job.todo
            \/ /\ ~(job.kill < LastKill(WithStates(job.msg, n)))
               /\ job'.kill = 1 /\ job'.todo = job.todo \ {n}
<1> DEFINE ws == WithStates(job.msg, n)
<1>1. /\ job \in Job /\ job.msg \in PfMessage /\ job.pc = "kill" /\ job.kill \in 1 .. 3
      /\ IsFirst(n)
  BY DEF KillNode, At, CallOK, JobOK, Job, IsFirst
<1>2. PICK b \in {job.failed, TRUE} : job' = [AfterKill(n, ws) EXCEPT !.failed = b]
  BY <1>1, Zenon DEF KillNode, AfterKill, Job
<1>a. b \in BOOLEAN /\ LastKill(ws) \in {1, 3}
  BY <1>1, Zenon DEF Job, LastKill
<1>b. ASSUME job.kill < LastKill(ws)
      PROVE  /\ job' \in Job /\ job'.msg = job.msg /\ job'.pc = "kill"
             /\ job'.to_add = job.to_add /\ job'.to_del = job.to_del /\ job'.failed = b
             /\ job'.kill = job.kill + 1 /\ job'.todo = job.todo
  <2>1. job' = [job EXCEPT !.kill = job.kill + 1, !.failed = b]
    BY <1>1, <1>2, <1>b DEF AfterKill, Job
  <2>2. job.kill + 1 \in 1 .. 3
    BY <1>1, <1>a, <1>b
  <2> QED
    BY <1>1, <1>a, <2>1, <2>2, Zenon DEF Job
<1>c. ASSUME ~(job.kill < LastKill(ws))
      PROVE  /\ job' \in Job /\ job'.msg = job.msg /\ job'.pc = "kill"
             /\ job'.to_add = job.to_add /\ job'.to_del = job.to_del /\ job'.failed = b
             /\ job'.kill = 1 /\ job'.todo = job.todo \ {n}
  <2> DEFINE left == job.todo \ {n}
  <2>1. job' = [job EXCEPT !.kill = 1, !.todo = left, !.failed = b]
    BY <1>1, <1>2, <1>c DEF AfterKill, Job
  <2>2. left \in SUBSET Nodes /\ 1 \in 1 .. 3
    BY <1>1 DEF Job
  <2> HIDE DEF left
  <2>3. job' \in Job
    BY <1>1, <1>a, <2>1, <2>2, Zenon DEF Job
  <2> QED
    BY <1>1, <2>1, <2>3 DEF Job, left
<1>3. /\ job' \in Job /\ job'.msg = job.msg /\ job'.pc = "kill"
      /\ job'.to_add = job.to_add /\ job'.to_del = job.to_del /\ job'.failed = b
  BY <1>b, <1>c
<1>4. \/ /\ job.kill < LastKill(ws) /\ job'.kill = job.kill + 1 /\ job'.todo = job.todo
      \/ /\ ~(job.kill < LastKill(ws)) /\ job'.kill = 1 /\ job'.todo = job.todo \ {n}
  BY <1>b, <1>c
<1> QED
  BY <1>1, <1>3, <1>4, Zenon

LEMMA KillNodeKeepsCall ==
  ASSUME CallOK, KillOK, NEW n \in Nodes, KillNode(n)
  PROVE  /\ CallOK' /\ KillOK' /\ job'.msg = job.msg
         /\ UNCHANGED pf_table
         /\ \A m : TableOK(m) => TableOK(m)'
<1> DEFINE ws == WithStates(job.msg, n)
<1>1. /\ job.pc = "kill" /\ job.kill \in 1 .. 3 /\ IsFirst(n)
      /\ job' \in Job /\ job'.msg = job.msg /\ job'.pc = "kill"
      /\ job'.to_add = job.to_add /\ job'.to_del = job.to_del
      /\ job'.failed \in {job.failed, TRUE}
  BY KillNodeJob, Zenon
<1>2. \/ /\ job.kill < LastKill(ws) /\ job'.kill = job.kill + 1 /\ job'.todo = job.todo
      \/ /\ ~(job.kill < LastKill(ws)) /\ job'.kill = 1 /\ job'.todo = job.todo \ {n}
  BY KillNodeJob, Zenon
<1>3. SetsOK'
  BY <1>1, <1>2 DEF CallOK, SetsOK, KillNode, At
<1>4. job'.kill # 1 => ws /\ job'.todo = job.todo
  BY <1>1, <1>2 DEF LastKill
<1>5. ASSUME NEW m \in Nodes, IsFirst(m)', job'.kill # 1
      PROVE  m = n
  BY <1>1, <1>4, <1>5, PfctlAssumption DEF IsFirst
<1>6. KillOK'
  BY <1>1, <1>4, <1>5 DEF KillOK, WithStates
<1>7. ASSUME NEW m, TableOK(m) PROVE TableOK(m)'
  BY <1>1, <1>7, Zenon DEF TableOK, Lower, Upper, KillNode, At
<1> QED
  BY <1>1, <1>3, <1>6, <1>7 DEF CallOK, TablesOK, JobOK, KillNode

(* The memory of a call ends with it.                                      *)
LEMMA EndKeepsCall ==
  ASSUME CallOK, job' = NoJob, UNCHANGED pf_table
  PROVE  CallOK' /\ KillOK' /\ \A m : TableOK(m)'
  BY DEF CallOK, TablesOK, JobOK, SetsOK, KillOK, TableOK

(* What every command of a call, whatever else works on its table, does to *)
(* the tables: it adds wanted nodes only and removes none.                 *)
LEMMA SyncStepEffect ==
  ASSUME CallOK, KillOK, SyncStep
  PROVE  /\ CallOK' /\ KillOK' /\ job # NoJob
         /\ job' # NoJob => job'.msg = job.msg
         /\ \A p \in Pools : p # job.msg.pool => pf_table'[p] = pf_table[p]
         /\ pf_table[job.msg.pool] \cap WantSet(job.msg) \subseteq pf_table'[job.msg.pool]
         /\ pf_table'[job.msg.pool] \subseteq pf_table[job.msg.pool] \cup WantSet(job.msg)
         /\ \A m : TableOK(m) => TableOK(m)'
<1>0. job # NoJob
  BY Zenon DEF SyncStep, ShowTable, TableDel, TableAdd, Rebalance, KillNode, At
<1>1. CASE ShowTable /\ ~GiveUp
  BY <1>0, <1>1, ShowTableKeepsCall
<1>2. CASE TableDel /\ ~GiveUp
  <2>1. job.msg.pool \in Pools
    BY <1>0 DEF CallOK, JobOK, Job, PfMessage
  <2>2. job.to_del \cap WantSet(job.msg) = {}
    BY <1>0 DEF CallOK, SetsOK
  <2> QED
    BY <1>0, <1>2, <2>1, <2>2, TableDelKeepsCall DEF CallOK, TablesOK
<1>3. CASE TableAdd /\ ~GiveUp
  <2>1. job.msg.pool \in Pools
    BY <1>0 DEF CallOK, JobOK, Job, PfMessage
  <2>2. job.to_add \subseteq WantSet(job.msg)
    BY <1>0 DEF CallOK, SetsOK
  <2> QED
    BY <1>0, <1>3, <2>1, <2>2, TableAddKeepsCall DEF CallOK, TablesOK
<1>4. CASE \E n \in Nodes : KillNode(n)
  BY <1>0, <1>4, KillNodeKeepsCall
<1>5. CASE Rebalance \/ GiveUp
  <2>1. job' = NoJob /\ UNCHANGED pf_table
    BY <1>5 DEF Rebalance, GiveUp
  <2> QED
    BY <1>0, <2>1, EndKeepsCall
<1> QED
  BY <1>1, <1>2, <1>3, <1>4, <1>5 DEF SyncStep

(* Where no command fails: a call neither notes a failure nor gives up, it *)
(* ends with the wanted nodes in its table, and on the way there its table *)
(* shrinks or holds wanted nodes only.                                     *)
LEMMA SyncWithoutFailures ==
  ASSUME CallOK, KillOK, TableOK(NoJob), SyncStep, NoJob \notin Job,
         ~pf_fails, ~job.failed
  PROVE  /\ job' # NoJob => ~job'.failed
         /\ job' = NoJob => pf_table'[job.msg.pool] = WantSet(job.msg)
         /\ \/ pf_table'[job.msg.pool] \subseteq pf_table[job.msg.pool]
            \/ pf_table'[job.msg.pool] \subseteq WantSet(job.msg)
<1>0. ~GiveUp /\ job # NoJob /\ job \in Job
  BY Zenon DEF GiveUp, SyncStep, ShowTable, TableDel, TableAdd, Rebalance, KillNode, At,
       CallOK, JobOK
<1>p. job.msg.pool \in Pools /\ job.failed \in BOOLEAN
  BY <1>0 DEF Job, PfMessage
<1>1. CASE ShowTable
  <2>1. PICK cur \in GetTable(job.msg.pool) :
          /\ job' = [job EXCEPT !.pc = "del", !.to_add = WantSet(job.msg) \ cur,
                                !.to_del = ToDel(job.msg, cur),
                                !.failed = cur # pf_table[job.msg.pool]]
          /\ UNCHANGED pf_table
    BY <1>0, <1>1, Zenon DEF ShowTable
  <2>2. cur = pf_table[job.msg.pool]
    BY DEF GetTable
  <2>3. job'.failed = FALSE
    BY <1>0, <2>1, <2>2 DEF Job
  <2>4. job' # NoJob
    <3>1. cur \subseteq Nodes /\ WantSet(job.msg) \subseteq Nodes
      BY <1>0, <1>p, <2>2, WantedAreNodes DEF CallOK, TablesOK, Job
    <3>2. job' \in Job
      BY <1>0, <2>1, <3>1, Zenon DEF Job, ToDel
    <3> QED
      BY <3>2
  <2> QED
    BY <2>1, <2>3, <2>4, ZenonT(60)
<1>2. CASE TableDel
  <2>1. /\ job'.failed = job.failed
        /\ pf_table' = [pf_table EXCEPT ![job.msg.pool] = @ \ job.to_del]
    BY <1>0, <1>2, TableDelKeepsCall
  <2>2. job' \in Job
    BY <1>0, <1>2, ZenonT(60) DEF TableDel, ToKill, Job
  <2> QED
    BY <1>p, <2>1, <2>2 DEF CallOK, TablesOK
<1>3. CASE TableAdd
  <2>1. job'.failed = job.failed /\ job'.msg = job.msg /\ job'.pc = "rebalance" /\ TableOK(NoJob)'
    BY <1>0, <1>3, TableAddKeepsCall
  <2>2. job' \in Job
    BY <1>0, <1>3 DEF TableAdd, Job
  <2>3. job' # NoJob
    BY <2>2
  <2>4. pf_table'[job.msg.pool] \subseteq WantSet(job.msg)
    BY <2>1, <2>3 DEF TableOK, Upper
  <2> QED
    BY <2>1, <2>3, <2>4
<1>4. ASSUME NEW n \in Nodes, KillNode(n)
      PROVE  ~job'.failed /\ pf_table' = pf_table /\ job' # NoJob
  <2>1. job' \in Job
    BY <1>4, KillNodeJob, Zenon
  <2>2. job' = AfterKill(n, WithStates(job.msg, n)) /\ pf_table' = pf_table
    BY <1>4 DEF KillNode
  <2> QED
    BY <1>0, <2>1, <2>2, Zenon DEF AfterKill, Job
<1>5. CASE Rebalance
  BY <1>0, <1>5, ZenonT(60) DEF Rebalance, At, TableOK, Lower, Upper
<1> QED
  BY <1>1, <1>2, <1>3, <1>4, <1>5, ZenonT(60) DEF SyncStep
-----------------------------------------------------------------------------
(* The clients.                                                            *)

LEMMA TrafficTyped ==
  ASSUME TrafficOK, AnyNext
  PROVE  TrafficOK'
<1>1. CASE (\E msg \in PfMessage : Start(msg)) \/ ShowTable \/ TableDel \/ TableAdd
  <2>1. UNCHANGED traffic
    BY <1>1, Zenon DEF Start, ShowTable, TableDel, TableAdd, GiveUp
  <2> QED
    BY <2>1 DEF TrafficOK, traffic
<1>2. CASE Rebalance
  BY <1>2 DEF Rebalance, TrafficOK
<1>3. ASSUME NEW n \in Nodes, KillNode(n)
      PROVE  TrafficOK'
  BY <1>3 DEF KillNode, KillSrcNodes, KillStates, TrafficOK, traffic
<1>4. ASSUME NEW c \in Clients, NEW p \in Pools, NEW n \in Nodes, Connect(c, p, n)
      PROVE  TrafficOK'
  <2>1. <<c, p, n>> \in Flows
    BY DEF Flows
  <2> QED
    BY <1>4, <2>1 DEF Connect, TrafficOK
<1>5. ASSUME NEW f \in Flows, MakeSrcNode(f) \/ Disconnect(f)
      PROVE  TrafficOK'
  BY <1>5 DEF MakeSrcNode, Disconnect, TrafficOK
<1> QED
  BY <1>1, <1>2, <1>3, <1>4, <1>5 DEF AnyNext, SyncStep, ClientStep

(* Clients bring nothing to a node that is not in the table.               *)
LEMMA ClientsStayAway ==
  ASSUME TrafficOK, ClientStep, NEW q \in Pools, NEW m \in Nodes, m \notin pf_table[q]
  PROVE  /\ NoneTo(src_nodes \cup states, q, m) => NoneTo(src_nodes \cup states, q, m)'
         /\ NoneTo(deferred \cup plain, q, m) => NoneTo(deferred \cup plain, q, m)'
<1>1. ASSUME NEW c \in Clients, NEW p \in Pools, NEW n \in Nodes, Connect(c, p, n)
      PROVE  /\ NoneTo(src_nodes \cup states, q, m) => NoneTo(src_nodes \cup states, q, m)'
             /\ NoneTo(deferred \cup plain, q, m) => NoneTo(deferred \cup plain, q, m)'
  <2> DEFINE f == <<c, p, n>>
  <2>1. f[2] = p /\ f[3] = n
    OBVIOUS
  <2>2. f \in src_nodes \/ n \in pf_table[p]
    BY <1>1 DEF Connect
  <2>3. /\ src_nodes' \subseteq src_nodes \cup {f}
        /\ linked' \subseteq linked \cup {f}
        /\ deferred' \subseteq deferred \cup {f} /\ plain' = plain
        /\ deferred' # deferred => n \in pf_table[p]
    BY <1>1 DEF Connect
  <2> HIDE DEF f
  <2>4. NoneTo(src_nodes \cup states, q, m) => NoneTo(src_nodes \cup states, q, m)'
    BY <2>1, <2>2, <2>3 DEF NoneTo, states
  <2>5. NoneTo(deferred \cup plain, q, m) => NoneTo(deferred \cup plain, q, m)'
    BY <2>1, <2>3 DEF NoneTo
  <2> QED
    BY <2>4, <2>5
<1>2. ASSUME NEW f \in Flows, MakeSrcNode(f) \/ Disconnect(f)
      PROVE  /\ src_nodes' \cup states' \subseteq src_nodes \cup states
             /\ deferred' \cup plain' \subseteq deferred \cup plain
  BY <1>2 DEF MakeSrcNode, Disconnect, states
<1> QED
  BY <1>1, <1>2 DEF ClientStep, NoneTo, states
-----------------------------------------------------------------------------
(* The kill loop leaves silence behind.                                    *)

LEMMA FlowsTo ==
  ASSUME NEW f \in Flows, NEW p, NEW n
  PROVE  f \in Clients \X {p} \X {n} <=> f[2] = p /\ f[3] = n
  BY DEF Flows

LEMMA KillNodeKeepsSilence ==
  ASSUME PfInv, NEW n \in Nodes, KillNode(n)
  PROVE  SilentOK'
<1> DEFINE p == job.msg.pool
           to == Clients \X {p} \X {n}
           ws == WithStates(job.msg, n)
<1>1. /\ job \in Job /\ job.pc = "kill" /\ job.kill \in 1 .. 3 /\ IsFirst(n)
      /\ job' \in Job /\ job'.msg = job.msg /\ job'.pc = "kill"
      /\ job'.to_add = job.to_add /\ job'.to_del = job.to_del
      /\ \/ /\ job.kill < LastKill(ws)
            /\ job'.kill = job.kill + 1 /\ job'.todo = job.todo
         \/ /\ ~(job.kill < LastKill(ws))
            /\ job'.kill = 1 /\ job'.todo = job.todo \ {n}
  BY KillNodeJob, Zenon DEF PfInv
<1>2. SUFFICES ASSUME ~job'.failed,
                      NEW m \in job.to_del \cap DOMAIN job.msg.admin,
                      WithStates(job.msg, m)
               PROVE  /\ m \notin job'.todo => NoneTo(src_nodes' \cup states', p, m)
                      /\ IsFirst(m)' /\ job'.kill = 3 => NoneTo(deferred' \cup plain', p, m)
  BY <1>1 DEF SilentOK, WithStates, NoneTo, states
<1>3. /\ ~job.failed
      /\ IF job.kill = 2 THEN KillStates(p, n) ELSE KillSrcNodes(p, n, ws)
  <2>1. job.failed \in BOOLEAN /\ AfterKill(n, ws).failed = job.failed
    BY <1>1 DEF AfterKill, Job
  <2>2. ~(job' = [AfterKill(n, ws) EXCEPT !.failed = TRUE])
    BY <1>1, <1>2 DEF AfterKill, Job
  <2> QED
    BY <1>2, <2>1, <2>2 DEF KillNode
<1>4. /\ m \notin job.todo => NoneTo(src_nodes \cup states, p, m)
      /\ IsFirst(m) /\ job.kill = 3 => NoneTo(deferred \cup plain, p, m)
  BY <1>1, <1>2, <1>3, Zenon DEF PfInv, SilentOK, KillNode, At
<1>5. /\ \A f \in src_nodes \cup states : f \in to <=> f[2] = p /\ f[3] = n
      /\ states = linked \cup deferred \cup plain
  BY FlowsTo DEF PfInv, TrafficOK, states
<1>6. CASE m # n
  <2>1. m \notin job'.todo => m \notin job.todo
    BY <1>1, <1>6
  <2>2. ~IsFirst(m)' \/ job'.kill # 3
    <3>1. job'.kill = 3 => job'.todo = job.todo
      BY <1>1
    <3>2. m \in Nodes
      BY <1>1 DEF Job
    <3> QED
      BY <1>1, <1>6, <3>1, <3>2, PfctlAssumption DEF IsFirst
  <2>3. src_nodes' \cup states' \subseteq src_nodes \cup states
    BY <1>3 DEF KillStates, KillSrcNodes, states
  <2> QED
    BY <1>4, <2>1, <2>2, <2>3 DEF NoneTo
<1>7. CASE m = n
  <2>w. ws
    BY <1>2, <1>7
  <2>1. IF job.kill < 3
        THEN job'.kill = job.kill + 1 /\ job'.todo = job.todo
        ELSE job'.kill = 1 /\ job'.todo = job.todo \ {n}
    BY <1>1, <2>w DEF LastKill
  <2>0. n \in job.todo
    BY <1>1 DEF IsFirst
  <2>2. CASE job.kill = 1
    <3>1. job'.todo = job.todo /\ job'.kill = 2
      BY <1>1, <2>1, <2>2
    <3> QED
      BY <1>7, <2>0, <3>1
  <2>3. CASE job.kill = 2
    <3>1. deferred' = deferred \ to /\ plain' = plain \ to
      BY <1>3, <2>3 DEF KillStates
    <3>2. NoneTo(deferred' \cup plain', p, m)
      BY <1>5, <1>7, <3>1 DEF NoneTo
    <3>3. job'.todo = job.todo
      BY <1>1, <2>1, <2>3
    <3> QED
      BY <1>7, <2>0, <3>2, <3>3
  <2>4. CASE job.kill = 3
    <3>1. /\ src_nodes' = src_nodes \ to /\ linked' = linked \ to
          /\ deferred' = deferred /\ plain' = plain
      BY <1>3, <2>w, <2>4 DEF KillSrcNodes
    <3>2. NoneTo(deferred \cup plain, p, m)
      BY <1>1, <1>4, <1>7, <2>4
    <3>3. NoneTo(src_nodes' \cup states', p, m)
      BY <1>5, <1>7, <3>1, <3>2 DEF NoneTo, states
    <3>4. job'.kill = 1
      BY <1>1, <2>1, <2>4
    <3> QED
      BY <3>3, <3>4
  <2> QED
    BY <1>1, <2>2, <2>3, <2>4
<1> QED
  BY <1>6, <1>7

(* A node that is being taken out is not in the table any more.            *)
LEMMA RemovedIsGone ==
  ASSUME PfInv, job # NoJob, ~job.failed, job.pc \in {"kill", "rebalance"},
         NEW n \in job.to_del
  PROVE  n \in Nodes /\ job.msg.pool \in Pools /\ n \notin pf_table[job.msg.pool]
<1>1. job \in Job
  BY DEF PfInv, CallOK, JobOK
<1>2. pf_table[job.msg.pool] \subseteq WantSet(job.msg)
  BY DEF PfInv, TableOK, Upper
<1>3. job.to_del \cap WantSet(job.msg) = {}
  BY DEF PfInv, CallOK, SetsOK
<1> QED
  BY <1>1, <1>2, <1>3 DEF Job, PfMessage

LEMMA ClientsKeepSilence ==
  ASSUME PfInv, ClientStep
  PROVE  SilentOK'
<1>1. job' = job /\ pf_table' = pf_table
  BY Zenon DEF ClientStep, Connect, MakeSrcNode, Disconnect
<1>2. SUFFICES ASSUME job # NoJob, ~job.failed, job.pc \in {"kill", "rebalance"},
                      NEW n \in job.to_del \cap DOMAIN job.msg.admin,
                      WithStates(job.msg, n)
               PROVE  /\ n \notin job.todo =>
                           NoneTo(src_nodes \cup states, job.msg.pool, n)'
                      /\ IsFirst(n) /\ job.kill = 3 =>
                           NoneTo(deferred \cup plain, job.msg.pool, n)'
  BY <1>1 DEF SilentOK, WithStates, IsFirst
<1>3. n \in Nodes /\ job.msg.pool \in Pools /\ n \notin pf_table[job.msg.pool]
  BY <1>2, RemovedIsGone
<1>4. /\ n \notin job.todo => NoneTo(src_nodes \cup states, job.msg.pool, n)
      /\ IsFirst(n) /\ job.kill = 3 => NoneTo(deferred \cup plain, job.msg.pool, n)
  BY <1>2 DEF PfInv, SilentOK
<1>5. ASSUME NEW q \in Pools, q = job.msg.pool
      PROVE  /\ NoneTo(src_nodes \cup states, q, n) => NoneTo(src_nodes \cup states, q, n)'
             /\ NoneTo(deferred \cup plain, q, n) => NoneTo(deferred \cup plain, q, n)'
  BY <1>3, <1>5, ClientsStayAway, Zenon DEF PfInv
<1> QED
  BY <1>1, <1>3, <1>4, <1>5 DEF NoneTo, states

(* A step of the worker or of a client keeps the invariant.                *)
LEMMA NextKeepsInv ==
  ASSUME PfInv, [AnyNext]_pfVars
  PROVE  PfInv'
<1>1. CASE UNCHANGED pfVars
  BY <1>1 DEF pfVars, traffic, PfInv, CallOK, TablesOK, JobOK, SetsOK, KillOK, IsFirst,
       TrafficOK, TableOK, Lower, Upper, SilentOK, NoneTo, states
<1>2. ASSUME NEW msg \in PfMessage, Start(msg)
      PROVE  PfInv'
  <2>1. CallOK' /\ KillOK' /\ TableOK(NoJob)' /\ job'.pc = "show"
    BY <1>2, StartKeepsCall DEF PfInv
  <2>2. SilentOK'
    BY <2>1 DEF SilentOK
  <2> QED
    BY <1>2, <2>1, <2>2, TrafficTyped DEF PfInv, AnyNext
<1>3. CASE SyncStep
  <2>1. CallOK' /\ KillOK' /\ TableOK(NoJob)'
    BY <1>3, SyncStepEffect DEF PfInv
  <2>2. ASSUME job' = NoJob PROVE SilentOK'
    BY <2>2 DEF SilentOK
  <2>3. ASSUME ShowTable /\ ~GiveUp PROVE SilentOK'
    BY <2>3, ShowTableKeepsCall DEF PfInv, SilentOK
  <2>4. ASSUME TableDel /\ ~GiveUp PROVE SilentOK'
    <3>1. job'.todo = job'.to_del \cap DOMAIN job'.msg.admin /\ job'.kill = 1
      BY <2>4, TableDelKeepsCall DEF PfInv
    <3> QED
      BY <3>1 DEF SilentOK
  <2>5. ASSUME TableAdd /\ ~GiveUp PROVE SilentOK'
    <3>1. /\ job'.msg = job.msg /\ job'.to_del = job.to_del /\ job'.failed = job.failed
          /\ job'.todo = {} /\ job.todo = {} /\ job.pc = "kill" /\ job # NoJob
          /\ UNCHANGED traffic
      BY <2>5, TableAddKeepsCall DEF PfInv, TableAdd, At
    <3> QED
      BY <3>1 DEF PfInv, SilentOK, WithStates, IsFirst, NoneTo, states, traffic
  <2>6. ASSUME \E n \in Nodes : KillNode(n) PROVE SilentOK'
    BY <2>6, KillNodeKeepsSilence
  <2>7. SilentOK'
    BY <1>3, <2>2, <2>3, <2>4, <2>5, <2>6 DEF SyncStep, Rebalance, GiveUp
  <2> QED
    BY <1>3, <2>1, <2>7, TrafficTyped DEF PfInv, AnyNext
<1>4. CASE ClientStep
  <2>1. job' = job /\ pf_table' = pf_table
    BY <1>4, Zenon DEF ClientStep, Connect, MakeSrcNode, Disconnect
  <2>2. CallOK' /\ KillOK' /\ TableOK(NoJob)'
    BY <2>1 DEF PfInv, CallOK, TablesOK, JobOK, SetsOK, KillOK, IsFirst, WithStates,
         TableOK, Lower, Upper
  <2> QED
    BY <1>4, <2>2, ClientsKeepSilence, TrafficTyped DEF PfInv, AnyNext
<1> QED
  BY <1>1, <1>2, <1>3, <1>4 DEF AnyNext

LEMMA NextIsAny == PfNext => AnyNext
  BY DEF PfNext, AnyNext, Messages

LEMMA InvHolds == PfSpec => []PfInv
<1>1. PfInit => PfInv
  BY DEF PfInit, PfInv, CallOK, TablesOK, JobOK, SetsOK, KillOK, TrafficOK, TableOK, SilentOK
<1> QED
  BY <1>1, NextKeepsInv, NextIsAny, PTL DEF PfSpec
-----------------------------------------------------------------------------
(* The state of pf and of the worker keeps its type, however commands and  *)
(* clients interleave and whichever command of pfctl.cpp fails.            *)
THEOREM PfTypeCorrect == PfSpec => []PfTypeOK
<1>1. PfInv => PfTypeOK
  BY DEF PfInv, CallOK, TablesOK, JobOK, SetsOK, TrafficOK, PfTypeOK, Job, PfMessage
<1> QED
  BY <1>1, InvHolds, PTL

(* pf_sync_table() leaves exactly want_set in the table of its pool, from  *)
(* any table, unless one of its commands failed.                           *)
THEOREM SyncsInstallTheirMessage == PfSpec => []SyncInstallsMessage
<1>1. PfInv => SyncInstallsMessage
  BY Zenon DEF PfInv, TableOK, Lower, Upper, SyncInstallsMessage, At
<1> QED
  BY <1>1, InvHolds, PTL

(* The three commands of the kill loop leave no source node and no state   *)
(* to a node taken out with its states, whatever the clients do meanwhile. *)
THEOREM RemovalsSilence == PfSpec => []RemovedNodesAreSilent
<1>1. PfInv => RemovedNodesAreSilent
  BY DEF PfInv, SilentOK, NoneTo, WithStates, RemovedNodesAreSilent, At
<1> QED
  BY <1>1, InvHolds, PTL

LEMMA StepKeepsWanted ==
  ASSUME PfInv, [AnyNext]_pfVars, job # NoJob
  PROVE  pf_table[job.msg.pool] \cap WantSet(job.msg) \subseteq pf_table'[job.msg.pool]
<1>1. CASE SyncStep
  BY <1>1, SyncStepEffect DEF PfInv
<1>2. CASE ~SyncStep
  BY <1>2, Zenon DEF AnyNext, Start, ClientStep, Connect, MakeSrcNode, Disconnect, pfVars
<1> QED
  BY <1>1, <1>2

(* No command of pf_sync_table() removes a wanted node from the table.     *)
THEOREM SyncsKeepWantedNodes == PfSpec => WantedNodesStay
<1>1. PfInv /\ [PfNext]_pfVars =>
        [job # NoJob =>
           pf_table[job.msg.pool] \cap WantSet(job.msg) \subseteq pf_table'[job.msg.pool]]_pfVars
  BY StepKeepsWanted, NextIsAny
<1> QED
  BY <1>1, InvHolds, PTL DEF PfSpec, WantedNodesStay

(* A state that ends was ended by its client, or by the kill loop.         *)
Spared(f) ==
  \/ f \in states'
  \/ Disconnect(f)
  \/ /\ At("kill") /\ f[2] = job.msg.pool /\ f[3] \in job.to_del
     /\ job.msg.admin[f[3]] \in {"STATE_DOWNTIME", "STATE_ENABLED"}

LEMMA StepSpares ==
  ASSUME PfInv, [AnyNext]_pfVars, NEW f \in states
  PROVE  Spared(f)
<1> USE DEF Spared
<1>1. ASSUME UNCHANGED traffic PROVE Spared(f)
  BY <1>1 DEF traffic, states
<1>2. ASSUME Rebalance PROVE Spared(f)
  BY <1>2 DEF Rebalance, states
<1>3. ASSUME NEW n \in Nodes, KillNode(n), ~UNCHANGED traffic
      PROVE  Spared(f)
  <2> DEFINE ws == WithStates(job.msg, n)
  <2>1. job \in Job /\ job.kill \in 1 .. 3 /\ IsFirst(n)
    BY <1>3, KillNodeJob, Zenon DEF PfInv
  <2>2. At("kill") /\ n \in job.to_del /\ n \in DOMAIN job.msg.admin
    BY <1>3, <2>1 DEF PfInv, CallOK, SetsOK, KillNode, At, IsFirst
  <2>3. IF job.kill = 2 THEN KillStates(job.msg.pool, n) ELSE KillSrcNodes(job.msg.pool, n, ws)
    BY <1>3 DEF KillNode
  <2>4. ws \/ f \in states'
    <3>1. job.kill = 2 => ws
      BY <2>1, <2>2 DEF PfInv, KillOK, At
    <3> QED
      BY <2>3, <3>1 DEF KillSrcNodes, states
  <2>5. f \in states' \/ f \in Clients \X {job.msg.pool} \X {n}
    BY <2>3 DEF KillSrcNodes, KillStates, states
  <2>6. f \in Clients \X {job.msg.pool} \X {n} => f[2] = job.msg.pool /\ f[3] = n
    OBVIOUS
  <2>7. ws => job.msg.admin[n] \in {"STATE_DOWNTIME", "STATE_ENABLED"}
    <3>1. job.msg.admin[n] \in AdminStates
      BY <2>1, <2>2 DEF Job, PfMessage
    <3> QED
      BY <3>1 DEF WithStates, AdminStates
  <2> QED
    BY <2>2, <2>4, <2>5, <2>6, <2>7
<1>4. ASSUME NEW c \in Clients, NEW p \in Pools, NEW n \in Nodes, Connect(c, p, n)
      PROVE  Spared(f)
  BY <1>4 DEF Connect, states
<1>5. ASSUME NEW g \in Flows, MakeSrcNode(g) \/ Disconnect(g)
      PROVE  Spared(f)
  <2>1. CASE f = g /\ Disconnect(g)
    BY <2>1
  <2>2. CASE f # g \/ MakeSrcNode(g)
    BY <1>5, <2>2, ZenonT(60) DEF MakeSrcNode, Disconnect, states
  <2> QED
    BY <1>5, <2>1, <2>2
<1>6. ASSUME (\E msg \in PfMessage : Start(msg)) \/ ShowTable \/ TableDel \/ TableAdd
             \/ UNCHANGED pfVars
      PROVE  UNCHANGED traffic
  BY <1>6, Zenon DEF Start, ShowTable, TableDel, TableAdd, GiveUp, pfVars
<1> HIDE DEF Spared
<1> QED
  BY <1>1, <1>2, <1>3, <1>4, <1>5, <1>6 DEF AnyNext, SyncStep, ClientStep

(* pf_sync_table() kills a connection only in the kill loop, and only if   *)
(* it goes to a node that was removed and is not drained.                  *)
THEOREM SyncsSpareOtherStates == PfSpec => OnlyRemovalsKillStates
<1>1. PfInv /\ [PfNext]_pfVars => [\A f \in states : Spared(f)]_pfVars
  BY StepSpares, NextIsAny
<1> QED
  BY <1>1, InvHolds, PTL DEF PfSpec, OnlyRemovalsKillStates, Spared
=============================================================================
