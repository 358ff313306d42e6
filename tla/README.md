# TLA+ specification of testtool

testtool is the health check daemon of a load balancer. It checks the LB Nodes
of every LB Pool, decides which nodes of a pool shall get traffic, and makes the
pf tables follow. This directory models all of it that has state: the runs of
every type of check, their results, nodes, pools, backup pools, downtimes, the
queue to the pfctl worker, the commands the worker runs, and the crashes and
restarts of both processes. TLC checks the models on small instances, TLAPS
proves their safety properties for all instances.

`PROJECT.json` maps every definition to the lines it models and lists the runs,
the mutants that show that each property can fail, the hazards and the theorems.

## The system

Two processes run. The **main process** is single-threaded: libevent calls one
callback at a time. The **pfctl worker** is forked from it and receives messages
through a boost `message_queue` named "pfctl", of bounded length. `daemon(8)`
starts the main process again when it dies. **pf** holds the truth about traffic:
one table of nodes per pool, and the states and source nodes of connections.

| Part | State | Operations |
|---|---|---|
| Health check (`healthcheck.cpp`) | `hard_state`, `failure_counter` (16 bits), `is_running` | schedule, end with a result |
| Check types (ping, TCP, HTTP, DNS, PostgreSQL, dummy) | a socket or bufferevent and a pending event; HTTP: the reply so far; DNS: transaction ids; PostgreSQL: the next callback of a chain; ping: the shared map of sequence numbers | start a request, callbacks, timeout |
| LB Node (`lb_node.cpp`) | `state`, `admin_state`, `min_nodes_kept`, `max_nodes_kept` | `node_logic()`, `change_downtime()` |
| LB Pool (`lb_pool.cpp`) | `up_nodes`, `state`, `backup_pool_active`, `pf_synced` | `pool_logic()`, `update_pfctl()`, `sync_no_hc()` |
| Main loop (`testtool.cpp`) | `lb_pools`, the reload flag | load the configuration, scheduler, finalizer, syncer, worker check, reload on SIGUSR1 |
| Queue and worker (`pfctl_worker.cpp`) | the queue, its name, the flag `running` | send, receive, attach, start, stop |
| pf access (`pfctl.cpp`) | pf's tables, states, source nodes | `pf_sync_table()` |

How they interact: a check ends and calls `node_logic()` of its node, which calls
`pool_logic()` of the pool, which computes the wanted nodes and calls
`update_pfctl()`; that tries to send a message and then calls `pool_logic()` of
every pool that is using this one as its backup. A reload calls
`change_downtime()` for every node, each followed by the pool's logic. The worker
takes a message and brings the table in line, with one `pfctl` command after the
other. At a start the nodes take their state from the tables.

What is hard here:

* a callback that sends several messages races with the worker emptying the queue,
  and a refused message must be sent again later, by whatever event comes next;
* the wanted nodes are recomputed only when a flag says so, and depend on flags set
  by earlier computations, so a long series of legal events may drift;
* drains asked for by a check and configured downtimes write the same variable;
* a pool holds a copy of its backup pool's nodes, through chains of pools;
* clients connect between the commands that take a node out;
* either process may die at any point, and the new one starts from what pf has;
* the old worker, the new worker and the new main process share one queue name;
* an orphaned worker goes on changing the tables that the new one works on;
* all ping checks share one socket and 2^16 sequence numbers; DNS checks reuse ports;
* a run of a check ends in one of many callbacks, or while it is being started, and must
  give back everything it holds, once, with one result.

## Modules

| Module | Models | Notes |
|---|---|---|
| `CheckBase` | what every check has | `Checks` and `is_running` |
| `Healthcheck` | `healthcheck.cpp`: how a result moves `hard_state` | operators, used by the next two |
| `HealthcheckHistory` | checks on their own, with the history variable `streak` | the number of contiguous failures |
| `LbPool` | `lb_node.cpp`, `lb_pool.cpp`, callbacks of `testtool.cpp`, `send_message()` | the core |
| `Pfctl` | `pfctl.cpp`, with pf and its clients as environment | one action per command |
| `Testtool` | `LbPool`, `Pfctl`, crashes and restarts composed | the worker's loop joins them |
| `PfctlWorker` | the life of the worker and of the queue's name | several incarnations of testtool |
| `PfctlOrphan` | two workers in `pf_sync_table()` on one table | `Pfctl` twice, by `INSTANCE` |
| `CheckRun` | `schedule_healthcheck()` and `end_check()` as the check types use them | also how a run ends the process |
| `Tcp`, `Http`, `Dns`, `Postgres`, `Ping` | the check types, one file each | libevent, libpq, kernel and network are environment |
| `Helpers` | `in_cksum()` and `timespec_diff_ms()` | operators |
| `CheckContract` | what a check type promises | abstract specification |
| `CheckTypes` | all check types, the dummy included, side by side | refines `CheckContract` |
| `MC...` | constants for TLC | nothing else |
| `...Lemmas`, `...Proofs` | theorems and their proofs | |

**Atomicity.** In `LbPool` and `Testtool` a step of the main process is a callback
or a part of one that sends at most one message. A callback that may send more is
cut at every `update_pfctl()`, since the worker runs meanwhile: what is left of it is
in `calls` (the loops over users of a backup pool), `reload` (nodes that
`load_downtimes()` has still to visit) and `sweep` (pools the syncer has left).
`Idle` says that no callback is unfinished, and no other callback starts before.
In `Pfctl` and `PfctlOrphan` a step is one `pfctl` command. In `PfctlWorker` a step is one
operation on the shared name or on a process. In the check types a step is one callback,
with all the methods it calls.

**Check types.** `CheckTypes` is the union of the types, not their product: the variable
`type` says which one the checks of a behaviour have. Checks of different types share
nothing but the process. TCP, HTTP and PostgreSQL checks do not even share anything with
others of their type, so that TLC needs only one of them (the constant `Alone`); the
theorems take any. `Held` is the refinement mapping: the checks that hold resources, read
off the member that the end of a run resets (`bev`, the socket, `conn`; for ping
`is_running`, as its socket is shared). `CheckContract` then says that a run takes hold of
its resources at its start, lets go of them with its only result, or fails without ever
holding any, and that nothing happens after the process is gone.

**State and code.** Variables have the names of the members they stand for. A Boolean
member of a class is the set of objects in which it is set (`is_running`,
`max_nodes_kept`, `pf_synced`). Nodes and pools are numbers, in the order in which
the code's loops meet them (`set<LbNode *>` and the map of pools by name). The loops
of `pool_logic()` that stop at a size are "the first k members" (`TakeFirst`).
Left out because no reader sees a difference: the members `ran` and `checked`
(`node_logic()` always finds `checked` set) and `state_changed` (set at the start
of every call that reads it; `PoolLogic` and `PoolLogicUnchanged` are its two
values).

**Abstraction.** Time: a check that does not run may be due, and a running check may
end or time out, at any moment. Check results: any result that the types can give,
except `HC_PANIC`, which exits the process and is `MainDies`. Configuration: nodes
carry the words of `ConfigStates`; pools are fixed during a run, as the code never
changes them after the start. Addresses: a node is one entry; the code always adds
and removes its IPv4 and IPv6 address together.

**External.** pf's behaviour (sticky source nodes, states linked to them, deferred
source nodes) is modelled from the commands and comments of `pfctl.cpp`; the network
of `Ping` and `Dns` (packets are lost, doubled and late) and the deaths of processes are
environment actions. Of libevent the models assume that a callback comes only for an event
that is registered and that timers run out. Each call of libpq returns any of the results
that the code tells apart; the status of the connection follows libpq's documentation as
far as the comments of `healthcheck_postgres.cpp` quote it. An answer of an HTTP server is
a sequence of words that comes in pieces, not a string.

## Runs

Passing runs. Every property has a mutant of the code that breaks it.

| Run | Instance | Checks |
|---|---|---|
| `check_types` | 2 checks of each type, 1 where they are `Alone`; counter modulo 4, one limit the largest it holds, one 0; 4 sequence numbers, 2 ports, 3 transaction ids, 4 HTTP answers, at most 5 events | see below |
| `pool_force_up` | 3 nodes, 2 with a check, min = max = 2, queue of 1 | who is wanted (`PoolsServeTheirNodes`, which includes that no downtimed node is forced up), no displacement under `max_nodes` |
| `pool_force_down` | 2 nodes with 1 and 2 checks, min = max = 2, all three kinds of admin state | pools down with too few nodes, no drain that covers a configured state or outlasts its cause (`AdminFollowsConfig`), nodes against their checks |
| `pool_backup` | chain 2 -> 1 -> 3 of pools, so that one is built before its backup and one after it; pool 3 has no checks | users follow their backup, use it only when short, never want a downtimed node; a synced pool has no outdated message in the queue (`QueueTellsLatest`) |
| `pfctl` | 1 table, 2 nodes, 1 client, commands may fail | tables and traffic after each sync; wanted nodes stay in the table, and connections that must live do |
| `orphan` | 1 table, 2 nodes, an orphaned worker anywhere in its sync, commands may fail | two syncs at once agree where their messages do, also when the orphan goes on after the new one; a sync without an orphan is exact |
| `testtool` | 1 node, 1 client, all admin states, crashes of both processes | nothing is lost between pools, queue and pf; a restart keeps traffic |
| `testtool_live` | a pool with a check and one without, queue of 1, crashes | what is wanted is installed in the end; both processes come back |
| `worker` | 3 incarnations of testtool | name and queue are right; orphaned workers leave; a stop ends |

`check_types` asks of every type whether it keeps the contract (`KeepsContract`), whether
only what runs holds resources (`HoldersRun`), and whether runs end (`HeldRunsEnd`).
Beyond that, of

* the inherited part, by dummy checks: a check goes down exactly at the configured number of
  contiguous failures (`DownAfterThatManyFailures`, `DownOnlyAfterContiguousFailures`);
* ping: no false pass, no unheard answer (`PassesAreAnswered`, `NonzeroAnswersAreHeard`);
  a packet's checksum verifies (`CksumsVerify`, on bytes of one bit, where carries are
  frequent);
* HTTP: the result is that of the code the server sent in this run, in any pieces
  (`HttpResultsAreTheirs`, against a definition by positions instead of cuts);
* DNS: a pass is the answer to the current query (`DnsPassesAreAnswered`); the question
  is the one of RFC 1035 for names of up to three labels (`QuestionsAreRight`);
* PostgreSQL: connection, timer and event exist together (`ChainsAreWhole`), and the links
  of the chain come in order (`LinksAreInOrder`);
* time: differences are rounded down (`DiffsAreFloors`).

**Why the bounds are enough.** The counter and the sequence number wrap around within a
few steps (`CounterMod = 4`, `SeqNumbers = 4`, `IdMod = 3`). Two ping or DNS checks suffice
for one to meet what is left of the other, and a single one meets what is left of its own
last run. Two ports let a port be another's next. A PostgreSQL run of five events reaches
every link and repeats some. With three nodes and `max_nodes = 2` there
are nodes kept, displaced and waiting, and with `min_nodes = 2` nodes that are forced up
by each of the three loops. In some instances a node of a pool with checks has none,
which is a node whose checks never report: it moves by downtimes only, and the state space
stays small. A
chain of three pools is the shortest in which a change travels through a pool that is
itself on its backup. A queue of one message is full most of the time, which is the hard
case; a longer queue only makes refusals rarer. In `pool_backup` it takes one message of a
callback that sends up to three; two messages of one pool in a queue are left to the theorem
`QueueIsLatest`, which is about queues of any length. In `pfctl` two nodes allow one to be
removed while another is added, and one client meets every interleaving of its own
connections with the commands; clients do not affect each other. Three incarnations in
`worker` let two orphans live beside a new testtool. Two runs may stop and do not check for
deadlock: `worker`, as `N` bounds the restarts, and `check_types`, where the process may end and DNS checks
may be stuck.

Runs that end with a counterexample: the code does something else than its
documentation says.

| Run | Documented | What happens |
|---|---|---|
| `up_only_after_pass` | `README.rst:13`, after a downtime a node is up only when its checks pass | `change_downtime()` sets the node down but leaves `hard_state` of its checks; the next result, also a failure below the limit, brings it up |
| `downtime_kills_traffic` | `README.rst:10`, a downtime kills all traffic to the node | a node that was drained first is not in the wanted nodes any more, so its downtime changes nothing there, sends no message, and its connections live on |
| `wanted_nodes_in_table` | `pfctl_worker.cpp:175`, messages take backup pools into account | `send_message()` looks at the pool's own nodes only; the nodes of the backup pool never get into the table |

Other places where code and comments disagree were met while writing the models. The
models do what the code does, and no property claims the comment:

* a limit `hc_max_failed` of 65536 or more is never reached by the 16 bit counter;
* nodes in a downtime are checked all the same (`lb_node.cpp:111`, `testtool.cpp:82`);
* a reload compares the file with `admin_state`, not with the old file, and so ends a
  soft drain of a node whose configuration did not change (`testtool.cpp:93`);
* the nodes of one reload are not one change; each has its own `pool_logic()`
  (`lb_node.cpp:222`);
* the first check that ends makes a node count as checked (`lb_node.cpp:152`);
* a pool with exactly `MAX_NODES` nodes, or more, fails an assertion in `send_message()`
  (`lb_pool.cpp:104`);
* a pool whose backup comes later by name does not use it at the start, until one of its
  own nodes changes state;
* a pool whose checks all have an unknown type is not sent again after it met a full queue;
* the result of `pf_sync_table()` is ignored, so a failed sync is not repeated
  (`pfctl_worker.h:19`);
* an orphaned worker removes the name of the queue although the next testtool may have
  created its own, whose worker may then wait for ever (`ReadsOwnQueue` and
  `AwaitsCreation` therefore speak of starts without orphans);
* a SIGTERM that reaches the worker before its loop is lost, and `main()` waits for ever
  (`StopEnds` starts with a signal that comes later);
* a DNS check whose `socket()` fails stays running for ever (`healthcheck_dns.cpp:126`;
  `HeldRunsEnd` is about runs that hold something);
* for the DNS query ".", the default, the question is one byte too long: the length of the
  root label is written twice, and type and class are 0 and 256 (`QuestionsAreRight` is about
  names with labels);
* a late answer to a DNS check's earlier run fails the current one;
* a HTTP server that keeps sending keeps the run going beyond `hc_timeout`;
* the assertions of the PostgreSQL check are not all kept: a result that comes in two pieces
  fails the one that the connection is idle (`healthcheck_postgres.cpp:252`), a socket that is
  readable and writable at once the one on the event's flag (`:382`), a connection that breaks
  in `PQflush()` or `PQsendQuery()` the ones on its status (`:208`, `:180`), and input that is
  consumed early the one that a query is under way (`:209`). Each aborts testtool;
* a ping timeout clears slot 0 of the map instead of its own; the reply to a request with
  number 0 may be lost by it (`NonzeroAnswersAreHeard` excludes that number).

## Fairness

`testtool_live`, `worker` and `check_types` need fairness. `Testtool`: the parts of a started
callback follow (weak); callbacks that need an idle main loop come again and again as
timers or events that stay pending, so each gets its turn (strong): scheduling a check,
its end, the syncer, the worker check. The worker goes on (weak), and `daemon(8)` restarts
a dead testtool (weak). Reloads, crashes and clients have none. `PfctlWorker`: each process
takes its next step unless it is killed or blocked; that `timed_receive()` throws, which also
ends a worker's loop (`ReceiveFails`), is never assumed. `CheckTypes`: timers run out (weak
fairness of `TimeoutOf`): libevent calls back for a timer that stays set, and the finalizer's
timer has every ping check looked at again and again. No answer, event or start of a run is
assumed to come.

`EventuallyInstalled` assumes that the wanted nodes stop changing and that both
processes live from some time on; `BothProcessesReturn` assumes nothing else. That every check
ends, which `Testtool` takes for granted, is what `HeldRunsEnd` shows,
with three exceptions: a dummy check, used by tests only, a DNS check without a socket, and an
HTTP check whose server never falls silent. A pool with only such checks is outside
`EventuallyInstalled`.

## Proofs

| Module | Theorems | State | Rest on |
|---|---|---|---|
| `LbPoolProofs` | `TypeCorrect` | `TypeOK` | one lemma per operation |
| | `AdminStateFollowsConfig`, `UpNodesPassAllChecks` | `AdminFollowsConfig`, `UpMeansAllChecksUp` | inductive with `TypeOK` |
| | `StateIsPublished` | `StatePublished` | `PoolStep`, `LogicOutcome` |
| | `UsersFollowTheirBackup` | `BackupsInStep` | `InStepOrInCalls` |
| `LbPoolWantedProofs` | `PoolsServe`, `BackupsAreNeeded` | `PoolsServeTheirNodes`, `BackupOnlyWhenShort` | `TakeFirstCount`, `LogicResults` |
| | `NodesKeepTheirPlace` | `NoDisplacement` | `KeptInv` |
| | `NoDowntimedNodeAnywhere` | `NoTrafficToDowntimedNodes` | the lemma `NoDowntimedNodeWanted` (a pool's own nodes), `BackupsInStep`; no cycle of backups |
| `CheckTypesLemmas` | `PingTypeCorrect`, `NoFalsePass`, `AnswersGetThrough` | `PingTypeOK`, `PassesAreAnswered`, `NonzeroAnswersAreHeard` | `PingInv` |
| `PfctlProofs` | `PfTypeCorrect`, `SyncsInstallTheirMessage`, `RemovalsSilence` | `PfTypeOK`, `SyncInstallsMessage`, `RemovedNodesAreSilent` | `PfInv` |
| | `SyncsKeepWantedNodes`, `SyncsSpareOtherStates` | `WantedNodesStay`, `OnlyRemovalsKillStates` | `PfInv` |
| `PfctlWorkerProofs` | `WorkerTypeCorrect`, `QueueIsCreated`, `WorkersReadOwnQueue`, `CreationIsAwaited` | `WorkerTypeOK`, `NameIsFree`, `ReadsOwnQueue`, `AwaitsCreation` | `WorkerInv` |
| | `SyncsAgree` | `SyncsAgreeWhereMessagesDo` | `OrphanInv` |
| `CheckTypesProofs` | `TypesKeepContract` | `KeepsContract`, a refinement | `TypesInv`, one lemma per type |
| | `OnlyRunnersHold`, `ChainsStayWhole`, `LinksStayInOrder`, `NoFalseDnsPass` | `HoldersRun`, `ChainsAreWhole`, `LinksAreInOrder`, `DnsPassesAreAnswered` | `TypesInv` |
| | `AllTypesTyped` | `TypesTypeOK` | `MembersInv` |
| | `HttpResultsHold` | `HttpResultsAreTheirs` | `MembersInv`, `HttpAssumption` |
| | `QuestionsHold` | `QuestionsAreRight`, and the same for names of any number of labels | `QuestionIsCoded` |
| | `CksumsHold` | `CksumsVerify`, and the same for packets of up to 2^15 words | `CksumVerifies` |
| | `DiffsFloor` | `DiffsAreFloors`, and the same for all times | arithmetic |
| | `TypeCorrect` (of `HealthcheckHistory`) | `TypeOK` | inductive as it stands |
| | `CounterFollowsFailures`, `FailuresTakeCheckDown`, `OnlyFailuresTakeCheckDown` | `CounterIsStreak`, `DownAfterThatManyFailures`, `DownOnlyAfterContiguousFailures` | `CounterFits` |
| `TesttoolProofs` | `QueueIsLatest` | `QueueTellsLatest` | `NextTellsLatest`, in `TesttoolLemmas` |
| | `MainSurvivesCrashes`, `PlacesSurviveCrashes` | the invariants of `LbPool`, `NoDisplacement`, for `TesttoolSpec` | `MainInv` |
| | `TrafficSurvivesCrashes` | the properties of `Pfctl`, for `TesttoolSpec` | `PfInv` |
| | `RestartsKeepTraffic` | `RestartKeepsTraffic` | `FitInv` |
| | `NothingIsLost` | `SyncedMeansUnderWay` | `FitInv`, `Ranked`; no cycle of backups |
| | `QuietTablesAreRight` | at rest, each table is what its pool wants and enabled | the above; no cycle of backups |

They hold for every set of checks, nodes, pools, clients and ports, every configuration, queue
length, number of incarnations and width of the counters that the named assumptions of the
modules allow; cyclic backups are included in all but `NoDowntimedNodeAnywhere`, `NothingIsLost`
and `QuietTablesAreRight`, which take a ranking of the pools in which a backup is below its users.

*Checks.* `hard_state` does not tell how often a check failed. `CounterIsStreak` says that
while a check is up its counter is the number of contiguous failures and below the limit;
it is inductive if every limit fits the counter, which `CounterFits` assumes and the code
does not enforce.

*Pools.* `PoolStep` says of any step that it either leaves the pools alone or runs
`pool_logic()` of one pool, whose turn it is and of which alone nodes changed;
`LogicOutcome` says what such a run leaves behind. Most theorems follow from the two
without looking at the actions again. `BackupsInStep` speaks of the moments between
callbacks and is not inductive: in the middle of a callback a user may lag behind its
backup. `InStepOrInCalls` says that such a user's turn is still to come, which survives
each step because `update_pfctl()` puts all users of a changed pool in front of those that
wait, and no turn of a pool on its backup is skipped.

*Wanted nodes.* The loops of `pool_logic()` that stop at a size are counted first:
`TakeFirstCount` says how many nodes such a loop takes, by the least size for which it were
wrong (a set of naturals that is not empty has a least member, which is the form of induction
that the provers can use). `AvailableCount` and `ForceUpCount` add up the loops of each phase;
that `max_nodes` is never below `min_nodes`, which the constructor sees to, is what makes a
pool that is short of nodes want all of its up nodes. `KeptInv` ties `max_nodes_kept` to the
nodes: the flag is on up nodes only, on no more of them than `max_nodes`, and on every up node
that gets traffic, so that a node that comes up finds the places taken.

*Ping and DNS.* A reply is judged by the map alone, so `PingInv` ties the map to the checks: a
slot that leads to a check by that check's own number means that the check runs, and a
packet of a current run carries the last number of its check. `DnsInv`, a part of `TypesInv`,
says the same of transaction ids: a datagram with the id of a check that has a socket is its own.

*Syncs.* That a table is right at the end of `pf_sync_table()` does not follow from a state
in which commands are left to run. `TableOK` says what the table still lacks and still has too
much at each command; `SilentOK` says which traffic is left after each of the three kills of a
node: none in `src_nodes` after the first until a deferred one is made, and so on to the last.
`PfctlWorkerProofs` uses the lemmas of `PfctlProofs` twice, for the new call and, instantiated
with the orphan's, for the old one. `TableOK` therefore takes the message of the other call as
a parameter, and claims only what both messages agree on. What a finished sync leaves is claimed
as long as no other has started: `synced` keeps its message, and `OrphanInv` says that the
commands an orphan still has to run cannot leave what the two messages agree on.

*Worker.* At most one main process lives, the name belongs to the last queue that was created,
and as long as every start was clean there is no orphan; these are not visible in the
properties but needed to prove them.

*Contract.* Five lemmas say what a step has to do to be one of the contract (`StartStep`,
`EndStep`, `FailStep`, `DieStep`, `NoStep`); one lemma per type shows that each of its steps
does one of these and keeps `TypesInv`, in which the chain of the PostgreSQL check is the
largest part: which status of the connection and which flags each link may find.

*Members.* `MembersInv` joins the types of all members with `TypesInv` and with
`RepliesAreSaid`: what an HTTP check has read is the part of its server's answer that has come in
this run. The code finds the status code by cutting the reply at the first line end and blank;
`HttpResultsAreTheirs` says where a code is by position. `CodeIsThere` shows for any text that a
code found by cutting is in its position. `HttpAssumption` only says that answers are texts and that there is one.

*Loops over data.* `build_dns_question()` and `in_cksum()` are loops over bytes, modelled by
recursive functions. The library's induction theorems cannot be used, but a set of naturals that
is not empty has a least member (`LeastNumber`), and from that follows what is needed of any loop:
its states exist and stay in a set that each step stays in (`LoopStates`), and two loops that do
the same agree (`LoopsAgree`).

* The DNS question: after byte `i` the buffer has the codes of all labels that end before `i`, and
  the label that is open starts and is as long as the loop says (`Reaches`, carried from byte to
  byte by `ReachesNext`). The theorem is about labels of up to 63 bytes, all that RFC 1035 allows
  and a `char` holds.
* The checksum: two foldings bring a sum of two words down to one word, its carry added
  (`FoldedIs`); packets of up to 2^16 bytes have such a sum, and an `int` holds it. Writing
  the checksum into its blank word adds it to the sum (`SumChanged`), and the total then
  folds to all ones (`FoldedVerifies`). The width of a byte is any number.

*The whole.* A step of `Testtool` is one of the main process, of the worker, of a client, or the
death or start of a process (`MainStep`, `WorkerSteps`, `QueueSteps`), so that `MainInv` (the
invariants of the main process) and `PfInv` (those of a sync) are each looked at once (what does not
need the main process's invariants is in `TesttoolLemmas`): the first
has to survive a start from any tables, the second a worker that is gone in the middle of a call.
A restart adopts what it finds in the tables, and `RestartKeepsTraffic` needs that this is never too
much. `WantedFit` says that no pool wants more than `max_nodes` nodes of any pool, and `TablesFit`
follows it through the queue and each command of a sync: a sync removes before it adds, so not
even a half-finished one leaves more. `SyncedMeansUnderWay` is not about one place: the last message
of a pool in the queue counts, else the worker's, else the table. `OutcomeOf` takes these three as
arguments, and lemmas say how sending, receiving and finishing change it; a send that is refused
leaves the pool not synced. The ranking is needed since a worker
installs the enabled nodes of a message only: through a cycle of backups a pool could want own nodes
that its backup has not yet let go. `Ranked` says that a pool on its backup wants none of its own.

The type invariants of `Healthcheck` and `Ping` are part of `TypesTypeOK`; those of the other modules,
`StatePublished` and `CounterIsStreak` are proved and no run repeats them.

Only model-checked: liveness (`HeldRunsEnd`, `EventuallyInstalled`, `BothProcessesReturn`,
`OrphansLeave`, `StopEnds`), which is out of the prover's reach, like `ENABLED`. Every invariant,
action property and refinement that a passing run checks has a theorem. No recursive operator is
used; loops over bytes are recursive functions.

## Not modelled

* Time: due times and the length of timeouts; `DiffsAreFloors` is about the function alone.
* Payload that testtool never reads back: the query and templates of HTTP checks, the header
  flags of DNS queries, the layout of ping packets. A ping packet or DNS datagram is assumed to
  be gone when its number is used again, 2^16 requests later. The two sockets of ping are one.
* `HC_PANIC` and failed assertions of a check end the process in `CheckTypes`; what comes after
  that is `MainDies` and `Restart` of `Testtool`.
* The status file, option parsing, logging and typed access to the configuration: input and
  output without state of their own.
* `pfctl` killed by a signal, which `pfctl_run_command()` takes for success, and the option
  `-n`, under which no command runs.
* In `Testtool` a restart waits for the orphaned worker to finish its last sync; in
  `PfctlOrphan` it does not, and in `PfctlWorker`, which has no messages, neither.
* Pools that are each other's backup: when both are short of nodes the code recurses without
  end. No run has such a cycle (the theorems allow it).

## Open

* An abstract specification of what a pool promises (its table is what its nodes ask for,
  after a delay) that `Testtool` refines; `EventuallyInstalled`, `SyncedMeansUnderWay` and
  `QuietTablesAreRight` say parts of it.
