-------------------------- MODULE CheckTypesProofs --------------------------
(***************************************************************************)
(* Proofs about module CheckTypes, for any checks, ports, answers and      *)
(* limits: every type of check implements the contract of CheckContract,   *)
(* what they inherit counts failures as max_failed_checks says, an HTTP    *)
(* result is the server's, and questions and checksums come out right.     *)
(***************************************************************************)
EXTENDS CheckTypes, CheckTypesLemmas

Types == {"dummy", "tcp", "http", "dns", "postgres", "ping"}

CStep == [Contract!ContractNext]_(Contract!contractVars)
-----------------------------------------------------------------------------
(* What a step of a check type has to do to be a step of the contract.     *)

LEMMA StartStep ==
  ASSUME NEW h \in Checks, process = "running", process' = "running",
         h \notin Held, Held' = Held \cup {h}, outcome' = outcome
  PROVE  CStep
<1>1. Contract!Start(h)
  BY DEF Contract!Start
<1> QED
  BY <1>1 DEF CStep, Contract!ContractNext

LEMMA EndStep ==
  ASSUME NEW h \in Checks, NEW result \in {"HC_PASS", "HC_FAIL", "HC_DRAIN"},
         process = "running", process' = "running",
         h \in Held, Held' = Held \ {h}, outcome' = [outcome EXCEPT ![h] = result]
  PROVE  CStep
<1>1. Contract!End(h, result) /\ result \in Contract!Results
  BY DEF Contract!End, Contract!Results
<1> QED
  BY <1>1 DEF CStep, Contract!ContractNext

LEMMA FailStep ==
  ASSUME NEW h \in Checks, process = "running", process' = "running",
         h \notin Held, Held' = Held, outcome' = [outcome EXCEPT ![h] = "HC_FAIL"]
  PROVE  CStep
<1>1. Contract!FailAtOnce(h)
  BY DEF Contract!FailAtOnce
<1> QED
  BY <1>1 DEF CStep, Contract!ContractNext

LEMMA DieStep ==
  ASSUME process = "running", process' # "running", Held' \subseteq Held, outcome' = outcome
  PROVE  CStep
<1>1. Contract!Die
  BY DEF Contract!Die
<1> QED
  BY <1>1 DEF CStep, Contract!ContractNext

LEMMA NoStep ==
  ASSUME (process = "running") <=> (process' = "running"), Held' = Held, outcome' = outcome
  PROVE  CStep
  BY DEF CStep, Contract!contractVars
-----------------------------------------------------------------------------
(* How a run ends, for all types.                                          *)
LEMMA FinishRun ==
  ASSUME RunTypeOK, NEW h \in Checks,
         NEW result \in {"HC_PASS", "HC_FAIL", "HC_DRAIN", "HC_PANIC"}, Finish(h, result)
  PROVE  /\ RunTypeOK'
         /\ \/ /\ result = "HC_PANIC" /\ process' = "exited"
               /\ is_running' = is_running /\ outcome' = outcome
            \/ /\ result \in {"HC_PASS", "HC_FAIL", "HC_DRAIN"} /\ process' = process
               /\ is_running' = is_running \ {h}
               /\ outcome' = [outcome EXCEPT ![h] = result]
  BY DEF Finish, RunTypeOK

(* A process that no assertion has ended.                                  *)
NoAssert == process \in {"running", "stopped", "exited"}

(* The checks with a bufferevent are those that run, until the process     *)
(* stops.                                                                  *)
BevsRun(bev) == bev \subseteq is_running /\ (process = "running" => bev = is_running)

LEMMA TcpKeeps ==
  ASSUME RunTypeOK, NoAssert, type = "tcp", type' = type, BevsRun(tcp_bev),
         NEW h \in Checks, TcpStep(h)
  PROVE  RunTypeOK' /\ NoAssert' /\ BevsRun(tcp_bev)' /\ CStep
<1> USE DEF BevsRun, NoAssert
<1>0. Held = tcp_bev /\ Held' = tcp_bev'
  BY DEF Held
<1>1. CASE MayStart(h) /\ tcp_bev' = tcp_bev \cup {h} /\ Begin(h)
  <2>1. RunTypeOK' /\ BevsRun(tcp_bev)' /\ NoAssert'
    BY <1>1 DEF MayStart, Begin, RunTypeOK
  <2>2. CStep
    BY <1>0, <1>1, StartStep DEF MayStart, Begin
  <2> QED
    BY <2>1, <2>2
<1>2. CASE MayStart(h) /\ TcpEndCheck(h, "HC_FAIL")
  <2>1. /\ RunTypeOK' /\ process' = process /\ is_running' = is_running \ {h}
        /\ outcome' = [outcome EXCEPT ![h] = "HC_FAIL"]
    BY <1>2, FinishRun DEF TcpEndCheck
  <2>2. tcp_bev' = tcp_bev /\ h \notin tcp_bev /\ is_running' = is_running
    BY <1>2, <2>1 DEF TcpEndCheck, MayStart
  <2>3. CStep
    BY <1>0, <1>2, <2>1, <2>2, FailStep, Zenon DEF MayStart
  <2> QED
    BY <2>1, <2>2, <2>3
<1>3. CASE MayStart(h) /\ Throw(h) /\ UNCHANGED tcp_bev
  <2>1. RunTypeOK' /\ BevsRun(tcp_bev)' /\ NoAssert'
    BY <1>3 DEF MayStart, Throw, RunTypeOK
  <2>2. CStep
    BY <1>0, <1>3, DieStep DEF MayStart, Throw
  <2> QED
    BY <2>1, <2>2
<1>4. ASSUME NEW events \in TcpEvents, TcpEvent(h, events)
      PROVE  RunTypeOK' /\ NoAssert' /\ BevsRun(tcp_bev)' /\ CStep
  <2>1. TcpResult(events) \in {"HC_PASS", "HC_FAIL"}
    BY DEF TcpEvents, TcpResult
  <2>2. /\ RunTypeOK' /\ process' = process /\ is_running' = is_running \ {h}
        /\ outcome' = [outcome EXCEPT ![h] = TcpResult(events)]
    BY <1>4, <2>1, FinishRun DEF TcpEvent, TcpEndCheck
  <2>3. /\ process = "running" /\ h \in tcp_bev /\ tcp_bev' = tcp_bev \ {h}
    BY <1>4 DEF TcpEvent, TcpEndCheck
  <2>4. CStep
    BY <1>0, <2>1, <2>2, <2>3, EndStep, Zenon
  <2> QED
    BY <2>2, <2>3, <2>4
<1> QED
  BY <1>1, <1>2, <1>3, <1>4 DEF TcpStep, ScheduleTcp

LEMMA HttpKeeps ==
  ASSUME RunTypeOK, NoAssert, type = "http", type' = type, BevsRun(http_bev),
         NEW h \in Checks, HttpStep(h)
  PROVE  RunTypeOK' /\ NoAssert' /\ BevsRun(http_bev)' /\ CStep
<1> USE DEF BevsRun, NoAssert
<1>0. Held = http_bev /\ Held' = http_bev'
  BY DEF Held
<1>1. CASE MayStart(h) /\ http_bev' = http_bev \cup {h} /\ Begin(h)
  <2>1. RunTypeOK' /\ BevsRun(http_bev)' /\ NoAssert'
    BY <1>1 DEF MayStart, Begin, RunTypeOK
  <2>2. CStep
    BY <1>0, <1>1, StartStep DEF MayStart, Begin
  <2> QED
    BY <2>1, <2>2
<1>2. CASE MayStart(h) /\ Finish(h, "HC_FAIL") /\ http_bev' = http_bev
  <2>1. /\ RunTypeOK' /\ process' = process /\ is_running' = is_running \ {h}
        /\ outcome' = [outcome EXCEPT ![h] = "HC_FAIL"]
    BY <1>2, FinishRun
  <2>2. h \notin http_bev /\ is_running' = is_running
    BY <1>2, <2>1 DEF MayStart
  <2>3. CStep
    BY <1>0, <1>2, <2>1, <2>2, FailStep, Zenon DEF MayStart
  <2> QED
    BY <1>2, <2>1, <2>2, <2>3, ZenonT(60)
<1>3. CASE MayStart(h) /\ Throw(h) /\ http_bev' = http_bev
  <2>1. RunTypeOK' /\ BevsRun(http_bev)' /\ NoAssert'
    BY <1>3 DEF MayStart, Throw, RunTypeOK
  <2>2. CStep
    BY <1>0, <1>3, DieStep DEF MayStart, Throw
  <2> QED
    BY <2>1, <2>2, ZenonT(60)
<1>4. ASSUME NEW result \in {"HC_PASS", "HC_FAIL", "HC_DRAIN"}, HttpEndCheck(h, result),
             process = "running", h \in http_bev
      PROVE  RunTypeOK' /\ NoAssert' /\ BevsRun(http_bev)' /\ CStep
  <2>1. /\ RunTypeOK' /\ process' = process /\ is_running' = is_running \ {h}
        /\ outcome' = [outcome EXCEPT ![h] = result]
    BY <1>4, FinishRun DEF HttpEndCheck
  <2>2. http_bev' = http_bev \ {h}
    BY <1>4 DEF HttpEndCheck
  <2>3. CStep
    BY <1>0, <1>4, <2>1, <2>2, EndStep, ZenonT(60)
  <2> QED
    BY <1>4, <2>1, <2>2, <2>3, ZenonT(60)
<1>5. CASE UNCHANGED <<runVars, http_bev>>
  <2>1. RunTypeOK' /\ BevsRun(http_bev)' /\ NoAssert'
    BY <1>5 DEF runVars, RunTypeOK
  <2>2. CStep
    BY <1>0, <1>5, NoStep, ZenonT(60) DEF runVars
  <2> QED
    BY <2>1, <2>2
<1>6. CASE ScheduleHttp(h)
  BY <1>1, <1>2, <1>3, <1>6, ZenonT(60) DEF ScheduleHttp, ScheduleHttpWith
<1>7. CASE ReadCallback(h)
  BY <1>5, <1>7 DEF ReadCallback
<1>8. CASE HttpTimer(h)
  BY <1>4, <1>5, <1>8 DEF HttpTimer
<1>9. ASSUME NEW event, HttpEvent(h, event)
      PROVE  RunTypeOK' /\ NoAssert' /\ BevsRun(http_bev)' /\ CStep
  <2>1. HttpResult(reply[h]) \in {"HC_PASS", "HC_FAIL", "HC_DRAIN"}
    BY DEF HttpResult
  <2> QED
    BY <1>4, <1>5, <1>9, <2>1 DEF HttpEvent, httpVars
<1> QED
  BY <1>6, <1>7, <1>8, <1>9, ZenonT(60) DEF HttpStep

(* The check of a datagram, and what tells whose answer it is.             *)
Datagram == [check : Checks, port : Ports, qid : Ids, run : {"current", "ended"}]

DnsInv ==
  /\ DnsTypeOK
  /\ \A h \in Checks : socket[h] # NoPort => h \in is_running
  /\ \A h \in Checks, d \in datagrams :
       socket[h] # NoPort /\ d.qid = my_transaction_id[h] => d.check = h /\ d.run = "current"

LEMMA DnsEndCheckKeeps ==
  ASSUME RunTypeOK, NoAssert, type = "dns", type' = type, DnsInv, NEW h \in Checks,
         NEW result \in {"HC_PASS", "HC_FAIL"}, DnsEndCheck(h, result),
         process = "running", socket[h] # NoPort
  PROVE  RunTypeOK' /\ NoAssert' /\ DnsInv' /\ CStep
<1>1. /\ RunTypeOK' /\ process' = process /\ is_running' = is_running \ {h}
      /\ outcome' = [outcome EXCEPT ![h] = result]
  BY FinishRun DEF DnsEndCheck
<1>2. socket' = [socket EXCEPT ![h] = NoPort] /\ socket \in [Checks -> Ports \cup {NoPort}]
  BY DEF DnsEndCheck, DnsInv, DnsTypeOK
<1>3. UNCHANGED <<global_transaction_id, my_transaction_id>>
  BY DEF DnsEndCheck
<1>4. ASSUME NEW e \in datagrams'
      PROVE  \E d \in datagrams :
               /\ e \in Datagram /\ e.qid = d.qid /\ e.check = d.check
               /\ d.check # h => e.run = d.run
  <2>1. PICK d \in datagrams : e = IF d.check = h THEN [d EXCEPT !.run = "ended"] ELSE d
    BY <1>4 DEF DnsEndCheck
  <2>2. d \in Datagram
    BY DEF DnsInv, DnsTypeOK, Datagram
  <2> QED
    BY <2>1, <2>2 DEF Datagram
<1>5. DnsTypeOK'
  BY <1>2, <1>3, <1>4, ZenonT(60) DEF DnsInv, DnsTypeOK, Datagram
<1>6. DnsInv'
  <2>1. \A g \in Checks : socket'[g] # NoPort => g \in is_running'
    BY <1>1, <1>2 DEF DnsInv
  <2>2. ASSUME NEW g \in Checks, NEW e \in datagrams', socket'[g] # NoPort,
               e.qid = my_transaction_id'[g]
        PROVE  e.check = g /\ e.run = "current"
    <3>1. PICK d \in datagrams :
               /\ e.qid = d.qid /\ e.check = d.check
               /\ d.check # h => e.run = d.run
      BY <1>4
    <3>2. socket[g] # NoPort /\ g # h
      BY <1>2, <2>2, ZenonT(60)
    <3>3. d.check = g /\ d.run = "current"
      BY <1>3, <2>2, <3>1, <3>2, ZenonT(60) DEF DnsInv
    <3> QED
      BY <3>1, <3>2, <3>3
  <2> QED
    BY <1>5, <2>1, <2>2 DEF DnsInv
<1>7. h \in Held /\ Held' = Held \ {h}
  BY <1>2 DEF Held
<1>8. CStep
  BY <1>1, <1>7, EndStep, ZenonT(60)
<1> QED
  BY <1>1, <1>6, <1>8 DEF NoAssert

LEMMA ScheduleDnsKeeps ==
  ASSUME RunTypeOK, NoAssert, type = "dns", type' = type, DnsInv, NEW h \in Checks,
         ScheduleDns(h)
  PROVE  RunTypeOK' /\ NoAssert' /\ DnsInv' /\ CStep
<1> DEFINE new(port) == [check |-> h, port |-> port, qid |-> NextId, run |-> "current"]
<1>1. /\ process = "running" /\ process' = process /\ outcome' = outcome
      /\ h \notin is_running /\ is_running' = is_running \cup {h}
      /\ IdIsFree(NextId) /\ global_transaction_id' = NextId
      /\ my_transaction_id' = [my_transaction_id EXCEPT ![h] = NextId]
  BY DEF ScheduleDns, MayStart, Begin
<1>2. NextId \in Ids /\ my_transaction_id \in [Checks -> Ids] /\ is_running \subseteq Checks
  BY DnsAssumption DEF DnsInv, DnsTypeOK, NextId, Ids, RunTypeOK
<1>3. RunTypeOK' /\ NoAssert'
  BY <1>1 DEF RunTypeOK, NoAssert
<1>4. socket[h] = NoPort /\ socket \in [Checks -> Ports \cup {NoPort}]
  BY <1>1 DEF DnsInv, DnsTypeOK
<1>5. ASSUME \A e \in datagrams' :
                e \in datagrams \/ (e \in Datagram /\ e.qid = NextId /\ e.check = h
                                    /\ e.run = "current")
      PROVE  /\ datagrams' \subseteq Datagram
             /\ \A g \in Checks, e \in datagrams' :
                  (g = h \/ socket[g] # NoPort) /\ e.qid = my_transaction_id'[g] =>
                    e.check = g /\ e.run = "current"
  <2>1. datagrams' \subseteq Datagram
    BY <1>5 DEF DnsInv, DnsTypeOK, Datagram
  <2>2. ASSUME NEW g \in Checks, NEW e \in datagrams', g = h \/ socket[g] # NoPort,
               e.qid = my_transaction_id'[g]
        PROVE  e.check = g /\ e.run = "current"
    <3>1. CASE g = h
      <4>1. my_transaction_id'[g] = NextId
        BY <1>1, <1>2, <3>1, ZenonT(60)
      <4> QED
        BY <1>1, <1>5, <2>2, <3>1, <4>1, ZenonT(60) DEF IdIsFree
    <3>2. CASE g # h
      <4>1. socket[g] # NoPort /\ my_transaction_id'[g] = my_transaction_id[g]
        BY <1>1, <1>2, <2>2, <3>2
      <4>2. my_transaction_id[g] # NextId
        BY <1>1, <4>1 DEF IdIsFree
      <4> QED
        BY <1>5, <2>2, <4>1, <4>2, SMTT(60) DEF DnsInv
    <3> QED
      BY <3>1, <3>2
  <2> QED
    BY <2>1, <2>2
<1>6. CASE UNCHANGED <<socket, datagrams>>
  <2>1. DnsTypeOK'
    BY <1>1, <1>2, <1>6, ZenonT(60) DEF DnsInv, DnsTypeOK
  <2>2. DnsInv'
    BY <1>1, <1>4, <1>5, <1>6, <2>1, ZenonT(60) DEF DnsInv
  <2>3. CStep
    BY <1>1, <1>6, NoStep DEF Held
  <2> QED
    BY <1>3, <2>2, <2>3, ZenonT(60)
<1>7. ASSUME NEW port \in Ports, socket' = [socket EXCEPT ![h] = port],
             NEW sent \in SUBSET {new(port)}, datagrams' = datagrams \cup sent
      PROVE  RunTypeOK' /\ NoAssert' /\ DnsInv' /\ CStep
  <2>1. /\ new(port) \in Datagram /\ new(port).qid = NextId /\ new(port).check = h
        /\ new(port).run = "current"
    BY <1>2 DEF Datagram
  <2> HIDE DEF new
  <2>2. \A e \in datagrams' :
          e \in datagrams \/ (e \in Datagram /\ e.qid = NextId /\ e.check = h
                              /\ e.run = "current")
    BY <1>7, <2>1, ZenonT(60)
  <2>3. /\ datagrams' \subseteq Datagram
        /\ \A g \in Checks, e \in datagrams' :
             (g = h \/ socket[g] # NoPort) /\ e.qid = my_transaction_id'[g] =>
               e.check = g /\ e.run = "current"
    BY <1>5, <2>2, ZenonT(60)
  <2>4. DnsTypeOK'
    BY <1>1, <1>2, <1>4, <1>7, <2>3, ZenonT(60) DEF DnsTypeOK, Datagram
  <2>5. \A g \in Checks : socket'[g] # NoPort =>
          g \in is_running' /\ (g = h \/ socket[g] # NoPort)
    BY <1>1, <1>4, <1>7, ZenonT(60) DEF DnsInv
  <2>6. DnsInv'
    BY <2>3, <2>4, <2>5, ZenonT(60) DEF DnsInv
  <2>7. h \notin Held /\ Held' = Held \cup {h}
    BY <1>4, <1>7, DnsAssumption, ZenonT(60) DEF Held
  <2>8. CStep
    BY <1>1, <2>7, StartStep, ZenonT(60)
  <2> QED
    BY <1>3, <2>6, <2>8, ZenonT(60)
<1> QED
  BY <1>6, <1>7 DEF ScheduleDns

LEMMA DnsKeeps ==
  ASSUME RunTypeOK, NoAssert, type = "dns", type' = type, DnsInv, DnsNext
  PROVE  RunTypeOK' /\ NoAssert' /\ DnsInv' /\ CStep
<1>1. ASSUME NEW h \in Checks, DnsFailure(h)
      PROVE  RunTypeOK' /\ NoAssert' /\ DnsInv' /\ CStep
  BY <1>1, DnsEndCheckKeeps, ZenonT(60) DEF DnsFailure
<1>2. ASSUME NEW h \in Checks, NEW d \in datagrams, NEW content \in Contents,
             DnsAnswer(h, d, content)
      PROVE  RunTypeOK' /\ NoAssert' /\ DnsInv' /\ CStep
  <2>1. DnsResult(h, d.qid, content) \in {"HC_PASS", "HC_FAIL"}
    BY DEF DnsResult
  <2>2. socket[h] # NoPort
    BY <1>2, DnsAssumption DEF DnsAnswer, DnsInv, DnsTypeOK
  <2> QED
    BY <1>2, <2>1, <2>2, DnsEndCheckKeeps, ZenonT(60) DEF DnsAnswer
<1>3. ASSUME NEW d \in datagrams, LoseDatagram(d)
      PROVE  RunTypeOK' /\ NoAssert' /\ DnsInv' /\ CStep
  <2>1. RunTypeOK' /\ NoAssert' /\ DnsInv'
    BY <1>3, ZenonT(60) DEF LoseDatagram, runVars, RunTypeOK, NoAssert, DnsInv, DnsTypeOK
  <2>2. CStep
    BY <1>3, NoStep DEF LoseDatagram, runVars, Held
  <2> QED
    BY <2>1, <2>2, ZenonT(60)
<1> QED
  BY <1>1, <1>2, <1>3, ScheduleDnsKeeps, ZenonT(60) DEF DnsNext
-----------------------------------------------------------------------------
(* PostgreSQL: what each link of the chain finds.                          *)

OutOfOrder == {"assert poll_conn status", "assert send_query idle",
               "assert handle_query flag", "assert handle_query status"}

InOrder(c) ==
  /\ c.callback_method = "poll_conn" => c.conn = "made" /\ ~c.busy
  /\ c.callback_method = "send_query" => ~c.busy
  /\ c.callback_method = "handle_query" => c.conn = "ok" /\ c.io_event = {"EV_READ"}

(* The members of a check whose run goes on; io_event may be freed.        *)
Alive(c) == c \in Members /\ c.conn # "NULL" /\ c.timeout_event

PgInv ==
  /\ pg \in [Checks -> Members]
  /\ LinksAreInOrder
  /\ \A h \in Checks : pg[h].conn # "NULL" => h \in is_running
  /\ process = "running" =>
       \A h \in Checks :
         /\ pg[h].conn # "NULL" <=> pg[h].timeout_event
         /\ pg[h].io_event # {} <=> pg[h].timeout_event
         /\ h \in is_running <=> pg[h].timeout_event
         /\ pg[h].timeout_event => InOrder(pg[h])

(* A callback ends the run, waits for the next event, or aborts.           *)
PgEnds(h) == \E result \in {"HC_PASS", "HC_FAIL", "HC_PANIC"} : PgEndCheck(h, result)

PgGoesOn(h) ==
  \E c \in Members :
    /\ Alive(c) /\ c.io_event # {} /\ InOrder(c)
    /\ pg' = [pg EXCEPT ![h] = c] /\ Begin(h)

PgAborts == \E a \in Assertions \ OutOfOrder : PgAbort(a)

PgDone(h) == PgEnds(h) \/ PgGoesOn(h) \/ PgAborts

LEMMA RegisterForm ==
  ASSUME NEW h \in Checks, NEW c, Alive(c), NEW flags \in SUBSET Flags, flags # {},
         NEW method \in {"poll_conn", "send_query", "flush_query", "handle_query"},
         method = "poll_conn" => c.conn = "made" /\ ~c.busy,
         method = "send_query" => ~c.busy,
         method = "handle_query" => c.conn = "ok" /\ flags = {"EV_READ"},
         RegisterIoEvent(h, c, flags, method)
  PROVE  PgDone(h)
<1>1. CASE PgEndCheck(h, "HC_PANIC")
  BY <1>1 DEF PgDone, PgEnds
<1>2. CASE /\ c.event_counter <= MaxEvents
           /\ pg' = [pg EXCEPT ![h] = [c EXCEPT !.io_event = flags, !.callback_method = method,
                                                !.event_counter = @ + 1]]
           /\ Begin(h)
  <2> DEFINE d == [c EXCEPT !.io_event = flags, !.callback_method = method,
                            !.event_counter = c.event_counter + 1]
  <2>1. c.event_counter + 1 \in 0 .. MaxEvents + 1
    BY <1>2, PostgresAssumption DEF Alive, Members
  <2>2. d \in Members
    BY <2>1, Zenon DEF Alive, Members
  <2>3. Alive(d) /\ d.io_event = flags /\ d.callback_method = method
        /\ d.conn = c.conn /\ d.busy = c.busy
    BY <2>2, ZenonT(60) DEF Alive, Members
  <2> HIDE DEF d
  <2>4. InOrder(d)
    BY <2>3 DEF InOrder
  <2>5. pg' = [pg EXCEPT ![h] = d] /\ Begin(h)
    BY <1>2 DEF d
  <2>6. PgGoesOn(h)
    BY <2>2, <2>3, <2>4, <2>5, ZenonT(60) DEF PgGoesOn
  <2> QED
    BY <2>6 DEF PgDone
<1> QED
  BY <1>1, <1>2 DEF RegisterIoEvent

LEMMA FlagsFacts ==
  /\ Flags \in SUBSET Flags /\ Flags # {}
  /\ {"EV_WRITE"} \in SUBSET Flags /\ {"EV_READ"} \in SUBSET Flags
  /\ \A f \in Flags : {f} \in SUBSET Flags
  BY DEF Flags

LEMMA FlushForm ==
  ASSUME NEW h \in Checks, NEW c, Alive(c), FlushQuery(h, c)
  PROVE  PgDone(h)
<1>1. ASSUME NEW d, Alive(d), d.conn = "ok", PgFlush(h, d)
      PROVE  PgDone(h)
  <2>1. CASE RegisterIoEvent(h, d, {"EV_READ"}, "handle_query")
    BY <1>1, <2>1, RegisterForm, FlagsFacts, ZenonT(60)
  <2>2. ASSUME NEW status \in {"ok", "bad"},
               RegisterIoEvent(h, [d EXCEPT !.conn = status], Flags, "flush_query")
        PROVE  PgDone(h)
    <3>1. Alive([d EXCEPT !.conn = status])
      BY <1>1 DEF Alive, Members
    <3> QED
      BY <2>2, <3>1, RegisterForm, FlagsFacts, ZenonT(60)
  <2> QED
    BY <1>1, <2>1, <2>2, ZenonT(60) DEF PgFlush
<1>2. CASE c.conn # "ok" \/ ~c.busy
  BY <1>2 DEF FlushQuery, PgDone, PgAborts, Assertions, OutOfOrder
<1>3. CASE c.conn = "ok" /\ c.busy
  <2>1. CASE PgEndCheck(h, "HC_FAIL")
    BY <2>1 DEF PgDone, PgEnds
  <2>2. ASSUME NEW b \in BOOLEAN, PgFlush(h, [c EXCEPT !.busy = b])
        PROVE  PgDone(h)
    <3>1. Alive([c EXCEPT !.busy = b]) /\ [c EXCEPT !.busy = b].conn = "ok"
      BY <1>3 DEF Alive, Members
    <3> QED
      BY <1>1, <2>2, <3>1, Zenon
  <2>3. CASE PgFlush(h, c)
    BY <1>1, <1>3, <2>3, ZenonT(60)
  <2> QED
    BY <1>3, <2>1, <2>2, <2>3, Zenon DEF FlushQuery
<1> QED
  BY <1>2, <1>3 DEF Alive, Members

LEMMA SendForm ==
  ASSUME NEW h \in Checks, NEW c, Alive(c), ~c.busy, SendQuery(h, c)
  PROVE  PgDone(h)
<1>1. CASE c.conn # "ok"
  BY <1>1 DEF SendQuery, PgDone, PgAborts, Assertions, OutOfOrder
<1>2. ASSUME NEW status \in {"ok", "bad"},
             RegisterIoEvent(h, [c EXCEPT !.conn = status], {"EV_WRITE"}, "send_query")
      PROVE  PgDone(h)
  <2>1. Alive([c EXCEPT !.conn = status]) /\ ~[c EXCEPT !.conn = status].busy
    BY DEF Alive, Members
  <2> QED
    BY <1>2, <2>1, RegisterForm, FlagsFacts, Zenon
<1>3. CASE FlushQuery(h, [c EXCEPT !.busy = TRUE])
  <2>1. Alive([c EXCEPT !.busy = TRUE])
    BY Zenon DEF Alive, Members
  <2> QED
    BY <1>3, <2>1, FlushForm
<1> QED
  BY <1>1, <1>2, <1>3 DEF SendQuery

LEMMA PollForm ==
  ASSUME NEW h \in Checks, NEW c, Alive(c), c.conn = "made", ~c.busy, PollConn(h, c)
  PROVE  PgDone(h)
<1>1. ASSUME NEW flag \in Flags, RegisterIoEvent(h, c, {flag}, "poll_conn")
      PROVE  PgDone(h)
  BY <1>1, RegisterForm, FlagsFacts
<1>2. CASE PgEndCheck(h, "HC_FAIL")
  BY <1>2 DEF PgDone, PgEnds
<1>3. CASE SendQuery(h, [c EXCEPT !.conn = "ok"])
  <2>1. Alive([c EXCEPT !.conn = "ok"]) /\ ~[c EXCEPT !.conn = "ok"].busy
    BY DEF Alive, Members
  <2> QED
    BY <1>3, <2>1, SendForm, Zenon
<1> QED
  BY <1>1, <1>2, <1>3, Zenon DEF PollConn

LEMMA HandleForm ==
  ASSUME NEW h \in Checks, NEW c, c.conn = "ok", c.event_flag = "EV_READ", HandleQuery(h, c)
  PROVE  PgDone(h)
  BY DEF HandleQuery, PgDone, PgEnds, PgAborts, Assertions, OutOfOrder

LEMMA FreshFacts ==
  /\ Fresh \in Members /\ Fresh.conn = "NULL" /\ ~Fresh.timeout_event
  /\ Fresh.io_event = {} /\ ~Fresh.busy
  BY PostgresAssumption DEF Fresh, Members

(* The forms keep the invariant and the contract, for a check that has not *)
(* started yet and for one that runs.                                      *)
LEMMA DoneKeeps ==
  ASSUME RunTypeOK, type = "postgres", type' = type, PgInv, process = "running",
         NEW h \in Checks, PgDone(h), PgEnds(h) => pg[h].conn # "NULL"
  PROVE  RunTypeOK' /\ PgInv' /\ CStep
<1>0. /\ pg \in [Checks -> Members]
      /\ Held = {g \in Checks : pg[g].conn # "NULL"}
      /\ Held' = {g \in Checks : pg'[g].conn # "NULL"}
  BY DEF PgInv, Held
<1>1. CASE PgAborts
  <2>1. PICK a \in Assertions \ OutOfOrder :
          process' = a /\ UNCHANGED <<is_running, outcome, pg>>
    BY <1>1 DEF PgAborts, PgAbort, Abort
  <2>2. a # "running"
    BY DEF Assertions
  <2>3. RunTypeOK' /\ PgInv'
    BY <2>1, <2>2 DEF RunTypeOK, PgInv, LinksAreInOrder, OutOfOrder
  <2>4. CStep
    BY <1>0, <2>1, <2>2, DieStep, ZenonT(60)
  <2> QED
    BY <2>3, <2>4
<1>2. CASE PgGoesOn(h)
  <2>1. PICK c \in Members :
          /\ Alive(c) /\ c.io_event # {} /\ InOrder(c)
          /\ pg' = [pg EXCEPT ![h] = c] /\ Begin(h)
    BY <1>2, ZenonT(60) DEF PgGoesOn
  <2>2. /\ is_running' = is_running \cup {h} /\ outcome' = outcome /\ process' = process
        /\ RunTypeOK'
    BY <2>1, ZenonT(60) DEF Begin, RunTypeOK
  <2>3. pg'[h] = c /\ \A g \in Checks : g # h => pg'[g] = pg[g]
    BY <1>0, <2>1, ZenonT(60)
  <2>4. PgInv'
    BY <1>0, <2>1, <2>2, <2>3, ZenonT(60) DEF PgInv, LinksAreInOrder, Alive
  <2>5. Held' = Held \cup {h}
    BY <1>0, <2>1, <2>3, ZenonT(60) DEF Alive
  <2>6. ASSUME h \in Held PROVE CStep
    BY <2>2, <2>5, <2>6, NoStep, ZenonT(60)
  <2>7. ASSUME h \notin Held PROVE CStep
    BY <2>2, <2>5, <2>7, StartStep, ZenonT(60)
  <2> QED
    BY <2>2, <2>4, <2>6, <2>7, ZenonT(60)
<1>3. CASE PgEnds(h)
  <2>1. PICK result \in {"HC_PASS", "HC_FAIL", "HC_PANIC"} :
          pg' = [pg EXCEPT ![h] = Fresh] /\ Finish(h, result)
    BY <1>3 DEF PgEnds, PgEndCheck
  <2>2. pg'[h] = Fresh /\ \A g \in Checks : g # h => pg'[g] = pg[g]
    BY <1>0, <2>1, ZenonT(60)
  <2>3. h \in Held /\ Held' = Held \ {h} /\ pg' \in [Checks -> Members]
    BY <1>0, <1>3, <2>1, <2>2, FreshFacts, ZenonT(60)
  <2>4. CASE result = "HC_PANIC"
    <3>1. RunTypeOK' /\ process' = "exited" /\ is_running' = is_running /\ outcome' = outcome
      BY <2>1, <2>4, FinishRun, ZenonT(60)
    <3>2. PgInv'
      BY <2>2, <2>3, <3>1, FreshFacts, ZenonT(60) DEF PgInv, LinksAreInOrder
    <3>3. CStep
      BY <2>3, <3>1, DieStep, ZenonT(60)
    <3> QED
      BY <3>1, <3>2, <3>3, ZenonT(60)
  <2>5. CASE result # "HC_PANIC"
    <3>1. /\ RunTypeOK' /\ process' = process /\ is_running' = is_running \ {h}
          /\ outcome' = [outcome EXCEPT ![h] = result]
      BY <2>1, <2>5, FinishRun, ZenonT(60)
    <3>2. PgInv'
      BY <2>2, <2>3, <3>1, FreshFacts, ZenonT(60) DEF PgInv, LinksAreInOrder
    <3>3. CStep
      BY <2>3, <2>5, <3>1, EndStep, Zenon
    <3> QED
      BY <3>1, <3>2, <3>3, ZenonT(60)
  <2> QED
    BY <2>4, <2>5, ZenonT(60)
<1> QED
  BY <1>1, <1>2, <1>3, ZenonT(60) DEF PgDone

(* A start that fails: nothing was held, and nothing is.                   *)
LEMMA StartFailKeeps ==
  ASSUME RunTypeOK, type = "postgres", type' = type, PgInv, NEW h \in Checks, MayStart(h),
         NEW result \in {"HC_FAIL", "HC_PANIC"}, PgEndCheck(h, result)
  PROVE  RunTypeOK' /\ PgInv' /\ CStep
<1>1. /\ process = "running" /\ h \notin is_running /\ pg \in [Checks -> Members]
      /\ pg[h].conn = "NULL"
  BY DEF MayStart, PgInv
<1>2. /\ pg' = [pg EXCEPT ![h] = Fresh] /\ Finish(h, result)
  BY DEF PgEndCheck
<1>3. /\ pg'[h] = Fresh /\ \A g \in Checks : g # h => pg'[g] = pg[g]
      /\ pg' \in [Checks -> Members]
  BY <1>1, <1>2, FreshFacts, ZenonT(60)
<1>4. Held' = Held /\ h \notin Held
  BY <1>1, <1>3, FreshFacts, ZenonT(60) DEF Held
<1>5. CASE result = "HC_PANIC"
  <2>1. RunTypeOK' /\ process' = "exited" /\ is_running' = is_running /\ outcome' = outcome
    BY <1>2, <1>5, FinishRun, ZenonT(60)
  <2>2. PgInv'
    BY <1>3, <2>1, FreshFacts DEF PgInv, LinksAreInOrder
  <2>3. CStep
    BY <1>1, <1>4, <2>1, DieStep, ZenonT(60)
  <2> QED
    BY <2>1, <2>2, <2>3, ZenonT(60)
<1>6. CASE result = "HC_FAIL"
  <2>1. /\ RunTypeOK' /\ process' = process /\ is_running' = is_running \ {h}
        /\ outcome' = [outcome EXCEPT ![h] = "HC_FAIL"]
    BY <1>2, <1>6, FinishRun, ZenonT(60)
  <2>2. PgInv'
    BY <1>1, <1>3, <2>1, FreshFacts, ZenonT(60) DEF PgInv, LinksAreInOrder
  <2>3. CStep
    BY <1>1, <1>4, <2>1, FailStep, Zenon
  <2> QED
    BY <2>1, <2>2, <2>3, ZenonT(60)
<1> QED
  BY <1>5, <1>6, ZenonT(60)

LEMMA PgKeeps ==
  ASSUME RunTypeOK, type = "postgres", type' = type, PgInv, NEW h \in Checks, PgStep(h)
  PROVE  RunTypeOK' /\ PgInv' /\ CStep
<1>1. CASE SchedulePg(h)
  <2> DEFINE c == [Fresh EXCEPT !.timeout_event = TRUE, !.conn = "made"]
  <2>1. Alive(c) /\ c.conn = "made" /\ ~c.busy
    BY FreshFacts, Zenon DEF Alive, Members
  <2>2. CASE PgEndCheck(h, "HC_FAIL") \/ PgEndCheck(h, "HC_PANIC")
    BY <1>1, <2>2, StartFailKeeps, ZenonT(60) DEF SchedulePg
  <2>3. CASE RegisterIoEvent(h, c, {"EV_WRITE"}, "poll_conn") /\ ~PgEndCheck(h, "HC_PANIC")
    <3> HIDE DEF c
    <3>1. PgDone(h)
      BY <2>1, <2>3, RegisterForm, FlagsFacts, ZenonT(60)
    <3>2. process' = "running" /\ is_running' = is_running \cup {h} /\ h \notin is_running
          /\ process = "running"
      BY <1>1, <2>3, ZenonT(60) DEF RegisterIoEvent, Begin, SchedulePg, MayStart
    <3>3. ~PgEnds(h)
      BY <3>2, ZenonT(60) DEF PgEnds, PgEndCheck, Finish
    <3> QED
      BY <3>1, <3>2, <3>3, DoneKeeps, ZenonT(60)
  <2> QED
    BY <1>1, <2>2, <2>3, ZenonT(60) DEF SchedulePg
<1>2. CASE HandleTimeoutEvent(h)
  <2>1. process = "running" /\ pg[h].conn # "NULL" /\ PgEnds(h)
    BY <1>2, ZenonT(60) DEF HandleTimeoutEvent, PgInv, PgEnds
  <2> QED
    BY <2>1, DoneKeeps, ZenonT(60) DEF PgDone
<1>3. ASSUME NEW flags \in SUBSET Flags, HandleIoEvent(h, flags)
      PROVE  RunTypeOK' /\ PgInv' /\ CStep
  <2>1. /\ process = "running" /\ pg[h] \in Members /\ flags \subseteq pg[h].io_event
        /\ flags # {} /\ pg[h].conn # "NULL" /\ pg[h].timeout_event /\ InOrder(pg[h])
    BY <1>3, ZenonT(60) DEF HandleIoEvent, PgInv
  <2>2. PgDone(h)
    <3>1. CASE PgAbort("assert handle_io_event flag")
      BY <3>1 DEF PgDone, PgAborts, Assertions, OutOfOrder
    <3>2. ASSUME NEW flag \in flags, NEW c,
                 c = [pg[h] EXCEPT !.io_event = {}, !.event_flag = flag],
                 \/ c.callback_method = "poll_conn" /\ PollConn(h, c)
                 \/ c.callback_method = "send_query" /\ SendQuery(h, c)
                 \/ c.callback_method = "flush_query" /\ FlushQuery(h, c)
                 \/ c.callback_method = "handle_query" /\ HandleQuery(h, c)
          PROVE  PgDone(h)
      <4>1. Alive(c)
        BY <2>1, <3>2, Zenon DEF Alive, Members
      <4>2. /\ c.callback_method = pg[h].callback_method /\ c.conn = pg[h].conn
            /\ c.busy = pg[h].busy /\ c.event_flag = flag
        BY <2>1, <3>2, ZenonT(60) DEF Members
      <4>3. c.callback_method = "handle_query" => c.conn = "ok" /\ c.event_flag = "EV_READ"
        BY <2>1, <4>2, ZenonT(60) DEF InOrder
      <4> QED
        BY <2>1, <3>2, <4>1, <4>2, <4>3, PollForm, SendForm, FlushForm, HandleForm, Zenon DEF InOrder
    <3> QED
      BY <1>3, <3>1, <3>2, Zenon DEF HandleIoEvent
  <2> QED
    BY <2>1, <2>2, DoneKeeps, ZenonT(60)
<1> QED
  BY <1>1, <1>2, <1>3, ZenonT(60) DEF PgStep
-----------------------------------------------------------------------------
(* Dummy and ping checks, and all types together.                          *)

LEMMA DummyKeeps ==
  ASSUME RunTypeOK, NoAssert, type = "dummy", type' = type, Next, UNCHANGED <<outcome, process>>
  PROVE  RunTypeOK' /\ NoAssert' /\ CStep
<1>1. is_running' \subseteq Checks
  BY ZenonT(60) DEF RunTypeOK, Next, Schedule, ScheduleHealthchecks, EndCheck, HandleResult
<1>2. CStep
  BY NoStep, ZenonT(60) DEF Held
<1> QED
  BY <1>1, <1>2, ZenonT(60) DEF RunTypeOK, NoAssert

LEMMA PingKeeps ==
  ASSUME type = "ping", type' = type, PingInv, process = "running", PingNext
  PROVE  PingInv' /\ process' = "running" /\ CStep
<1>0. RunTypeOK /\ Held = is_running /\ Held' = is_running'
  BY DEF Held, PingInv, PingTypeOK
<1>1. PingInv'
  BY PingInduction
<1>2. ASSUME NEW h \in is_running, NEW result \in {"HC_PASS", "HC_FAIL"}, Finish(h, result)
      PROVE  process' = "running" /\ CStep
  <2>1. h \in Checks
    BY <1>0, ZenonT(60) DEF RunTypeOK
  <2>2. /\ process' = process /\ is_running' = is_running \ {h}
        /\ outcome' = [outcome EXCEPT ![h] = result]
    BY <1>0, <1>2, <2>1, FinishRun, ZenonT(60)
  <2> QED
    BY <1>0, <2>1, <2>2, EndStep, Zenon
<1>3. ASSUME NEW h \in Checks, NEW sent \in BOOLEAN, SchedulePing(h, sent)
      PROVE  process' = "running" /\ CStep
  BY <1>0, <1>3, StartStep, ZenonT(60) DEF SchedulePing, MayStart, Begin
<1>4. CASE UNCHANGED runVars
  BY <1>0, <1>1, <1>4, NoStep, ZenonT(60) DEF runVars
<1>5. ASSUME NEW p \in packets, Reply(p)
      PROVE  process' = "running" /\ CStep
  <2>1. CASE ~Matches(p.seq)
    BY <1>4, <1>5, <2>1, ZenonT(60) DEF Reply
  <2>2. CASE Matches(p.seq)
    <3>1. seq_map[p.seq] \in is_running
      BY <2>2 DEF PingInv, PassesAreAnswered
    <3>2. Finish(seq_map[p.seq], "HC_PASS")
      BY <1>5, <2>2 DEF Reply, EndRun
    <3> QED
      BY <1>2, <3>1, <3>2, ZenonT(60)
  <2> QED
    BY <2>1, <2>2, ZenonT(60)
<1>6. ASSUME NEW h \in Checks, Finalize(h)
      PROVE  process' = "running" /\ CStep
  BY <1>2, <1>6 DEF Finalize, EndRun
<1>7. ASSUME NEW p \in packets, Lose(p)
      PROVE  process' = "running" /\ CStep
  BY <1>4, <1>7, ZenonT(60) DEF Lose
<1> QED
  BY <1>1, <1>3, <1>5, <1>6, <1>7, ZenonT(60) DEF PingNext

(* The inductive invariant: each type's own, for the checks of that type.  *)
TypesInv ==
  /\ type \in Types /\ RunTypeOK
  /\ type # "postgres" => NoAssert /\ pg = [h \in Checks |-> Fresh]
  /\ type = "tcp" => BevsRun(tcp_bev)
  /\ type = "http" => BevsRun(http_bev)
  /\ type = "dns" => DnsInv
  /\ type = "postgres" => PgInv
  /\ type = "ping" => PingInv /\ process = "running"

LEMMA TypesInitInv == TypesInit => TypesInv /\ Contract!ContractInit
<1> SUFFICES ASSUME TypesInit PROVE TypesInv /\ Contract!ContractInit
  OBVIOUS
<1>1. /\ type \in Types /\ RunInit /\ RunTypeOK /\ NoAssert
  BY DEF TypesInit, Types, PingInit, RunInit, RunTypeOK, NoAssert
<1>2. PingInv /\ process = "running"
  BY PingAssumption
  DEF TypesInit, PingInit, PingInv, PingTypeOK, MappedChecksRun, CurrentPacketsAreLast,
      PassesAreAnswered, NonzeroAnswersAreHeard, Matches, Seqs, RunInit, RunTypeOK
<1>3. BevsRun(tcp_bev) /\ BevsRun(http_bev)
  BY <1>1, ZenonT(60) DEF TypesInit, TcpInit, HttpInit, RunInit, BevsRun
<1>4. DnsInv
  BY <1>1, DnsAssumption, SMTT(60) DEF TypesInit, DnsInit, DnsInv, DnsTypeOK, Ids, RunInit
<1>5. pg = [h \in Checks |-> Fresh] /\ PgInv
  BY <1>1, FreshFacts, ZenonT(60) DEF TypesInit, PgInit, PgInv, RunInit, LinksAreInOrder
<1>6. Held = {}
  BY <1>1, <1>5, FreshFacts, ZenonT(60) DEF TypesInit, TcpInit, HttpInit, DnsInit, RunInit, Held
<1>7. Contract!ContractInit
  BY <1>1, <1>6, ZenonT(60) DEF RunInit, Contract!ContractInit
<1> QED
  BY <1>1, <1>2, <1>3, <1>4, <1>5, <1>7, ZenonT(60) DEF TypesInv

LEMMA TypesNextInv ==
  ASSUME TypesInv, [TypesNext]_typesVars
  PROVE  TypesInv' /\ CStep
<1>1. CASE Of("dummy", Next) /\ UNCHANGED <<outcome, process, pg>>
  <2>1. RunTypeOK' /\ NoAssert' /\ CStep /\ type' = "dummy"
    BY <1>1, DummyKeeps, ZenonT(60) DEF Of, TypesInv
  <2> QED
    BY <1>1, <2>1, ZenonT(60) DEF Of, TypesInv, Types
<1>2. CASE Of("tcp", \E h \in Alone : TcpStep(h)) /\ UNCHANGED pg
  <2>1. RunTypeOK' /\ NoAssert' /\ BevsRun(tcp_bev)' /\ CStep /\ type' = "tcp"
    BY <1>2, TcpKeeps, TypesAssumption, ZenonT(60) DEF Of, TypesInv
  <2> QED
    BY <1>2, <2>1, ZenonT(60) DEF Of, TypesInv, Types
<1>3. CASE Of("http", \E h \in Alone : HttpStep(h)) /\ UNCHANGED pg
  <2>1. RunTypeOK' /\ NoAssert' /\ BevsRun(http_bev)' /\ CStep /\ type' = "http"
    BY <1>3, HttpKeeps, TypesAssumption, ZenonT(60) DEF Of, TypesInv
  <2> QED
    BY <1>3, <2>1, ZenonT(60) DEF Of, TypesInv, Types
<1>4. CASE Of("dns", DnsNext) /\ UNCHANGED pg
  <2>1. RunTypeOK' /\ NoAssert' /\ DnsInv' /\ CStep /\ type' = "dns"
    BY <1>4, DnsKeeps, ZenonT(60) DEF Of, TypesInv
  <2> QED
    BY <1>4, <2>1, ZenonT(60) DEF Of, TypesInv, Types
<1>5. CASE Of("postgres", \E h \in Alone : PgStep(h))
  <2>1. RunTypeOK' /\ PgInv' /\ CStep /\ type' = "postgres"
    BY <1>5, PgKeeps, TypesAssumption DEF Of, TypesInv
  <2> QED
    BY <2>1 DEF TypesInv, Types
<1>6. CASE Of("ping", PingNext) /\ UNCHANGED pg
  <2>1. PingInv' /\ process' = "running" /\ CStep /\ type' = "ping"
    BY <1>6, PingKeeps, ZenonT(60) DEF Of, TypesInv
  <2>2. RunTypeOK' /\ NoAssert'
    BY <2>1 DEF PingInv, PingTypeOK, NoAssert
  <2> QED
    BY <1>6, <2>1, <2>2, ZenonT(60) DEF Of, TypesInv, Types
<1>7. CASE UNCHANGED typesVars
  <2>1. UNCHANGED <<type, is_running, outcome, process, tcp_bev, http_bev, pg>>
    BY <1>7 DEF typesVars, runVars, httpOwn
  <2>2. UNCHANGED dnsOwn /\ UNCHANGED pingOwn
    BY <1>7, ZenonT(60) DEF typesVars
  <2>3. RunTypeOK' /\ (NoAssert => NoAssert')
    BY <2>1 DEF TypesInv, RunTypeOK, NoAssert
  <2>4. /\ BevsRun(tcp_bev) => BevsRun(tcp_bev)'
        /\ BevsRun(http_bev) => BevsRun(http_bev)'
    BY <2>1, ZenonT(60) DEF BevsRun
  <2>5. DnsInv => DnsInv'
    BY <2>1, <2>2, ZenonT(60) DEF dnsOwn, DnsInv, DnsTypeOK
  <2>6. PgInv => PgInv'
    BY <2>1 DEF PgInv, LinksAreInOrder, InOrder
  <2>7. PingInv => PingInv'
    BY <2>1, <2>2, PingInduction, ZenonT(60) DEF pingOwn, pingVars, runVars
  <2>8. Held' = Held
    BY <2>1, <2>2 DEF Held, dnsOwn
  <2>9. CStep
    BY <2>1, <2>8, NoStep
  <2> QED
    BY <2>1, <2>3, <2>4, <2>5, <2>6, <2>7, <2>9, ZenonT(60) DEF TypesInv
<1> QED
  BY <1>1, <1>2, <1>3, <1>4, <1>5, <1>6, <1>7, Zenon DEF TypesNext

LEMMA TypesInvHolds == TypesSpec => []TypesInv
  BY TypesInitInv, TypesNextInv, PTL DEF TypesSpec
-----------------------------------------------------------------------------
(* Every check type implements the contract: its end_check() gives back    *)
(* what its schedule_healthcheck() took, with one result per run.          *)
THEOREM TypesKeepContract == TypesSpec => KeepsContract
  BY TypesInitInv, TypesNextInv, TypesInvHolds, PTL
     DEF TypesSpec, KeepsContract, Contract!ContractSpec, CStep

(* A check that holds resources runs, for every type and also when the     *)
(* process is about to end; and TCP, HTTP and PostgreSQL checks run with   *)
(* their resources only.                                                   *)
THEOREM OnlyRunnersHold == TypesSpec => []HoldersRun
<1>1. ASSUME TypesInv PROVE HoldersRun
  <2>1. CASE type = "dummy"
    BY <2>1, ZenonT(60) DEF HoldersRun, Held
  <2>2. CASE type = "ping"
    BY <2>2, ZenonT(60) DEF HoldersRun, Held
  <2>3. CASE type = "tcp"
    BY <1>1, <2>3, ZenonT(60) DEF TypesInv, HoldersRun, Held, BevsRun
  <2>4. CASE type = "http"
    BY <1>1, <2>4, ZenonT(60) DEF TypesInv, HoldersRun, Held, BevsRun
  <2>5. CASE type = "dns"
    BY <1>1, <2>5, ZenonT(60) DEF TypesInv, HoldersRun, Held, DnsInv
  <2>6. CASE type = "postgres"
    BY <1>1, <2>6 DEF TypesInv, HoldersRun, Held, PgInv, RunTypeOK
  <2> QED
    BY <1>1, <2>1, <2>2, <2>3, <2>4, <2>5, <2>6, ZenonT(60) DEF TypesInv, Types
<1> QED
  BY <1>1, TypesInvHolds, PTL

(* The connection, the timer and the event of a PostgreSQL check come and  *)
(* go together, for any limit of events.                                   *)
THEOREM ChainsStayWhole == TypesSpec => []ChainsAreWhole
<1>1. ASSUME TypesInv PROVE ChainsAreWhole
  <2>1. CASE type = "postgres"
    BY <1>1, <2>1, ZenonT(60) DEF TypesInv, PgInv, ChainsAreWhole
  <2>2. CASE type # "postgres"
    BY <1>1, <2>2, FreshFacts DEF TypesInv, ChainsAreWhole
  <2> QED
    BY <2>1, <2>2, ZenonT(60)
<1> QED
  BY <1>1, TypesInvHolds, PTL

(* The assertions of healthcheck_postgres.cpp about the order of the       *)
(* callbacks hold, whatever libpq returns.                                 *)
THEOREM LinksStayInOrder == TypesSpec => []LinksAreInOrder
<1>1. ASSUME TypesInv PROVE LinksAreInOrder
  BY <1>1 DEF TypesInv, PgInv, NoAssert, LinksAreInOrder
<1> QED
  BY <1>1, TypesInvHolds, PTL

(* A DNS check passes only for the answer to its current query, for any    *)
(* number of checks, ports and transaction ids, as long as the network     *)
(* forgets a datagram before its id comes back.                            *)
THEOREM NoFalseDnsPass == TypesSpec => DnsPassesAreAnswered
<1> DEFINE Answered(h) == \E d \in datagrams : d.check = h /\ d.run = "current"
<1>1. ASSUME TypesInv, TypesNext, NEW h \in Checks,
             socket[h] # NoPort, socket'[h] = NoPort, outcome'[h] = "HC_PASS"
      PROVE  Answered(h)
  <2>1. Of("dns", DnsNext)
    <3>1. ~UNCHANGED socket
      BY <1>1, ZenonT(60)
    <3> QED
      BY <1>1, <3>1, Zenon DEF TypesNext, dnsOwn
  <2>2. DnsInv /\ RunTypeOK
    BY <1>1, <2>1, ZenonT(60) DEF TypesInv, Of
  <2>3. socket \in [Checks -> Ports \cup {NoPort}]
        /\ outcome \in [Checks -> {"none", "HC_PASS", "HC_FAIL", "HC_DRAIN"}]
    BY <2>2, ZenonT(60) DEF DnsInv, DnsTypeOK, RunTypeOK
  <2>4. ASSUME NEW g \in Checks, ScheduleDns(g) PROVE FALSE
    BY <1>1, <2>3, <2>4, DnsAssumption, ZenonT(60) DEF ScheduleDns
  <2>5. ASSUME NEW d \in datagrams, LoseDatagram(d) PROVE FALSE
    BY <1>1, <2>5, ZenonT(60) DEF LoseDatagram
  <2>6. ASSUME NEW g \in Checks, NEW result \in {"HC_PASS", "HC_FAIL"}, DnsEndCheck(g, result)
        PROVE  g = h /\ result = "HC_PASS"
    <3>1. socket' = [socket EXCEPT ![g] = NoPort] /\ outcome' = [outcome EXCEPT ![g] = result]
      BY <2>6 DEF DnsEndCheck, Finish
    <3> QED
      BY <1>1, <2>3, <3>1, ZenonT(60)
  <2>7. ASSUME NEW g \in Checks, DnsFailure(g) PROVE FALSE
    BY <2>6, <2>7, ZenonT(60) DEF DnsFailure
  <2>8. ASSUME NEW g \in Checks, NEW d \in datagrams, NEW content \in Contents,
               DnsAnswer(g, d, content)
        PROVE  Answered(h)
    <3>1. DnsResult(g, d.qid, content) \in {"HC_PASS", "HC_FAIL"}
      BY ZenonT(60) DEF DnsResult
    <3>2. g = h /\ DnsResult(g, d.qid, content) = "HC_PASS"
      BY <2>6, <2>8, <3>1, ZenonT(60) DEF DnsAnswer
    <3>3. d.qid = my_transaction_id[h]
      BY <3>2, ZenonT(60) DEF DnsResult
    <3> QED
      BY <1>1, <2>2, <3>3 DEF DnsInv
  <2> QED
    BY <2>1, <2>4, <2>5, <2>7, <2>8, ZenonT(60) DEF Of, DnsNext
<1> DEFINE Step == \A h \in Checks :
                     socket[h] # NoPort /\ socket'[h] = NoPort /\ outcome'[h] = "HC_PASS" =>
                       Answered(h)
<1>2. TypesInv /\ [TypesNext]_typesVars => [Step]_dnsVars
  <2>1. UNCHANGED typesVars => UNCHANGED dnsVars
    BY DEF typesVars, dnsVars, dnsOwn
  <2> QED
    BY <1>1, <2>1
<1> QED
  BY <1>2, TypesInvHolds, PTL DEF TypesSpec, DnsPassesAreAnswered

(* Normalized times, which clock_gettime() gives.                          *)
Times == {t \in [tv_sec : Int, tv_nsec : Int] : 0 <= t.tv_nsec /\ t.tv_nsec < 1000000000}

(* timespec_diff_ms() rounds down for all times, not just the samples.     *)
THEOREM DiffsFloor == DiffsAreFloors /\ \A a, b \in Times : DiffIsFloor(a, b)
<1>1. ASSUME NEW a \in Times, NEW b \in Times
      PROVE  DiffIsFloor(a, b)
  <2>1. /\ a.tv_sec \in Int /\ b.tv_sec \in Int /\ a.tv_nsec \in Int /\ b.tv_nsec \in Int
        /\ 0 <= a.tv_nsec /\ a.tv_nsec < 1000000000
        /\ 0 <= b.tv_nsec /\ b.tv_nsec < 1000000000
    BY SMT DEF Times
  <2>2. \A n \in Int : /\ n \div 1000000 \in Int
                       /\ (n \div 1000000) * 1000000 <= n
                       /\ n < (n \div 1000000 + 1) * 1000000
    BY SMT
  <2>3. CASE a.tv_nsec - b.tv_nsec < 0
    <3> DEFINE q == (a.tv_nsec - b.tv_nsec + 1000000000) \div 1000000
    <3>1. /\ q \in Int
          /\ q * 1000000 <= a.tv_nsec - b.tv_nsec + 1000000000
          /\ a.tv_nsec - b.tv_nsec + 1000000000 < (q + 1) * 1000000
      BY <2>1, <2>2, SMT
    <3>2. TimespecDiffMs(a, b) = (a.tv_sec - b.tv_sec - 1) * 1000 + q
      BY <2>1, <2>3, SMT DEF TimespecDiffMs
    <3> HIDE DEF q
    <3> QED
      BY <2>1, <3>1, <3>2, SMT DEF DiffIsFloor
  <2>4. CASE ~(a.tv_nsec - b.tv_nsec < 0)
    <3> DEFINE q == (a.tv_nsec - b.tv_nsec) \div 1000000
    <3>1. /\ q \in Int
          /\ q * 1000000 <= a.tv_nsec - b.tv_nsec
          /\ a.tv_nsec - b.tv_nsec < (q + 1) * 1000000
      BY <2>1, <2>2, SMT
    <3>2. TimespecDiffMs(a, b) = (a.tv_sec - b.tv_sec) * 1000 + q
      BY <2>1, <2>4, SMT DEF TimespecDiffMs
    <3> HIDE DEF q
    <3> QED
      BY <2>1, <3>1, <3>2, SMT DEF DiffIsFloor
  <2> QED
    BY <2>3, <2>4
<1>2. \A a \in Stamps : a \in Times
  BY SMT DEF Stamps, Times
<1> QED
  BY <1>1, <1>2, SMT DEF DiffsAreFloors, StampsFloor

-----------------------------------------------------------------------------
(* What all types inherit: contiguous failures.                            *)

(* The limit of every check fits into failure_counter.                     *)
CounterFits == \A h \in Checks : max_failed_checks[h] < CounterMod

(* Every run of a check leaves the counter in range and the states legal.  *)
LEMMA HandleResultType ==
  ASSUME HealthcheckTypeOK, NEW h \in Checks,
         NEW last \in HealthcheckState, HandleResult(h, last)
  PROVE  HealthcheckTypeOK'
<1>1. NextCounter(h, last) \in 0 .. CounterMod - 1
  BY HealthcheckAssumption DEF NextCounter, HealthcheckTypeOK
<1>2. NextHardState(h, last) \in HealthcheckState
  BY DEF NextHardState, HealthcheckTypeOK, HealthcheckState
<1> QED
  BY <1>1, <1>2 DEF HandleResult, HealthcheckTypeOK

(* end_check() turns every result but HC_PANIC into a state.               *)
LEMMA LastStateType ==
  ASSUME NEW result \in HealthcheckResult
  PROVE  LastState(result) \in HealthcheckState
  BY DEF HealthcheckResult, LastState, HealthcheckState

(* The constructor sets all members in range.                              *)
LEMMA InitTypeOK == Init => TypeOK
  BY HealthcheckAssumption
     DEF Init, TypeOK, HealthcheckTypeOK, HealthcheckState,
         ConstructedState, ConstructedCounter

(* schedule_healthchecks() and end_check() keep them there.                *)
LEMMA NextTypeOK ==
  ASSUME TypeOK, [Next]_vars
  PROVE  TypeOK'
<1>1. ASSUME NEW h \in Checks, Schedule(h)
      PROVE  TypeOK'
  BY <1>1 DEF Schedule, ScheduleHealthchecks, TypeOK, HealthcheckTypeOK
<1>2. ASSUME NEW h \in Checks, NEW result \in HealthcheckResult,
             EndCheck(h, result)
      PROVE  TypeOK'
  <2>1. HealthcheckTypeOK'
    BY <1>2, HandleResultType, LastStateType DEF EndCheck, TypeOK
  <2>2. Threshold(h) \in Nat
    BY HealthcheckAssumption DEF Threshold
  <2> QED
    BY <1>2, <2>1, <2>2, SMTT(60) DEF EndCheck, TypeOK
<1>3. CASE UNCHANGED vars
  BY <1>3 DEF vars, TypeOK, HealthcheckTypeOK
<1> QED
  BY <1>1, <1>2, <1>3 DEF Next

(* Type correctness of the checks: the variables of healthcheck.cpp keep   *)
(* their types, failure_counter its 16 bits.                               *)
THEOREM TypeCorrect == Spec => []TypeOK
  BY InitTypeOK, NextTypeOK, PTL DEF Spec

(* One run of a check keeps failure_counter equal to the run of failures   *)
(* while the check is up, and below the limit.                             *)
LEMMA EndCheckKeepsStreak ==
  ASSUME CounterFits, TypeOK, CounterIsStreak, NEW h \in Checks,
         NEW result \in HealthcheckResult, EndCheck(h, result)
  PROVE  CounterIsStreak'
<1>0. /\ hard_state \in [Checks -> HealthcheckState]
      /\ failure_counter \in [Checks -> 0 .. CounterMod - 1]
      /\ streak \in [Checks -> Nat]
  BY DEF TypeOK, HealthcheckTypeOK
<1>1. ASSUME NEW g \in Checks, g # h, hard_state'[g] = "STATE_UP"
      PROVE  failure_counter'[g] = streak'[g] /\ streak'[g] < Threshold(g)
  <2>1. /\ hard_state'[g] = hard_state[g] /\ failure_counter'[g] = failure_counter[g]
        /\ streak'[g] = streak[g]
    BY <1>0, <1>1, ZenonT(60) DEF EndCheck, HandleResult
  <2> QED
    BY <1>1, <2>1, Zenon DEF CounterIsStreak
<1>2. ASSUME hard_state'[h] = "STATE_UP"
      PROVE  failure_counter'[h] = streak'[h] /\ streak'[h] < Threshold(h)
  <2> DEFINE max  == max_failed_checks[h]
             last == LastState(result)
             c    == failure_counter[h]
  <2>0. max \in Nat /\ CounterMod \in Nat \ {0, 1} /\ max < CounterMod
    BY HealthcheckAssumption DEF CounterFits
  <2>1. Threshold(h) \in Nat \ {0} /\ (Threshold(h) = max \/ (max = 0 /\ Threshold(h) = 1))
    <3>1. Threshold(h) = IF max = 0 THEN 1 ELSE max
      BY Zenon DEF Threshold
    <3> HIDE DEF max
    <3> QED
      BY <2>0, <3>1, SMTT(60)
  <2>2. /\ hard_state'[h] = NextHardState(h, last)
        /\ failure_counter'[h] = NextCounter(h, last)
        /\ streak'[h] = IF result # "HC_FAIL" THEN 0
                        ELSE IF streak[h] < Threshold(h) THEN streak[h] + 1 ELSE streak[h]
    BY <1>0, ZenonT(60) DEF EndCheck, HandleResult
  <2>3. CASE result = "HC_PASS"
    <3>1. NextCounter(h, last) = 0
      BY <2>3, ZenonT(60) DEF LastState, NextCounter
    <3> QED
      BY <2>1, <2>2, <2>3, <3>1, SMTT(60)
  <2>4. CASE result = "HC_DRAIN"
    BY <1>2, <2>2, <2>4, ZenonT(60) DEF LastState, NextHardState
  <2>5. CASE result = "HC_FAIL"
    <3>1. last = "STATE_DOWN"
      BY <2>5, ZenonT(60) DEF LastState
    <3> HIDE DEF last
    <3>2. hard_state[h] = "STATE_UP"
      BY <1>2, <2>2, <3>1, ZenonT(60) DEF NextHardState
    <3>3. NextCounter(h, last) = (c + 1) % CounterMod
      BY <3>1, <3>2, ZenonT(60) DEF NextCounter
    <3>4. ~(NextCounter(h, last) >= max)
      BY <1>2, <2>2, <3>1, <3>2, ZenonT(60) DEF NextHardState
    <3>5. c = streak[h] /\ streak[h] < Threshold(h)
      BY <3>2, Zenon DEF CounterIsStreak
    <3>6. streak'[h] = streak[h] + 1
      BY <2>2, <2>5, <3>5, Zenon
    <3>7. c \in Nat
      BY <1>0, <3>5, Zenon
    <3> HIDE DEF max, c
    <3>8. c + 1 < CounterMod \/ c + 1 = max \/ c + 1 = 1
      BY <2>0, <2>1, <3>5, <3>7, SMTT(60)
    <3>9. (c + 1) % CounterMod = c + 1
      BY <2>0, <3>7, <3>8, SMTT(60)
    <3> QED
      BY <2>0, <2>1, <2>2, <3>3, <3>4, <3>5, <3>6, <3>7, <3>9, SMTT(60)
  <2> QED
    BY <2>3, <2>4, <2>5, Zenon DEF HealthcheckResult
<1> QED
  BY <1>1, <1>2 DEF CounterIsStreak

(* The inductive invariant: failure_counter of a check that is up counts   *)
(* its failures since the last pass; one built as up has none behind it.   *)
THEOREM CounterFollowsFailures ==
  ASSUME CounterFits
  PROVE  Spec => []CounterIsStreak
<1>1. Init => CounterIsStreak
  BY HealthcheckAssumption
     DEF Init, CounterIsStreak, ConstructedState, ConstructedCounter, Threshold
<1>2. TypeOK /\ CounterIsStreak /\ [Next]_vars => CounterIsStreak'
  <2> SUFFICES ASSUME TypeOK, CounterIsStreak, [Next]_vars
               PROVE  CounterIsStreak'
    OBVIOUS
  <2>1. ASSUME NEW h \in Checks, Schedule(h)
        PROVE  CounterIsStreak'
    BY <2>1 DEF Schedule, ScheduleHealthchecks, CounterIsStreak
  <2>2. ASSUME NEW h \in Checks, NEW result \in HealthcheckResult,
               EndCheck(h, result)
        PROVE  CounterIsStreak'
    BY <2>2, EndCheckKeepsStreak, ZenonT(60)
  <2>3. CASE UNCHANGED vars
    BY <2>3 DEF vars, CounterIsStreak
  <2> QED
    BY <2>1, <2>2, <2>3 DEF Next
<1> QED
  BY <1>1, <1>2, TypeCorrect, PTL DEF Spec

(* A check never stays up past its limit: after max_failed_checks failures *)
(* in a row handle_result() has taken it down, for every limit that fits   *)
(* into failure_counter.                                                   *)
THEOREM FailuresTakeCheckDown ==
  ASSUME CounterFits
  PROVE  Spec => []DownAfterThatManyFailures
<1>1. CounterIsStreak => DownAfterThatManyFailures
  BY DEF CounterIsStreak, DownAfterThatManyFailures
<1> QED
  BY <1>1, CounterFollowsFailures, PTL

(* handle_result() takes an up check down by failures only when the last   *)
(* max_failed_checks results were all failures.                            *)
THEOREM OnlyFailuresTakeCheckDown ==
  ASSUME CounterFits
  PROVE  Spec => DownOnlyAfterContiguousFailures
<1> DEFINE Step == \A h \in Checks :
                     /\ hard_state[h] = "STATE_UP"
                     /\ hard_state'[h] = "STATE_DOWN"
                     => streak'[h] = Threshold(h)
<1>1. TypeOK /\ CounterIsStreak /\ [Next]_vars => [Step]_vars
  <2> SUFFICES ASSUME TypeOK, CounterIsStreak, Next, NEW g \in Checks,
                      hard_state[g] = "STATE_UP", hard_state'[g] = "STATE_DOWN"
               PROVE  streak'[g] = Threshold(g)
    BY ZenonT(60)
  <2>1. ASSUME NEW h \in Checks, Schedule(h)
        PROVE  streak'[g] = Threshold(g)
    BY <2>1, ZenonT(60) DEF Schedule, ScheduleHealthchecks
  <2>2. ASSUME NEW h \in Checks, NEW result \in HealthcheckResult,
               EndCheck(h, result)
        PROVE  streak'[g] = Threshold(g)
    <3>1. g = h
      BY <2>2 DEF EndCheck, HandleResult, TypeOK, HealthcheckTypeOK
    <3>2. hard_state'[g] = NextHardState(g, LastState(result))
      BY <2>2, <3>1, ZenonT(60) DEF EndCheck, HandleResult, TypeOK, HealthcheckTypeOK
    <3>3. result = "HC_FAIL"
      BY <3>2, ZenonT(60) DEF NextHardState, LastState, HealthcheckResult
    <3>4. NextCounter(g, "STATE_DOWN") >= max_failed_checks[g]
      BY <3>2, <3>3, ZenonT(60) DEF NextHardState, LastState
    <3>5. /\ failure_counter[g] = streak[g]
          /\ streak[g] < Threshold(g)
          /\ streak'[g] = streak[g] + 1
      BY <2>2, <3>1, <3>3, ZenonT(60) DEF CounterIsStreak, EndCheck, TypeOK
    <3>6. /\ failure_counter[g] \in 0 .. CounterMod - 1
          /\ max_failed_checks[g] \in 0 .. CounterMod - 1
          /\ CounterMod \in Nat \ {0, 1}
      BY HealthcheckAssumption, SMTT(60) DEF TypeOK, HealthcheckTypeOK, CounterFits
    <3>7. NextCounter(g, "STATE_DOWN") = failure_counter[g] + 1
      BY <3>5, <3>6 DEF NextCounter, Threshold
    <3> QED
      BY <3>4, <3>5, <3>6, <3>7, SMTT(60) DEF Threshold
  <2> QED
    BY <2>1, <2>2, ZenonT(60) DEF Next
<1> QED
  BY <1>1, TypeCorrect, CounterFollowsFailures, PTL
     DEF Spec, DownOnlyAfterContiguousFailures
-----------------------------------------------------------------------------
(* The members of all types, and what the types compute.                   *)

(* The inductive invariant: the types of all members, with each type's own *)
(* invariant, and what an HTTP check has read.                             *)
MembersInv == TypesInv /\ TypesTypeOK /\ RepliesAreSaid

(* No member is out of range before the first run.                         *)
LEMMA InitMembersInv == TypesInit => MembersInv
<1> SUFFICES ASSUME TypesInit PROVE MembersInv
  OBVIOUS
<1>1. TypesInv /\ TypeOK
  BY TypesInitInv, InitTypeOK DEF TypesInit
<1>2. HttpTypeOK /\ RepliesAreSaid
  BY HttpStarts DEF TypesInit
<1>3. DnsTypeOK
  BY DnsAssumption DEF TypesInit, DnsInit, DnsTypeOK, Ids
<1>4. PgTypeOK
  BY FreshFacts, ZenonT(60) DEF TypesInit, PgInit, PgTypeOK
<1>5. PingTypeOK /\ RunTypeOK
  BY <1>1, PingAssumption, SMTT(60) DEF TypesInit, PingInit, PingTypeOK, Seqs, TypesInv
<1>6. tcp_bev \subseteq Checks
  BY ZenonT(60) DEF TypesInit, TcpInit
<1> QED
  BY <1>1, <1>2, <1>3, <1>4, <1>5, <1>6, ZenonT(60) DEF MembersInv, TypesTypeOK

(* A step of one type keeps its own members in range and leaves the        *)
(* members of the other types alone.                                       *)
LEMMA NextMembersInv ==
  ASSUME MembersInv, [TypesNext]_typesVars
  PROVE  MembersInv'
<1>0. /\ TypesInv' /\ RunTypeOK' /\ is_running' \subseteq Checks
      /\ TypeOK /\ HttpTypeOK /\ RepliesAreSaid /\ DnsTypeOK /\ PgTypeOK /\ PingTypeOK
      /\ tcp_bev \subseteq Checks
  BY TypesNextInv DEF MembersInv, TypesTypeOK, TypesInv, RunTypeOK
<1>1. UNCHANGED dummyOwn => TypeOK'
  BY <1>0 DEF dummyOwn, TypeOK, HealthcheckTypeOK
<1>2. UNCHANGED httpOwn => HttpTypeOK' /\ RepliesAreSaid'
  BY <1>0, Zenon DEF httpOwn, HttpTypeOK, RepliesAreSaid
<1>3. UNCHANGED dnsOwn => DnsTypeOK'
  BY <1>0 DEF dnsOwn, DnsTypeOK
<1>4. UNCHANGED pg => PgTypeOK'
  BY <1>0 DEF PgTypeOK
<1>5. UNCHANGED pingOwn => PingTypeOK'
  BY <1>0 DEF pingOwn, PingTypeOK
<1> DEFINE Goal == /\ TypeOK' /\ HttpTypeOK' /\ RepliesAreSaid' /\ DnsTypeOK' /\ PgTypeOK'
                   /\ PingTypeOK' /\ tcp_bev' \subseteq Checks
<1>6. SUFFICES Goal
  BY <1>0 DEF MembersInv, TypesTypeOK
<1>7. CASE Of("dummy", Next) /\ UNCHANGED <<tcp_bev, httpOwn, dnsOwn, pg, pingOwn>>
  <2>1. TypeOK'
    BY <1>0, <1>7, NextTypeOK DEF Of
  <2> QED
    BY <1>0, <1>2, <1>3, <1>4, <1>5, <1>7, <2>1, ZenonT(60)
<1>8. CASE Of("tcp", \E h \in Alone : TcpStep(h)) /\ UNCHANGED <<dummyOwn, httpOwn, dnsOwn, pg, pingOwn>>
  <2>1. tcp_bev' \subseteq Checks
    BY <1>0, <1>8 DEF Of, TypesInv, BevsRun
  <2> QED
    BY <1>1, <1>2, <1>3, <1>4, <1>5, <1>8, <2>1, ZenonT(60)
<1>9. CASE Of("http", \E h \in Alone : HttpStep(h)) /\ UNCHANGED <<dummyOwn, tcp_bev, dnsOwn, pg, pingOwn>>
  <2>1. HttpTypeOK' /\ RepliesAreSaid'
    BY <1>0, <1>9, HttpStepKeeps, TypesAssumption, ZenonT(60) DEF Of
  <2> QED
    BY <1>0, <1>1, <1>3, <1>4, <1>5, <1>9, <2>1, ZenonT(60)
<1>10. CASE Of("dns", DnsNext) /\ UNCHANGED <<dummyOwn, tcp_bev, httpOwn, pg, pingOwn>>
  <2>1. DnsTypeOK'
    BY <1>0, <1>10 DEF Of, TypesInv, DnsInv
  <2> QED
    BY <1>0, <1>1, <1>2, <1>4, <1>5, <1>10, <2>1, ZenonT(60)
<1>11. CASE Of("postgres", \E h \in Alone : PgStep(h)) /\ UNCHANGED <<dummyOwn, tcp_bev, httpOwn, dnsOwn, pingOwn>>
  <2>1. PgTypeOK'
    BY <1>0, <1>11 DEF Of, TypesInv, PgInv, PgTypeOK
  <2> QED
    BY <1>0, <1>1, <1>2, <1>3, <1>5, <1>11, <2>1, ZenonT(60)
<1>12. CASE Of("ping", PingNext) /\ UNCHANGED <<dummyOwn, tcp_bev, httpOwn, dnsOwn, pg>>
  <2>1. PingTypeOK'
    BY <1>0, <1>12, ZenonT(60) DEF Of, TypesInv, PingInv
  <2> QED
    BY <1>0, <1>1, <1>2, <1>3, <1>4, <1>12, <2>1, ZenonT(60)
<1>13. CASE UNCHANGED typesVars
  <2>1. UNCHANGED <<dummyOwn, tcp_bev, httpOwn, dnsOwn, pg, pingOwn>>
    BY <1>13 DEF typesVars
  <2> QED
    BY <1>0, <1>1, <1>2, <1>3, <1>4, <1>5, <2>1, ZenonT(60)
<1> QED
  BY <1>7, <1>8, <1>9, <1>10, <1>11, <1>12, <1>13, ZenonT(60) DEF TypesNext

(* The invariant holds from the start.                                     *)
LEMMA MembersInvHolds == TypesSpec => []MembersInv
  BY InitMembersInv, NextMembersInv, PTL DEF TypesSpec

(* The members of all types of checks keep their types: sequence numbers   *)
(* and transaction ids their 16 bits, event_counter its limit, reply what  *)
(* a server can say, for any checks, ports, answers and limits.            *)
THEOREM AllTypesTyped == TypesSpec => []TypesTypeOK
  BY MembersInvHolds, PTL DEF MembersInv

(* event_callback() of an HTTP check passes or drains only for a code that *)
(* the server has sent in this run, whatever it says and in however many   *)
(* pieces read_callback() gets it.                                         *)
THEOREM HttpResultsHold == TypesSpec => HttpResultsAreTheirs
<1> DEFINE Said(h) == SubSeq(answer[h], 1, arrived[h])
           Theirs(h) ==
             /\ outcome'[h] = "HC_PASS" =>
                  \E c \in ok_codes \ drain_codes : HasCode(Said(h), c)
             /\ outcome'[h] = "HC_DRAIN" => \E c \in drain_codes : HasCode(Said(h), c)
<1>1. ASSUME MembersInv, TypesNext, NEW h \in http_bev \ http_bev'
      PROVE  Theirs(h)
  <2>0. /\ h \in Checks /\ reply[h] = Said(h) /\ reply[h] \in Text
        /\ outcome \in [Checks -> {"none", "HC_PASS", "HC_FAIL", "HC_DRAIN"}]
    BY <1>1, Zenon DEF MembersInv, TypesTypeOK, HttpTypeOK, RunTypeOK, RepliesAreSaid, Text
  <2>1. Of("http", \E g \in Alone : HttpStep(g))
    <3>1. ~UNCHANGED http_bev
      BY <1>1
    <3> QED
      BY <1>1, <3>1, Zenon DEF TypesNext, httpOwn
  <2>2. PICK g \in Checks : HttpStep(g)
    BY <2>1, TypesAssumption DEF Of
  <2>3. ASSUME NEW result, HttpEndCheck(g, result)
        PROVE  g = h /\ (result \in {"HC_PASS", "HC_FAIL", "HC_DRAIN"} => outcome'[h] = result)
    <3>1. http_bev' = http_bev \ {g} /\ Finish(g, result)
      BY <2>3 DEF HttpEndCheck
    <3>2. g = h
      BY <1>1, <3>1, ZenonT(60)
    <3> QED
      BY <2>0, <3>1, <3>2 DEF Finish
  <2>4. CASE \E result : HttpEndCheck(g, result) /\ (result = "HC_FAIL" \/ result = HttpResult(reply[g]))
    <3>1. PICK result : HttpEndCheck(g, result) /\ (result = "HC_FAIL" \/ result = HttpResult(reply[g]))
      BY <2>4
    <3>2. result \in {"HC_PASS", "HC_FAIL", "HC_DRAIN"}
      BY <3>1 DEF HttpResult
    <3>3. g = h /\ outcome'[h] = result
      BY <2>3, <3>1, <3>2
    <3>4. CASE result = "HC_FAIL"
      BY <3>3, <3>4
    <3>5. CASE result = HttpResult(reply[h])
      <4>1. /\ HttpResult(reply[h]) = "HC_PASS" =>
                 \E c \in ok_codes \ drain_codes : HasCode(reply[h], c)
            /\ HttpResult(reply[h]) = "HC_DRAIN" => \E c \in drain_codes : HasCode(reply[h], c)
        BY <2>0, ResultHasCode, Zenon DEF Text
      <4> QED
        BY <2>0, <3>3, <3>5, <4>1, Zenon
    <3> QED
      BY <3>1, <3>3, <3>4, <3>5
  <2>5. ASSUME ScheduleHttp(g) PROVE FALSE
    BY <1>1, <2>5, ZenonT(60) DEF ScheduleHttp, ScheduleHttpWith
  <2>6. ASSUME ReadCallback(g) PROVE FALSE
    BY <1>1, <2>6, ZenonT(60) DEF ReadCallback
  <2>7. ASSUME HttpTimer(g) PROVE Theirs(h)
    BY <1>1, <2>4, <2>7, ZenonT(60) DEF HttpTimer
  <2>8. ASSUME NEW event, HttpEvent(g, event) PROVE Theirs(h)
    BY <1>1, <2>4, <2>8, ZenonT(60) DEF HttpEvent, httpVars
  <2> QED
    BY <2>2, <2>5, <2>6, <2>7, <2>8, ZenonT(60) DEF HttpStep
<1> DEFINE Step == \A h \in http_bev \ http_bev' : Theirs(h)
<1>2. MembersInv /\ [TypesNext]_typesVars => [Step]_httpVars
  <2>1. UNCHANGED typesVars => UNCHANGED httpVars
    BY DEF typesVars, httpVars, httpOwn
  <2> QED
    BY <1>1, <2>1
<1> QED
  BY <1>2, MembersInvHolds, PTL DEF TypesSpec, HttpResultsAreTheirs

(* build_dns_question() makes the question of RFC 1035 for every name,     *)
(* however many labels it has, so also for those that QuestionsAreRight    *)
(* looks at.  A label has up to 63 bytes, a number that a char holds.      *)
THEOREM QuestionsHold ==
  /\ \A labels \in Seq(Label) :
       (\A i \in 1 .. Len(labels) : Len(labels[i]) <= 63)
         => BuildDnsQuestion(QueryOf(labels)) = Question(labels)
  /\ TypesSpec => []QuestionsAreRight
<1>1. \A labels \in Seq(Label) : BuildDnsQuestion(QueryOf(labels)) = Question(labels)
  BY QuestionIsCoded
<1>2. QuestionsAreRight
  BY <1>1, NamesAreLabels, ZenonT(60) DEF QuestionsAreRight, NamesAreCoded
<1>3. TypesSpec => []QuestionsAreRight
  BY <1>2, PTL
<1> QED
  BY <1>1, <1>3

(* A packet that carries its own checksum verifies, with an odd byte and   *)
(* any carries: in_cksum() folds them often enough for every packet of up  *)
(* to 2^15 words, whose sum an int holds, and any width of a byte.         *)
THEOREM CksumsHold ==
  /\ \A bytes \in Seq(0 .. ByteMod - 1) :
       Len(bytes) \in 4 .. WordMod /\ bytes[3] = 0 /\ bytes[4] = 0
         => InCksum(WithCksum(bytes)) = 0
  /\ TypesSpec => []CksumsVerify
<1>1. ASSUME NEW bytes \in Seq(0 .. ByteMod - 1), Len(bytes) \in 4 .. WordMod,
             bytes[3] = 0, bytes[4] = 0
      PROVE  InCksum(WithCksum(bytes)) = 0
  <2>1. Len(bytes) >= 4 /\ Len(bytes) <= 2 * WordMod
    BY <1>1, WordModIs
  <2> QED
    BY <1>1, <2>1, CksumVerifies
<1>2. CksumsVerify
  BY BlanksVerify DEF CksumsVerify
<1>3. TypesSpec => []CksumsVerify
  BY <1>2, PTL
<1> QED
  BY <1>1, <1>3
=============================================================================
