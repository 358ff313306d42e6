------------------------------ MODULE Postgres ------------------------------
(***************************************************************************)
(* PostgreSQL checks (healthcheck_postgres.cpp): a chain of callbacks that *)
(* connects, sends a query, flushes it and reads its result.  Each link    *)
(* waits for the socket with an I/O event, and one timer runs for all.     *)
(*                                                                         *)
(* libpq is external: each of its calls returns any of its results.  The   *)
(* result of a query may come in pieces, and the connection may break in   *)
(* any call that uses it.  A method works on the object c as its caller    *)
(* has left it.                                                            *)
(***************************************************************************)
EXTENDS CheckRun, Naturals

CONSTANT MaxEvents    \* 100 in register_io_event()

ASSUME PostgresAssumption == MaxEvents \in Nat

VARIABLE pg           \* the members of each check

pgVars == <<runVars, pg>>

Flags == {"EV_READ", "EV_WRITE"}

Members ==
  [conn : {"NULL", "made", "ok", "bad"},    \* PQstatus(), "made" before it is ok
   busy : BOOLEAN,                          \* PQisBusy()
   io_event : SUBSET Flags,                 \* {} for NULL
   timeout_event : BOOLEAN,
   callback_method : {"poll_conn", "send_query", "flush_query", "handle_query"},
   event_flag : Flags \cup {"none"},
   event_counter : 0 .. MaxEvents + 1]

PgTypeOK == pg \in [Checks -> Members]

Fresh == [conn |-> "NULL", busy |-> FALSE, io_event |-> {}, timeout_event |-> FALSE,
          callback_method |-> "poll_conn", event_flag |-> "none", event_counter |-> 0]

PgInit == pg = [h \in Checks |-> Fresh]
-----------------------------------------------------------------------------
(* Mutant: end_check() leaves the timer running.                           *)
PgEndCheck_Timer(h, result) ==
  /\ pg' = [pg EXCEPT ![h] = [Fresh EXCEPT !.timeout_event = pg[h].timeout_event]]
  /\ Finish(h, result)

(* Healthcheck_postgres::end_check().  The members that it leaves alone    *)
(* are set before they are read again.                                     *)
PgEndCheck(h, result) ==
  /\ pg' = [pg EXCEPT ![h] = Fresh]
  /\ Finish(h, result)

PgAbort(assertion) == Abort(assertion) /\ UNCHANGED pg

(* Mutant: events are not counted.                                         *)
RegisterIoEvent_NoLimit(h, c, flags, method) ==
  /\ pg' = [pg EXCEPT ![h] = [c EXCEPT !.io_event = flags, !.callback_method = method,
                                       !.event_counter = @ + 1]]
  /\ Begin(h)

(* register_io_event(); event_new() and event_add() may fail.              *)
RegisterIoEvent(h, c, flags, method) ==
  \/ PgEndCheck(h, "HC_PANIC")
  \/ /\ c.event_counter <= MaxEvents
     /\ pg' = [pg EXCEPT ![h] = [c EXCEPT !.io_event = flags, !.callback_method = method,
                                          !.event_counter = @ + 1]]
     /\ Begin(h)

(* Mutant: the timer is not set.                                           *)
SchedulePg_NoTimer(h) ==
  /\ MayStart(h)
  /\ RegisterIoEvent(h, [Fresh EXCEPT !.conn = "made"], {"EV_WRITE"}, "poll_conn")

(* schedule_healthcheck() with register_timeout_event() and start_conn().  *)
SchedulePg(h) ==
  /\ MayStart(h)
  /\ \/ RegisterIoEvent(h, [Fresh EXCEPT !.timeout_event = TRUE, !.conn = "made"],
                        {"EV_WRITE"}, "poll_conn")
     \/ PgEndCheck(h, "HC_FAIL")      \* CONNECTION_BAD

(* Mutant: the result is read as soon as the query is sent.                *)
PgFlush_NoWait(h, c) == RegisterIoEvent(h, c, {"EV_WRITE"}, "handle_query")

(* PQflush(): done, or to be done again, also when it has failed.          *)
PgFlush(h, c) ==
  \/ RegisterIoEvent(h, c, {"EV_READ"}, "handle_query")
  \/ \E status \in {"ok", "bad"} :
       RegisterIoEvent(h, [c EXCEPT !.conn = status], Flags, "flush_query")

FlushQuery(h, c) ==
  IF c.conn # "ok" THEN PgAbort("assert flush_query status")
  ELSE IF ~c.busy THEN PgAbort("assert flush_query busy")
  ELSE IF c.event_flag = "EV_READ"
       THEN \/ PgEndCheck(h, "HC_FAIL")           \* PQconsumeInput() fails
            \/ \E busy \in BOOLEAN : PgFlush(h, [c EXCEPT !.busy = busy])
       ELSE PgFlush(h, c)

SendQuery(h, c) ==
  IF c.conn # "ok" THEN PgAbort("assert send_query status")
  ELSE IF c.busy THEN PgAbort("assert send_query idle")
  ELSE \/ \E status \in {"ok", "bad"} :           \* PQsendQuery() fails
            RegisterIoEvent(h, [c EXCEPT !.conn = status], {"EV_WRITE"}, "send_query")
       \/ FlushQuery(h, [c EXCEPT !.busy = TRUE])

PollConn(h, c) ==
  IF c.conn # "made" THEN PgAbort("assert poll_conn status")
  ELSE \/ \E flag \in Flags : RegisterIoEvent(h, c, {flag}, "poll_conn")
       \/ PgEndCheck(h, "HC_FAIL")                \* PGRES_POLLING_FAILED
       \/ SendQuery(h, [c EXCEPT !.conn = "ok"])

(* The result of a query that is all there is a single 't', or is not.     *)
HandleQuery(h, c) ==
  IF c.event_flag # "EV_READ" THEN PgAbort("assert handle_query flag")
  ELSE IF c.conn # "ok" THEN PgAbort("assert handle_query status")
  ELSE \/ PgEndCheck(h, "HC_FAIL")                \* PQconsumeInput() fails
       \/ c.busy /\ PgAbort("assert handle_query idle")
       \/ \E result \in {"HC_PASS", "HC_FAIL"} : PgEndCheck(h, result)

(* handle_io_event() with the flags that libevent reports.                 *)
HandleIoEvent(h, flags) ==
  /\ process = "running" /\ flags \subseteq pg[h].io_event /\ flags # {}
  /\ IF flags = Flags THEN PgAbort("assert handle_io_event flag")
     ELSE \E flag \in flags :
            LET c == [pg[h] EXCEPT !.io_event = {}, !.event_flag = flag]
            IN  \/ c.callback_method = "poll_conn" /\ PollConn(h, c)
                \/ c.callback_method = "send_query" /\ SendQuery(h, c)
                \/ c.callback_method = "flush_query" /\ FlushQuery(h, c)
                \/ c.callback_method = "handle_query" /\ HandleQuery(h, c)

(* handle_timeout_event() *)
HandleTimeoutEvent(h) ==
  /\ process = "running" /\ pg[h].timeout_event
  /\ PgEndCheck(h, "HC_FAIL")

PgStep(h) ==
  \/ SchedulePg(h) \/ HandleTimeoutEvent(h)
  \/ \E flags \in SUBSET Flags : HandleIoEvent(h, flags)
-----------------------------------------------------------------------------
(* Properties.                                                             *)

(* While the process runs, a check has a connection, its timer and an      *)
(* event that carries the chain on, and is running, or it has none of the  *)
(* three: the pointers that schedule_healthcheck() sets to NULL are NULL,  *)
(* and the callbacks' assert(hc->is_running) holds.                        *)
ChainsAreWhole ==
  process = "running" =>
    \A h \in Checks :
      /\ pg[h].conn # "NULL" <=> pg[h].timeout_event
      /\ pg[h].io_event # {} <=> pg[h].timeout_event
      /\ pg[h].timeout_event => h \in is_running

(* The order of the chain: poll_conn() never meets a connection that is up *)
(* or broken, send_query() none with a query under way, and handle_query() *)
(* is called for a readable socket of a good connection only.              *)
LinksAreInOrder ==
  process \notin {"assert poll_conn status", "assert send_query idle",
                  "assert handle_query flag", "assert handle_query status"}
=============================================================================
