------------------------------ MODULE CheckRun ------------------------------
(***************************************************************************)
(* A run of a check as the check types see it: the two functions of class  *)
(* Healthcheck that they call at its start and at its end, and the ways in *)
(* which a run takes the whole process down.                               *)
(*                                                                         *)
(* What a result does to hard_state, to the LB Node and to the LB Pool is  *)
(* in the modules Healthcheck and LbPool, which let a running check end    *)
(* with any result at any time.  Here outcome keeps the last result.       *)
(***************************************************************************)
EXTENDS CheckBase

VARIABLES
  outcome,    \* the result of each check's last run
  process     \* "running", or what ended the main process

runVars == <<is_running, outcome, process>>

(* A failed assertion aborts; the models name the assertion.               *)
Assertions == {"assert poll_conn status", "assert send_query status",
               "assert send_query idle", "assert flush_query status",
               "assert flush_query busy", "assert handle_query status",
               "assert handle_query flag", "assert handle_query idle",
               "assert handle_io_event flag"}

RunTypeOK ==
  /\ is_running \subseteq Checks
  /\ outcome \in [Checks -> {"none", "HC_PASS", "HC_FAIL", "HC_DRAIN"}]
  /\ process \in {"running", "stopped", "exited"} \cup Assertions

RunInit ==
  /\ is_running = {}
  /\ outcome = [h \in Checks |-> "none"]
  /\ process = "running"

(* Healthcheck::schedule_healthcheck() returns true: the check is due,     *)
(* which may be at any time, and does not run.                             *)
MayStart(h) == process = "running" /\ h \notin is_running

Begin(h) == is_running' = is_running \cup {h} /\ UNCHANGED <<outcome, process>>

(* A HealthcheckSchedulingException leaves the scheduler's loop over the   *)
(* checks; its callback breaks the main loop.                              *)
Throw(h) ==
  /\ is_running' = is_running \cup {h}
  /\ process' = "stopped"
  /\ UNCHANGED outcome

(* Healthcheck::end_check(): HC_PANIC exits the process.                   *)
Finish(h, result) ==
  IF result = "HC_PANIC"
  THEN process' = "exited" /\ UNCHANGED <<is_running, outcome>>
  ELSE /\ is_running' = is_running \ {h}
       /\ outcome' = [outcome EXCEPT ![h] = result]
       /\ UNCHANGED process

Abort(assertion) ==
  /\ process' = assertion
  /\ UNCHANGED <<is_running, outcome>>
=============================================================================
