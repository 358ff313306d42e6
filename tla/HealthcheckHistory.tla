------------------------- MODULE HealthcheckHistory -------------------------
(***************************************************************************)
(* Health checks on their own, with the run of failures that came before   *)
(* each state recorded beside them, to say what max_failed_checks promises *)
(* in terms of results rather than of failure_counter.                     *)
(***************************************************************************)
EXTENDS Healthcheck

VARIABLE streak       \* history: HC_FAIL results in a row, saturating at
                      \* the number that must take the check down

vars == <<hard_state, failure_counter, is_running, streak>>

(* The number of failures in a row that takes a check down: the counter is *)
(* compared after it is stepped, so 0 acts as 1.                           *)
Threshold(h) == IF max_failed_checks[h] = 0 THEN 1 ELSE max_failed_checks[h]

Init ==
  \E Up \in SUBSET Checks :
    /\ hard_state = [h \in Checks |-> ConstructedState(h, Up)]
    /\ failure_counter = [h \in Checks |-> ConstructedCounter(h, Up)]
    /\ is_running = {}
    /\ streak = [h \in Checks |-> 0]

Schedule(h) == ScheduleHealthchecks({h}) /\ UNCHANGED streak

EndCheck(h, result) ==
  /\ h \in is_running
  /\ HandleResult(h, LastState(result))
  /\ streak' = [streak EXCEPT ![h] =
       IF result # "HC_FAIL" THEN 0
       ELSE IF @ < Threshold(h) THEN @ + 1 ELSE @]

Next ==
  \E h \in Checks :
    \/ Schedule(h)
    \/ \E result \in HealthcheckResult : EndCheck(h, result)

Spec == Init /\ [][Next]_vars

-----------------------------------------------------------------------------

(* Every variable keeps its type; failure_counter stays 16 bits wide.      *)
TypeOK ==
  /\ HealthcheckTypeOK
  /\ streak \in [Checks -> Nat]

(* handle_result() takes an up check down with HC_FAIL only when the last  *)
(* max_failed_checks results were failures, with no pass and no drain      *)
(* between them ("only after this number of contiguous checks fail").      *)
DownOnlyAfterContiguousFailures ==
  [][\A h \in Checks :
       /\ hard_state[h] = "STATE_UP"
       /\ hard_state'[h] = "STATE_DOWN"
       => streak'[h] = Threshold(h)]_vars

(* A check whose last max_failed_checks results were all failures is not   *)
(* up: handle_result() never misses the moment, whatever happened before.  *)
DownAfterThatManyFailures ==
  \A h \in Checks :
    hard_state[h] = "STATE_UP" => streak[h] < Threshold(h)

(* The strengthening that makes the two inductive: while the check is up   *)
(* failure_counter is the run of failures itself.                          *)
CounterIsStreak ==
  \A h \in Checks :
    hard_state[h] = "STATE_UP" =>
      /\ failure_counter[h] = streak[h]
      /\ streak[h] < Threshold(h)
=============================================================================
