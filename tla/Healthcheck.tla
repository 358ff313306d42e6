---------------------------- MODULE Healthcheck ----------------------------
(***************************************************************************)
(* The state of a health check that all check types share                  *)
(* (healthcheck.cpp): when a check may start, and how the result of a run  *)
(* moves hard_state, the state the LB Node looks at.                       *)
(*                                                                         *)
(* Time is abstracted: a check that is not running may be due at any       *)
(* moment.  last_state is the argument of HandleResult: end_check() sets   *)
(* it and handle_result(), called at once, is its only reader.  The flag   *)
(* ran is left out: it only feeds LbNode::checked, and node_logic(), which *)
(* runs when a check has just ended, always finds that set.                *)
(***************************************************************************)
EXTENDS CheckBase, Naturals

CONSTANTS
  max_failed_checks,  \* hc_max_failed of each check
  CounterMod          \* 2^16: failure_counter is an unsigned short

ASSUME HealthcheckAssumption ==
  /\ max_failed_checks \in [Checks -> Nat]
  /\ CounterMod \in Nat \ {0, 1}

VARIABLES
  hard_state,         \* what node_logic() reads
  failure_counter     \* failed runs since hard_state went up

hcVars == <<hard_state, failure_counter, is_running>>

HealthcheckState == {"STATE_DRAIN", "STATE_DOWN", "STATE_UP"}

HealthcheckTypeOK ==
  /\ hard_state \in [Checks -> HealthcheckState]
  /\ failure_counter \in [Checks -> 0 .. CounterMod - 1]
  /\ is_running \subseteq Checks

(* Healthcheck::Healthcheck(): the state a check starts in is that of its  *)
(* LB Node; Up holds the checks whose node is up.                          *)
ConstructedState(h, Up) == IF h \in Up THEN "STATE_UP" ELSE "STATE_DOWN"

ConstructedCounter(h, Up) ==
  IF h \in Up THEN 0 ELSE max_failed_checks[h] % CounterMod

(* The checks in New are built; none of them is running.                   *)
ConstructChecks(New, Up) ==
  /\ hard_state' = [h \in Checks |->
       IF h \in New THEN ConstructedState(h, Up) ELSE hard_state[h]]
  /\ failure_counter' = [h \in Checks |->
       IF h \in New THEN ConstructedCounter(h, Up) ELSE failure_counter[h]]
  /\ is_running' = is_running \ New

(* Healthcheck::schedule_healthcheck() for the checks S that are due.      *)
ScheduleHealthchecks(S) ==
  /\ S # {}
  /\ S \cap is_running = {}
  /\ is_running' = is_running \cup S
  /\ UNCHANGED <<hard_state, failure_counter>>

(* Mutant: a pass leaves the counter alone.                                *)
NextCounter_NoReset(h, last) ==
  IF last = "STATE_DOWN" /\ hard_state[h] = "STATE_UP"
  THEN (failure_counter[h] + 1) % CounterMod
  ELSE failure_counter[h]

(* The counter after a run: zeroed by a pass, stepped by a failure while   *)
(* the check counts as up.                                                 *)
NextCounter(h, last) ==
  IF last = "STATE_UP" THEN 0
  ELSE IF last = "STATE_DOWN" /\ hard_state[h] = "STATE_UP"
       THEN (failure_counter[h] + 1) % CounterMod
       ELSE failure_counter[h]

(* Mutant: the counter is compared with > instead of >=.                   *)
NextHardState_OffByOne(h, last) ==
  IF last = "STATE_UP" THEN "STATE_UP"
  ELSE IF hard_state[h] # "STATE_UP" THEN hard_state[h]
  ELSE IF last = "STATE_DRAIN" THEN "STATE_DRAIN"
  ELSE IF NextCounter(h, last) > max_failed_checks[h]
       THEN "STATE_DOWN" ELSE "STATE_UP"

(* hard_state after a run: a failure takes an up check down only at the    *)
(* limit, a drain at once, a pass brings it up from anywhere.              *)
NextHardState(h, last) ==
  IF last = "STATE_UP" THEN "STATE_UP"
  ELSE IF hard_state[h] # "STATE_UP" THEN hard_state[h]
  ELSE IF last = "STATE_DRAIN" THEN "STATE_DRAIN"
  ELSE IF NextCounter(h, last) >= max_failed_checks[h]
       THEN "STATE_DOWN" ELSE "STATE_UP"

(* Healthcheck::handle_result() *)
HandleResult(h, last) ==
  /\ failure_counter' = [failure_counter EXCEPT ![h] = NextCounter(h, last)]
  /\ hard_state' = [hard_state EXCEPT ![h] = NextHardState(h, last)]
  /\ is_running' = is_running \ {h}

HealthcheckResult == {"HC_PASS", "HC_FAIL", "HC_DRAIN"}

(* The switch of Healthcheck::end_check(); HC_PANIC, which exits the       *)
(* process instead, is an action of the modules that have the process.     *)
LastState(result) ==
  IF result = "HC_PASS" THEN "STATE_UP"
  ELSE IF result = "HC_FAIL" THEN "STATE_DOWN"
  ELSE "STATE_DRAIN"
=============================================================================
