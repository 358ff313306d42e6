--------------------------- MODULE CheckContract ---------------------------
(***************************************************************************)
(* What a check type promises to the rest of testtool: a run takes hold of *)
(* its resources (sockets, events, connections) when it starts, lets go of *)
(* all of them at its end, and has exactly one result.  A result never     *)
(* changes between runs, and nothing happens once the process is gone.     *)
(***************************************************************************)
CONSTANT Checks

VARIABLES
  held,       \* checks that hold resources
  outcome,    \* the result of each check's last run
  alive       \* does the process live?

contractVars == <<held, outcome, alive>>

Results == {"HC_PASS", "HC_FAIL", "HC_DRAIN"}

ContractInit ==
  /\ held = {}
  /\ outcome = [h \in Checks |-> "none"]
  /\ alive = TRUE

Start(h) ==
  /\ alive /\ h \notin held
  /\ held' = held \cup {h}
  /\ UNCHANGED <<outcome, alive>>

End(h, result) ==
  /\ alive /\ h \in held
  /\ held' = held \ {h}
  /\ outcome' = [outcome EXCEPT ![h] = result]
  /\ UNCHANGED alive

(* A run that fails before it holds anything.                              *)
FailAtOnce(h) ==
  /\ alive /\ h \notin held
  /\ outcome' = [outcome EXCEPT ![h] = "HC_FAIL"]
  /\ UNCHANGED <<held, alive>>

Die ==
  /\ alive
  /\ alive' = FALSE
  /\ held' \in SUBSET held
  /\ UNCHANGED outcome

ContractNext ==
  \/ Die
  \/ \E h \in Checks :
       \/ Start(h) \/ FailAtOnce(h)
       \/ \E result \in Results : End(h, result)

ContractSpec == ContractInit /\ [][ContractNext]_contractVars
=============================================================================
