----------------------------- MODULE CheckBase -----------------------------
(* What every check has, whatever its type (class Healthcheck).            *)

CONSTANT Checks       \* the Healthcheck objects

VARIABLE is_running   \* checks started and not ended
=============================================================================
