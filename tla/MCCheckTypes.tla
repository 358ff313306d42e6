---------------------------- MODULE MCCheckTypes ----------------------------
(* Two checks of each type for TLC: one whose limit of failures is the     *)
(* largest that the counter can hold and one with the limit 0.  The        *)
(* answers of HTTP servers have an ok code, one that is both to pass and   *)
(* to drain, a line without a reason, and lines without a code.            *)
EXTENDS CheckTypes

CONSTANTS h1, h2

MCChecks == {h1, h2}

MCMaxFailed == [h \in MCChecks |-> IF h = h1 THEN CounterMod - 1 ELSE 0]

MCAnswers ==
  {<<"HTTP", "SP", "200", "SP", "LF">>,
   <<"HTTP", "SP", "503", "SP", "LF">>,
   <<"HTTP", "SP", "200", "CR", "LF">>,
   <<"200", "LF">>}
=============================================================================
