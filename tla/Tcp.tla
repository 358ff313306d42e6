-------------------------------- MODULE Tcp --------------------------------
(***************************************************************************)
(* TCP checks (healthcheck_tcp.cpp): a connection is opened and closed     *)
(* again.  libevent is external: a bufferevent that connects has one event.*)
(***************************************************************************)
EXTENDS CheckRun

VARIABLE tcp_bev      \* checks whose bev is not NULL

tcpVars == <<runVars, tcp_bev>>

TcpInit == tcp_bev = {}

(* Mutant: the bufferevent is not freed.                                   *)
TcpEndCheck_Leak(h, result) == Finish(h, result) /\ UNCHANGED tcp_bev

(* Healthcheck_tcp::end_check() *)
TcpEndCheck(h, result) ==
  /\ tcp_bev' = tcp_bev \ {h}
  /\ Finish(h, result)

(* schedule_healthcheck(): connecting, failed at once, or no bufferevent.  *)
(* The family of the address is known to be one of the two.                *)
ScheduleTcp(h) ==
  /\ MayStart(h)
  /\ \/ tcp_bev' = tcp_bev \cup {h} /\ Begin(h)
     \/ TcpEndCheck(h, "HC_FAIL")
     \/ Throw(h) /\ UNCHANGED tcp_bev

(* What libevent reports of a connection that is being opened.             *)
TcpEvents == {{"CONNECTED"}, {"ERROR"}, {"TIMEOUT", "WRITING"}}

(* event_callback(): of its tests the last one that holds counts.          *)
TcpResult(events) ==
  IF events \cap {"ERROR", "TIMEOUT"} # {} THEN "HC_FAIL"
  ELSE IF "CONNECTED" \in events THEN "HC_PASS"
  ELSE "HC_PANIC"

TcpEvent(h, events) ==
  /\ process = "running" /\ h \in tcp_bev
  /\ TcpEndCheck(h, TcpResult(events))

TcpStep(h) ==
  \/ ScheduleTcp(h)
  \/ \E events \in TcpEvents : TcpEvent(h, events)
=============================================================================
