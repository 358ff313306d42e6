----------------------------- MODULE CheckTypes -----------------------------
(***************************************************************************)
(* The check types side by side: healthcheck_factory() makes a check of    *)
(* one of them.  Checks of different types share nothing but the process,  *)
(* so a behaviour has checks of a single type.  A dummy check does nothing *)
(* and is ended by hand, with any result: it shows what all types inherit. *)
(***************************************************************************)
EXTENDS HealthcheckHistory, Tcp, Http, Dns, Postgres, Ping, Helpers

CONSTANT Alone        \* the TCP, HTTP and PostgreSQL checks: they do not
                      \* touch each other, so that TLC needs just one

ASSUME TypesAssumption == Alone \subseteq Checks

VARIABLE type         \* the type of the checks

dummyOwn == <<hard_state, failure_counter, streak>>
httpOwn == <<http_bev, reply, answer, arrived, heard>>
dnsOwn == <<global_transaction_id, my_transaction_id, socket, datagrams>>
pingOwn == <<ping_global_seq, ping_my_seq, seq_map, packets>>

typesVars == <<type, runVars, dummyOwn, tcp_bev, httpOwn, dnsOwn, pg, pingOwn>>

TypesInit ==
  /\ type \in {"dummy", "tcp", "http", "dns", "postgres", "ping"}
  /\ Init /\ TcpInit /\ HttpInit /\ DnsInit /\ PgInit /\ PingInit
  /\ type = "dummy" \/ \A h \in Checks : hard_state[h] = "STATE_UP"
  /\ type = "ping" \/ \A h \in Checks : ping_my_seq[h] = 0

(* A step of checks of type t is a step of its module.                     *)
Of(t, step) == type = t /\ step /\ UNCHANGED type

TypesNext ==
  \/ /\ Of("dummy", Next)
     /\ UNCHANGED <<outcome, process, tcp_bev, httpOwn, dnsOwn, pg, pingOwn>>
  \/ Of("tcp", \E h \in Alone : TcpStep(h)) /\ UNCHANGED <<dummyOwn, httpOwn, dnsOwn, pg, pingOwn>>
  \/ Of("http", \E h \in Alone : HttpStep(h)) /\ UNCHANGED <<dummyOwn, tcp_bev, dnsOwn, pg, pingOwn>>
  \/ Of("dns", DnsNext) /\ UNCHANGED <<dummyOwn, tcp_bev, httpOwn, pg, pingOwn>>
  \/ Of("postgres", \E h \in Alone : PgStep(h)) /\ UNCHANGED <<dummyOwn, tcp_bev, httpOwn, dnsOwn, pingOwn>>
  \/ Of("ping", PingNext) /\ UNCHANGED <<dummyOwn, tcp_bev, httpOwn, dnsOwn, pg>>

(* The timeout of h: libevent calls back when a timer has run out, and the *)
(* scheduler's timer has every ping check finalized again and again.       *)
TimeoutOf(h) ==
  \/ Of("tcp", TcpEvent(h, {"TIMEOUT", "WRITING"}))
     /\ UNCHANGED <<dummyOwn, httpOwn, dnsOwn, pg, pingOwn>>
  \/ Of("http", HttpTimer(h)) /\ UNCHANGED <<dummyOwn, tcp_bev, dnsOwn, pg, pingOwn>>
  \/ Of("dns", DnsFailure(h)) /\ UNCHANGED <<dummyOwn, tcp_bev, httpOwn, pg, pingOwn>>
  \/ Of("postgres", HandleTimeoutEvent(h))
     /\ UNCHANGED <<dummyOwn, tcp_bev, httpOwn, dnsOwn, pingOwn>>
  \/ Of("ping", Finalize(h)) /\ UNCHANGED <<dummyOwn, tcp_bev, httpOwn, dnsOwn, pg>>

TypesSpec == TypesInit /\ [][TypesNext]_typesVars

FairTypesSpec == TypesSpec /\ \A h \in Checks : WF_typesVars(TimeoutOf(h))
-----------------------------------------------------------------------------
(* Properties.                                                             *)

(* The members of all types keep theirs: counters and numbers their width, *)
(* a PostgreSQL run its limit of events; process names only what ends it.  *)
TypesTypeOK ==
  /\ TypeOK /\ RunTypeOK /\ HttpTypeOK /\ DnsTypeOK /\ PgTypeOK /\ PingTypeOK
  /\ tcp_bev \subseteq Checks

(* The checks that hold resources, by the member that the type's end of    *)
(* the run gives back.                                                     *)
Held ==
  IF type = "tcp" THEN tcp_bev
  ELSE IF type = "http" THEN http_bev
  ELSE IF type = "dns" THEN {h \in Checks : socket[h] # NoPort}
  ELSE IF type = "postgres" THEN {h \in Checks : pg[h].conn # "NULL"}
  ELSE IF type = "ping" THEN is_running
  ELSE {}

Contract == INSTANCE CheckContract WITH held <- Held, alive <- process = "running"

(* Every type keeps the contract of module CheckContract: what its run     *)
(* holds is given back with the run's only result, also on the paths that  *)
(* end within schedule_healthcheck(), and no late event brings another.    *)
KeepsContract == Contract!ContractSpec

(* What a DNS check asks is the question of RFC 1035 for its name, of the  *)
(* length that build_dns_question() returns, for the names of some labels. *)
QuestionsAreRight == type = "dns" => NamesAreCoded

(* What a ping check sends verifies: in_cksum() of a packet with its own   *)
(* checksum in it is 0, whatever is carried and left over.                 *)
CksumsVerify == type = "ping" => PacketsVerify

(* No check of a running testtool is due or timed out too early:           *)
(* timespec_diff_ms() rounds the difference down, also when it borrows.    *)
DiffsAreFloors == process = "running" => StampsFloor

(* Only what runs holds resources: is_running, which keeps a check from    *)
(* being scheduled again, is never cleared before they are given back.     *)
(* TCP, HTTP and PostgreSQL checks do not run without them either; a DNS   *)
(* check may, when it gets no socket.                                      *)
HoldersRun ==
  /\ Held \subseteq is_running
  /\ type \in {"tcp", "http", "postgres"} /\ process = "running" => Held = is_running

(* A run that holds resources ends, whatever the server does and the       *)
(* network loses, or takes the process with it.  An HTTP run does so once  *)
(* its server falls silent; until then every piece that read_callback()    *)
(* gets sets the timer of the bufferevent anew.                            *)
HeldRunsEnd ==
  \A h \in Checks :
    <>[](h \notin heard) => []<>(h \notin Held \/ process # "running")
=============================================================================
