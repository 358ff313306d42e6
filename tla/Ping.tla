-------------------------------- MODULE Ping --------------------------------
(***************************************************************************)
(* Ping health checks (healthcheck_ping.cpp).  All of them share one raw   *)
(* socket, so a reply is led to its check through seq_map, by the 16 bit   *)
(* sequence number of the request; timeouts are found by finalize().       *)
(*                                                                         *)
(* A packet is a request on its way or its reply on the way back; it may   *)
(* be lost or doubled.  The network is assumed to have dropped it, and its *)
(* run to have ended, when its number is used again 2^16 requests later.   *)
(***************************************************************************)
EXTENDS CheckRun, Naturals

CONSTANTS
  NoCheck,    \* NULL in seq_map
  SeqNumbers      \* 2^16: sequence numbers are uint16_t

ASSUME PingAssumption == NoCheck \notin Checks /\ SeqNumbers \in Nat \ {0}

Seqs == 0 .. SeqNumbers - 1

VARIABLES
  ping_global_seq,  \* the last sequence number used
  ping_my_seq,      \* the number of each check's last request, 0 on a timeout
  seq_map,          \* the check to each sequence number
  packets           \* [check, seq, run]: run is "current" while the run that
                    \* sent the request lasts, and "ended" after it (history)

pingVars == <<runVars, ping_global_seq, ping_my_seq, seq_map, packets>>

Packet == [check : Checks, seq : Seqs, run : {"current", "ended"}]

(* Every variable keeps its type; sequence numbers stay in 16 bits.        *)
PingTypeOK ==
  /\ RunTypeOK
  /\ ping_global_seq \in Seqs
  /\ ping_my_seq \in [Checks -> Seqs]
  /\ seq_map \in [Seqs -> Checks \cup {NoCheck}]
  /\ packets \subseteq Packet

(* initialize(); the constructor leaves ping_my_seq as it is in memory.    *)
PingInit ==
  /\ RunInit
  /\ ping_global_seq = 0
  /\ ping_my_seq \in [Checks -> Seqs]
  /\ seq_map = [s \in Seqs |-> NoCheck]
  /\ packets = {}
-----------------------------------------------------------------------------
NextSeq == (ping_global_seq + 1) % SeqNumbers

(* The assumption on the network and on timeouts.                          *)
NumberIsFree(s) ==
  /\ \A p \in packets : p.seq # s
  /\ \A h \in is_running : ping_my_seq[h] # s

(* schedule_healthcheck(); when sendto() fails the check just times out.   *)
SchedulePing(h, sent) ==
  /\ MayStart(h)
  /\ NumberIsFree(NextSeq)
  /\ Begin(h)
  /\ ping_global_seq' = NextSeq
  /\ ping_my_seq' = [ping_my_seq EXCEPT ![h] = NextSeq]
  /\ seq_map' = [seq_map EXCEPT ![NextSeq] = h]
  /\ packets' = IF sent
                THEN packets \cup {[check |-> h, seq |-> NextSeq, run |-> "current"]}
                ELSE packets

(* Mutants: end_check() leaves the mapping alone; it cleans the slot of    *)
(* the last request of all checks.                                         *)
MappingAfter_Kept(s) == seq_map

MappingAfter_Last(s) == [seq_map EXCEPT ![ping_global_seq] = NoCheck]

(* end_check() of a check whose ping_my_seq is s.                          *)
MappingAfter(s) == [seq_map EXCEPT ![s] = NoCheck]

(* The run of h is over; what is still under way belongs to no run.        *)
EndRun(h, left, result) ==
  /\ Finish(h, result)
  /\ packets' = {IF p.check = h THEN [p EXCEPT !.run = "ended"] ELSE p : p \in left}

Matches(s) == seq_map[s] # NoCheck /\ ping_my_seq[seq_map[s]] = s

(* callback() for a reply: the check it maps to passes.  The packet may    *)
(* have been doubled on its way.                                           *)
Reply(p) ==
  /\ p \in packets
  /\ \E left \in {packets, packets \ {p}} :
       IF Matches(p.seq)
       THEN /\ EndRun(seq_map[p.seq], left, "HC_PASS")
            /\ seq_map' = MappingAfter(ping_my_seq[seq_map[p.seq]])
       ELSE packets' = left /\ UNCHANGED <<runVars, seq_map>>
  /\ UNCHANGED <<ping_global_seq, ping_my_seq>>

Lose(p) ==
  /\ p \in packets
  /\ packets' = packets \ {p}
  /\ UNCHANGED <<runVars, ping_global_seq, ping_my_seq, seq_map>>

(* finalize() of a check that has timed out: ping_my_seq is zeroed before  *)
(* end_check() cleans the mapping.                                         *)
Finalize(h) ==
  /\ h \in is_running
  /\ ping_my_seq' = [ping_my_seq EXCEPT ![h] = 0]
  /\ seq_map' = MappingAfter(0)
  /\ EndRun(h, packets, "HC_FAIL")
  /\ UNCHANGED ping_global_seq

PingNext ==
  \/ \E h \in Checks, sent \in BOOLEAN : SchedulePing(h, sent)
  \/ \E p \in packets : Reply(p) \/ Lose(p)
  \/ \E h \in Checks : Finalize(h)

PingSpec == PingInit /\ [][PingNext]_pingVars
-----------------------------------------------------------------------------
(* Properties.                                                             *)

(* A reply that makes a check pass answers the request of the check's      *)
(* current run: no late, doubled or foreign reply does, although callback()*)
(* asks neither whether the check runs nor who sent the reply.             *)
PassesAreAnswered ==
  \A p \in packets :
    Matches(p.seq) => /\ seq_map[p.seq] = p.check
                      /\ p.check \in is_running /\ p.run = "current"

(* A reply to the current request of a check makes it pass, whatever the   *)
(* other checks do meanwhile, unless it has sequence number 0.             *)
NonzeroAnswersAreHeard ==
  \A p \in packets :
    p.run = "current" /\ p.seq # 0 => Matches(p.seq) /\ seq_map[p.seq] = p.check
=============================================================================
