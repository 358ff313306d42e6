-------------------------------- MODULE Dns --------------------------------
(***************************************************************************)
(* DNS checks (healthcheck_dns.cpp): a query is sent over a socket of its  *)
(* own, and the first datagram that comes back is the result.              *)
(*                                                                         *)
(* The socket only takes datagrams from the server that it is connected    *)
(* to, sent to its port; the servers of all checks are taken to be one.    *)
(* The kernel gives a port to one open socket at a time, and may give it   *)
(* again once it is closed.  A query on its way, or its answer on the way  *)
(* back, may be lost, doubled or late; it is assumed gone when its         *)
(* transaction id is used again 2^16 queries later.                        *)
(***************************************************************************)
EXTENDS CheckRun, Functions, Sequences

CONSTANTS
  Ports, NoPort,  \* local ports; no socket
  IdMod           \* 2^16: transaction ids are uint16_t

ASSUME DnsAssumption == NoPort \notin Ports /\ IdMod \in Nat \ {0}

VARIABLES
  global_transaction_id,
  my_transaction_id,
  socket,     \* the port of each check's socket, which ev waits on
  datagrams   \* [check, port, qid, run], run as in module Ping

dnsVars == <<runVars, global_transaction_id, my_transaction_id, socket, datagrams>>

Ids == 0 .. IdMod - 1

DnsTypeOK ==
  /\ global_transaction_id \in Ids
  /\ my_transaction_id \in [Checks -> Ids]
  /\ socket \in [Checks -> Ports \cup {NoPort}]
  /\ datagrams \subseteq [check : Checks, port : Ports, qid : Ids,
                          run : {"current", "ended"}]

(* The constructor leaves my_transaction_id as it is in memory; it is not  *)
(* read before it is set.                                                  *)
DnsInit ==
  /\ global_transaction_id = 0
  /\ my_transaction_id = [h \in Checks |-> 0]
  /\ socket = [h \in Checks |-> NoPort]
  /\ datagrams = {}
-----------------------------------------------------------------------------
(* build_dns_question() of a query, a sequence of character codes that     *)
(* ends with a dot: the query goes into the buffer from its second byte    *)
(* on, then each dot, and the byte before the query, becomes the length of *)
(* the label after it.                                                     *)
Dot == 46

Copied(query) ==
  [i \in 0 .. Len(query) + 4 |-> IF i \in 1 .. Len(query) THEN query[i] ELSE 0]

(* The loop for byte i of the buffer: the label that starts at s.start     *)
(* ends there, or goes on.                                                 *)
ScanByte(query, s, i) ==
  IF i = Len(query) + 1 \/ s.buffer[i] = Dot
  THEN [buffer |-> [s.buffer EXCEPT ![s.start] = s.len], start |-> i, len |-> 0]
  ELSE [s EXCEPT !.len = @ + 1]

QuestionTo(query, last) ==
  LET loop[i \in 0 .. last] ==
        IF i = 0 THEN [buffer |-> Copied(query), start |-> 0, len |-> 0]
        ELSE ScanByte(query, loop[i - 1], i)
      typed == [loop[last].buffer EXCEPT ![Len(query) + 2] = 1, ![Len(query) + 4] = 1]
  IN  [i \in 1 .. Len(query) + 5 |-> typed[i - 1]]

(* Mutant: the loop stops before the byte after the query.                 *)
BuildDnsQuestion_Short(query) == QuestionTo(query, Len(query))

BuildDnsQuestion(query) == QuestionTo(query, Len(query) + 1)
-----------------------------------------------------------------------------
NextId == (global_transaction_id + 1) % IdMod

(* The assumption on the network and on timeouts.  A run without a socket  *)
(* keeps no id from being used again.                                      *)
IdIsFree(id) ==
  /\ \A d \in datagrams : d.qid # id
  /\ \A h \in Checks : socket[h] # NoPort => my_transaction_id[h] # id

(* schedule_healthcheck(): no socket, and then nothing waits for the run's *)
(* end; or a socket, whose timer runs even when send() fails.              *)
ScheduleDns(h) ==
  /\ MayStart(h) /\ IdIsFree(NextId)
  /\ Begin(h)
  /\ global_transaction_id' = NextId
  /\ my_transaction_id' = [my_transaction_id EXCEPT ![h] = NextId]
  /\ \/ UNCHANGED <<socket, datagrams>>
     \/ \E port \in Ports \ Range(socket) :
          /\ socket' = [socket EXCEPT ![h] = port]
          /\ \E sent \in SUBSET {[check |-> h, port |-> port, qid |-> NextId,
                                  run |-> "current"]} :
               datagrams' = datagrams \cup sent

(* Mutant: the socket stays open.                                          *)
DnsEndCheck_Open(h, result) ==
  /\ Finish(h, result)
  /\ UNCHANGED <<global_transaction_id, my_transaction_id, socket, datagrams>>

(* The end of callback(): ev is freed and the socket closed.               *)
DnsEndCheck(h, result) ==
  /\ socket' = [socket EXCEPT ![h] = NoPort]
  /\ datagrams' = {IF d.check = h THEN [d EXCEPT !.run = "ended"] ELSE d : d \in datagrams}
  /\ Finish(h, result)
  /\ UNCHANGED <<global_transaction_id, my_transaction_id>>

(* What may be wrong with an answer, or nothing.                           *)
Contents == {"short", "no answers", "answers"}

(* Mutant: the transaction id is not looked at.                            *)
DnsResult_AnyId(h, qid, content) ==
  IF content = "answers" THEN "HC_PASS" ELSE "HC_FAIL"

(* The checks of callback() on what recv() has returned.                   *)
DnsResult(h, qid, content) ==
  IF content = "answers" /\ qid = my_transaction_id[h] THEN "HC_PASS" ELSE "HC_FAIL"

(* callback() for an answer.  It may have been doubled on its way.         *)
DnsAnswer(h, d, content) ==
  /\ process = "running" /\ d \in datagrams /\ d.port = socket[h]
  /\ DnsEndCheck(h, DnsResult(h, d.qid, content))

(* callback() for a timeout or for an error that recv() returns.           *)
DnsFailure(h) ==
  /\ process = "running" /\ socket[h] # NoPort
  /\ DnsEndCheck(h, "HC_FAIL")

LoseDatagram(d) ==
  /\ d \in datagrams
  /\ datagrams' = datagrams \ {d}
  /\ UNCHANGED <<runVars, global_transaction_id, my_transaction_id, socket>>

DnsNext ==
  \/ \E h \in Checks :
       \/ ScheduleDns(h) \/ DnsFailure(h)
       \/ \E d \in datagrams, content \in Contents : DnsAnswer(h, d, content)
  \/ \E d \in datagrams : LoseDatagram(d)
-----------------------------------------------------------------------------
(* Properties.                                                             *)

(* callback() lets a check pass only for the answer to the query of its    *)
(* current run, even when the port of its socket was another run's before  *)
(* and late answers to that still come in.                                 *)
DnsPassesAreAnswered ==
  [][\A h \in Checks :
       socket[h] # NoPort /\ socket'[h] = NoPort /\ outcome'[h] = "HC_PASS" =>
         \E d \in datagrams : d.check = h /\ d.run = "current"]_dnsVars

Joined(pieces) ==
  LET text[i \in 0 .. Len(pieces)] == IF i = 0 THEN <<>> ELSE text[i - 1] \o pieces[i]
  IN  text[Len(pieces)]

(* The question section for a name of the labels (RFC 1035, 4.1.2) of type *)
(* A and class IN.                                                         *)
Question(labels) ==
  Joined([i \in DOMAIN labels |-> <<Len(labels[i])>> \o labels[i]]) \o <<0, 0, 1, 0, 1>>

QueryOf(labels) == Joined([i \in DOMAIN labels |-> labels[i] \o <<Dot>>])

Names == UNION {[1 .. n -> {<<97>>, <<98, 99>>, <<97, 98, 100>>}] : n \in 1 .. 3}

(* build_dns_question() makes the question of every name that has labels,  *)
(* of the length that it returns.  For ".", which has none, it does not:   *)
(* the length of the name is counted for the dot and for the end of it.    *)
NamesAreCoded ==
  \A labels \in Names : BuildDnsQuestion(QueryOf(labels)) = Question(labels)
=============================================================================
