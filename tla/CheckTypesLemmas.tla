-------------------------- MODULE CheckTypesLemmas --------------------------
(***************************************************************************)
(* Lemmas about the modules that CheckTypes is made of, each on its own:   *)
(* ping checks for any number of checks and any width of the sequence      *)
(* numbers, the reply of an HTTP server, the question of a DNS check for   *)
(* every name, and the checksum of every packet.                           *)
(***************************************************************************)
EXTENDS Http, Dns, Ping, Helpers, SequenceTheorems, WellFoundedInduction, TLAPS

-----------------------------------------------------------------------------
(* Ping checks.                                                            *)

(* A mapping that would match belongs to a running check.                  *)
MappedChecksRun == \A s \in Seqs : Matches(s) => seq_map[s] \in is_running

(* A packet of a current run carries its check's last number.              *)
CurrentPacketsAreLast ==
  \A p \in packets :
    p.run = "current" => p.check \in is_running /\ ping_my_seq[p.check] = p.seq

(* The inductive invariant.                                                *)
PingInv ==
  /\ PingTypeOK /\ MappedChecksRun /\ CurrentPacketsAreLast
  /\ PassesAreAnswered /\ NonzeroAnswersAreHeard

(* The next number is a number, and so is 0.                               *)
LEMMA NextSeqType == ASSUME PingTypeOK PROVE NextSeq \in Seqs /\ 0 \in Seqs
  BY PingAssumption DEF PingTypeOK, NextSeq, Seqs

(* Ending a run keeps packets packets, and ends those of the check.        *)
LEMMA EndRunPackets ==
  ASSUME PingTypeOK, NEW h \in Checks, NEW left \in SUBSET packets,
         NEW result \in {"HC_PASS", "HC_FAIL"}, EndRun(h, left, result)
  PROVE  /\ packets' \subseteq Packet
         /\ RunTypeOK' /\ is_running' = is_running \ {h}
         /\ \A q \in packets' :
              \E p \in packets :
                /\ q.check = p.check /\ q.seq = p.seq
                /\ q.run = IF p.check = h THEN "ended" ELSE p.run
<1>1. \A p \in packets : p \in Packet
  BY DEF PingTypeOK
<1>2. ASSUME NEW q \in packets'
      PROVE  \E p \in packets :
                /\ q \in Packet
                /\ q.check = p.check /\ q.seq = p.seq
                /\ q.run = IF p.check = h THEN "ended" ELSE p.run
  <2>1. PICK p \in left : q = IF p.check = h THEN [p EXCEPT !.run = "ended"] ELSE p
    BY <1>2 DEF EndRun
  <2>2. p \in Packet /\ p \in packets
    BY <1>1
  <2> QED
    BY <2>1, <2>2 DEF Packet
<1>3. RunTypeOK' /\ is_running' = is_running \ {h}
  BY DEF EndRun, Finish, PingTypeOK, RunTypeOK
<1> QED
  BY <1>2, <1>3

(* A request is sent under a number that no packet and no other check has. *)
LEMMA ScheduleKeepsInv ==
  ASSUME PingInv, NEW h \in Checks, NEW sent \in BOOLEAN, SchedulePing(h, sent)
  PROVE  PingInv'
<1> DEFINE s == NextSeq
<1> DEFINE new == [check |-> h, seq |-> s, run |-> "current"]
<1>1. s \in Seqs /\ new \in Packet
  BY NextSeqType DEF PingInv, Packet
<1>2. /\ h \notin is_running /\ is_running' = is_running \cup {h}
      /\ \A p \in packets : p.seq # s
      /\ \A g \in is_running : ping_my_seq[g] # s
      /\ ping_global_seq' = s
      /\ ping_my_seq' = [ping_my_seq EXCEPT ![h] = s]
      /\ seq_map' = [seq_map EXCEPT ![s] = h]
      /\ packets' \subseteq packets \cup {new}
  BY DEF SchedulePing, NumberIsFree, MayStart, Begin
<1> HIDE DEF s
<1>3. PingTypeOK'
  <2>1. RunTypeOK'
    BY <1>2 DEF SchedulePing, Begin, PingInv, PingTypeOK, RunTypeOK
  <2> QED
    BY <1>1, <1>2, <2>1 DEF PingInv, PingTypeOK
<1>4. MappedChecksRun'
  <2> SUFFICES ASSUME NEW t \in Seqs, Matches(t)'
               PROVE  seq_map'[t] \in is_running'
    BY DEF MappedChecksRun
  <2>1. CASE t = s
    BY <1>1, <1>2, <2>1 DEF PingInv, PingTypeOK
  <2>2. CASE t # s
    <3>1. seq_map'[t] = seq_map[t] /\ seq_map[t] \in Checks
      BY <1>2, <2>2 DEF PingInv, PingTypeOK, Matches
    <3>2. CASE seq_map[t] = h
      BY <1>2, <3>1, <3>2
    <3>3. CASE seq_map[t] # h
      BY <1>2, <3>1, <3>3 DEF PingInv, PingTypeOK, MappedChecksRun, Matches
    <3> QED
      BY <3>2, <3>3
  <2> QED
    BY <2>1, <2>2
<1>5. CurrentPacketsAreLast'
  BY <1>1, <1>2 DEF PingInv, PingTypeOK, CurrentPacketsAreLast, Packet
<1>6. PassesAreAnswered'
  <2> SUFFICES ASSUME NEW p \in packets', Matches(p.seq)'
               PROVE  /\ seq_map'[p.seq] = p.check
                      /\ p.check \in is_running' /\ p.run = "current"
    BY DEF PassesAreAnswered
  <2>1. CASE p = new
    BY <1>1, <1>2, <2>1 DEF PingInv, PingTypeOK
  <2>2. CASE p # new
    <3>1. p \in packets /\ p \in Packet /\ p.seq # s
      BY <1>2, <2>2 DEF PingInv, PingTypeOK
    <3>2. seq_map'[p.seq] = seq_map[p.seq] /\ seq_map[p.seq] \in Checks
      BY <1>2, <3>1 DEF PingInv, PingTypeOK, Matches, Packet
    <3>3. seq_map[p.seq] # h
      BY <1>1, <1>2, <3>1, <3>2 DEF PingInv, PingTypeOK, Matches
    <3>4. Matches(p.seq)
      BY <1>2, <3>2, <3>3 DEF PingInv, PingTypeOK, Matches
    <3> QED
      BY <1>2, <3>1, <3>2, <3>4 DEF PingInv, PassesAreAnswered
  <2> QED
    BY <2>1, <2>2
<1>7. NonzeroAnswersAreHeard'
  <2> SUFFICES ASSUME NEW p \in packets', p.run = "current", p.seq # 0
               PROVE  Matches(p.seq)' /\ seq_map'[p.seq] = p.check
    BY DEF NonzeroAnswersAreHeard
  <2>1. CASE p = new
    BY <1>1, <1>2, <2>1, PingAssumption DEF PingInv, PingTypeOK, Matches
  <2>2. CASE p # new
    <3>1. p \in packets /\ p \in Packet /\ p.seq # s
      BY <1>2, <2>2 DEF PingInv, PingTypeOK
    <3>2. Matches(p.seq) /\ seq_map[p.seq] = p.check
      BY <3>1 DEF PingInv, NonzeroAnswersAreHeard
    <3>3. p.check \in is_running
      BY <3>1 DEF PingInv, CurrentPacketsAreLast
    <3> QED
      BY <1>1, <1>2, <3>1, <3>2, <3>3 DEF PingInv, PingTypeOK, Matches, Packet
  <2> QED
    BY <2>1, <2>2
<1> QED
  BY <1>3, <1>4, <1>5, <1>6, <1>7 DEF PingInv

(* A run ends while slot z of the map is cleaned: either by a reply that   *)
(* maps to h by its number z, or by a timeout, which zeroes the number.    *)
LEMMA EndKeepsInv ==
  ASSUME PingInv, NEW h \in is_running, NEW z \in Seqs,
         NEW left \in SUBSET packets,
         NEW result \in {"HC_PASS", "HC_FAIL"}, EndRun(h, left, result),
         seq_map' = [seq_map EXCEPT ![z] = NoCheck],
         ping_global_seq' = ping_global_seq,
         \/ ping_my_seq' = ping_my_seq /\ ping_my_seq[h] = z /\ seq_map[z] = h
         \/ ping_my_seq' = [ping_my_seq EXCEPT ![h] = 0] /\ z = 0
  PROVE  PingInv'
<1>1. h \in Checks /\ 0 \in Seqs
  BY NextSeqType DEF PingInv, PingTypeOK, RunTypeOK
<1>2. /\ packets' \subseteq Packet
      /\ RunTypeOK' /\ is_running' = is_running \ {h}
      /\ \A q \in packets' :
           \E p \in packets :
             /\ q.check = p.check /\ q.seq = p.seq
             /\ q.run = IF p.check = h THEN "ended" ELSE p.run
  BY <1>1, EndRunPackets DEF PingInv
<1>3. \A p \in packets : p.check \in Checks /\ p.seq \in Seqs
  BY DEF PingInv, PingTypeOK, Packet
<1>4. \A g \in Checks \ {h} : ping_my_seq'[g] = ping_my_seq[g]
  BY DEF PingInv, PingTypeOK
<1>5. ping_my_seq'[h] = z
  BY <1>1 DEF PingInv, PingTypeOK
<1>6. ASSUME NEW t \in Seqs, Matches(t)'
      PROVE  Matches(t) /\ seq_map'[t] = seq_map[t] /\ seq_map[t] # h /\ t # z
  <2>1. t # z
    BY <1>6 DEF PingInv, PingTypeOK, Matches
  <2>2. seq_map'[t] = seq_map[t] /\ seq_map[t] \in Checks
    BY <1>6, <2>1 DEF PingInv, PingTypeOK, Matches
  <2>3. seq_map[t] # h
    BY <1>5, <1>6, <2>1, <2>2 DEF Matches
  <2> QED
    BY <1>4, <1>6, <2>1, <2>2, <2>3 DEF Matches
<1>7. PingTypeOK'
  BY <1>1, <1>2 DEF PingInv, PingTypeOK
<1>8. MappedChecksRun'
  BY <1>2, <1>6 DEF PingInv, MappedChecksRun
<1>9. CurrentPacketsAreLast'
  BY <1>2, <1>3, <1>4 DEF PingInv, CurrentPacketsAreLast
<1>10. PassesAreAnswered'
  BY <1>2, <1>3, <1>6 DEF PingInv, PassesAreAnswered
<1>11. NonzeroAnswersAreHeard'
  <2> SUFFICES ASSUME NEW q \in packets', q.run = "current", q.seq # 0
               PROVE  Matches(q.seq)' /\ seq_map'[q.seq] = q.check
    BY DEF NonzeroAnswersAreHeard
  <2>1. PICK p \in packets : /\ q.check = p.check /\ q.seq = p.seq
                             /\ p.check # h /\ p.run = "current"
    BY <1>2
  <2>2. Matches(p.seq) /\ seq_map[p.seq] = p.check
    BY <2>1 DEF PingInv, NonzeroAnswersAreHeard
  <2>3. p.seq # z
    BY <2>1, <2>2
  <2> QED
    BY <1>3, <1>4, <2>1, <2>2, <2>3 DEF PingInv, PingTypeOK, Matches
<1> QED
  BY <1>7, <1>8, <1>9, <1>10, <1>11 DEF PingInv

(* The invariant survives the loss and the doubling of packets.            *)
LEMMA FewerPacketsKeepInv ==
  ASSUME PingInv, packets' \subseteq packets,
         UNCHANGED <<runVars, ping_global_seq, ping_my_seq, seq_map>>
  PROVE  PingInv'
  BY DEF PingInv, PingTypeOK, MappedChecksRun, CurrentPacketsAreLast,
         PassesAreAnswered, NonzeroAnswersAreHeard, Matches, runVars, RunTypeOK

(* Every step of a ping check keeps the invariant.                         *)
LEMMA PingInduction == PingInv /\ [PingNext]_pingVars => PingInv'
<1> SUFFICES ASSUME PingInv, [PingNext]_pingVars PROVE PingInv'
  OBVIOUS
<1>1. ASSUME NEW h \in Checks, NEW sent \in BOOLEAN, SchedulePing(h, sent)
      PROVE  PingInv'
  BY <1>1, ScheduleKeepsInv
<1>2. ASSUME NEW p \in packets, Reply(p)
      PROVE  PingInv'
  <2>1. PICK left \in {packets, packets \ {p}} :
          IF Matches(p.seq)
          THEN /\ EndRun(seq_map[p.seq], left, "HC_PASS")
               /\ seq_map' = MappingAfter(ping_my_seq[seq_map[p.seq]])
          ELSE packets' = left /\ UNCHANGED <<runVars, seq_map>>
    BY <1>2 DEF Reply
  <2>2. UNCHANGED <<ping_global_seq, ping_my_seq>>
    BY <1>2 DEF Reply
  <2>3. CASE ~Matches(p.seq)
    BY <2>1, <2>2, <2>3, FewerPacketsKeepInv
  <2>4. CASE Matches(p.seq)
    <3> DEFINE h == seq_map[p.seq]
    <3>1. p.seq \in Seqs /\ h \in is_running /\ ping_my_seq[h] = p.seq
      BY <2>4 DEF PingInv, PingTypeOK, Packet, PassesAreAnswered, Matches
    <3>2. seq_map' = [seq_map EXCEPT ![p.seq] = NoCheck]
      BY <2>1, <2>4, <3>1 DEF MappingAfter
    <3> QED
      BY <2>1, <2>2, <2>4, <3>1, <3>2, EndKeepsInv, Zenon
  <2> QED
    BY <2>3, <2>4
<1>3. ASSUME NEW p \in packets, Lose(p)
      PROVE  PingInv'
  BY <1>3, FewerPacketsKeepInv DEF Lose
<1>4. ASSUME NEW h \in Checks, Finalize(h)
      PROVE  PingInv'
  BY <1>4, NextSeqType, EndKeepsInv, Zenon DEF Finalize, MappingAfter, PingInv
<1>5. CASE UNCHANGED pingVars
  BY <1>5, FewerPacketsKeepInv DEF pingVars
<1> QED
  BY <1>1, <1>2, <1>3, <1>4, <1>5 DEF PingNext

(* The invariant holds from the start.                                     *)
LEMMA PingInvHolds == PingSpec => []PingInv
<1>1. PingInit => PingInv
  BY PingAssumption
  DEF PingInit, PingInv, PingTypeOK, MappedChecksRun, CurrentPacketsAreLast,
      PassesAreAnswered, NonzeroAnswersAreHeard, Matches, Seqs, RunInit, RunTypeOK
<1> QED
  BY <1>1, PingInduction, PTL DEF PingSpec

(* The 16 bit sequence numbers and the map of ping checks keep their types.*)
THEOREM PingTypeCorrect == PingSpec => []PingTypeOK
  BY PingInvHolds, PTL DEF PingInv

(* No late, doubled or foreign reply makes a check pass, for any number of *)
(* checks and any wrap-around of the sequence numbers, as long as the      *)
(* network forgets a packet before its number comes back.                  *)
THEOREM NoFalsePass == PingSpec => []PassesAreAnswered
  BY PingInvHolds, PTL DEF PingInv

(* No other check, and no timeout, makes a check deaf to the reply to its  *)
(* current request, unless the request has sequence number 0.              *)
THEOREM AnswersGetThrough == PingSpec => []NonzeroAnswersAreHeard
  BY PingInvHolds, PTL DEF PingInv
-----------------------------------------------------------------------------
(* Numbers and loops.                                                      *)

(* A set of numbers that is not empty has a least one.                     *)
LEMMA LeastNumber ==
  ASSUME NEW S \in SUBSET Nat, S # {}
  PROVE  \E x \in S : \A y \in S : x <= y
<1>1. PICK x \in S : \A y \in S : ~(<<y, x>> \in OpToRel(<, Nat))
  BY NatLessThanWellFounded, WFMin
<1>2. \A y \in S : ~(y < x)
  BY <1>1, Zenon DEF OpToRel
<1> QED
  BY <1>2

(* The states f of a loop over X that starts with x0 and takes n steps.    *)
Loop(f, X, x0, step, n) ==
  /\ DOMAIN f = 0 .. n /\ f = [i \in DOMAIN f |-> f[i]]
  /\ f[0] = x0 /\ \A i \in 1 .. n : f[i] = step[i][f[i - 1]]
  /\ \A i \in 0 .. n : f[i] \in X

StaysIn(X, step) == \A i \in Nat, x \in X : step[i][x] \in X

(* A loop has a state after each of its steps.                             *)
LEMMA LoopStates ==
  ASSUME NEW X, NEW x0 \in X, NEW step, StaysIn(X, step), NEW n \in Nat
  PROVE  \E f : Loop(f, X, x0, step, n)
<1> USE DEF StaysIn, Loop
<1> DEFINE Run(f, m) == Loop(f, X, x0, step, m)
           Bad == {m \in Nat : ~\E f : Run(f, m)}
<1>1. SUFFICES ASSUME Bad # {} PROVE FALSE
  BY Zenon
<1>2. PICK m \in Bad : \A k \in Bad : m <= k
  <2>1. Bad \in SUBSET Nat
    BY Zenon
  <2> HIDE DEF Bad
  <2> QED
    BY <1>1, <2>1, LeastNumber
<1>3. m \in Nat /\ ~\E f : Run(f, m)
  BY Zenon
<1>4. CASE m = 0
  <2> DEFINE f == [i \in 0 .. 0 |-> x0]
  <2>1. Run(f, 0)
    OBVIOUS
  <2> HIDE DEF f
  <2> QED
    BY <1>3, <1>4, <2>1, Zenon
<1>5. CASE m # 0
  <2>1. m - 1 \in Nat /\ m - 1 \notin Bad
    <3> HIDE DEF Bad, Run
    <3> QED
      BY <1>2, <1>3, <1>5
  <2>2. PICK f : Run(f, m - 1)
    BY <2>1, Zenon
  <2> DEFINE g == [i \in 0 .. m |-> IF i = m THEN step[m][f[m - 1]] ELSE f[i]]
  <2>3. DOMAIN g = 0 .. m /\ g = [i \in DOMAIN g |-> g[i]]
    OBVIOUS
  <2>4. g[m] = step[m][f[m - 1]] /\ \A i \in 0 .. m - 1 : g[i] = f[i]
    BY <1>3
  <2>5. 0 \in 0 .. m - 1 /\ m - 1 \in 0 .. m - 1
    BY <1>3, <1>5
  <2> HIDE DEF g
  <2>6. g[0] = x0
    BY <2>2, <2>4, <2>5
  <2>7. ASSUME NEW i \in 1 .. m PROVE g[i] = step[i][g[i - 1]]
    <3>1. CASE i = m
      BY <2>4, <2>5, <3>1
    <3>2. CASE i # m
      <4>1. i \in 1 .. m - 1 /\ i \in 0 .. m - 1 /\ i - 1 \in 0 .. m - 1
        BY <1>3, <3>2
      <4> QED
        BY <2>2, <2>4, <4>1
    <3> QED
      BY <3>1, <3>2
  <2>8. ASSUME NEW i \in 0 .. m PROVE g[i] \in X
    <3>1. CASE i = m
      BY <1>3, <2>2, <2>4, <2>5, <3>1
    <3>2. CASE i # m
      <4>1. i \in 0 .. m - 1
        BY <1>3, <3>2
      <4> QED
        BY <2>2, <2>4, <4>1
    <3> QED
      BY <3>1, <3>2
  <2>9. Run(g, m)
    BY <2>3, <2>6, <2>7, <2>8, Zenon
  <2> QED
    BY <1>3, <2>9, Zenon
<1> QED
  BY <1>4, <1>5

(* A place in a piece is a place in what the piece is part of.             *)
LEMMA Within ==
  ASSUME NEW a \in Nat, NEW len \in Nat, NEW e, NEW b \in Nat, e = a + len, e <= b,
         NEW q \in 1 .. len
  PROVE  a + q \in 1 .. b
  OBVIOUS

(* t goes on as f does, as long as it has done so.                         *)
GoAlike(t, f, n) == \A i \in 1 .. n : t[i - 1] = f[i - 1] => t[i] = f[i]

(* What starts alike and goes on alike is alike.                           *)
LEMMA LoopsAgree ==
  ASSUME NEW f, NEW t, NEW n \in Nat, t[0] = f[0], GoAlike(t, f, n)
  PROVE  \A i \in 0 .. n : t[i] = f[i]
<1> USE DEF GoAlike
<1> DEFINE Bad == {i \in 0 .. n : t[i] # f[i]}
<1>1. SUFFICES ASSUME Bad # {} PROVE FALSE
  BY Zenon
<1>2. PICK m \in Bad : \A k \in Bad : m <= k
  <2>1. Bad \in SUBSET Nat
    OBVIOUS
  <2> QED
    BY <1>1, <2>1, LeastNumber, Zenon
<1>3. m # 0 /\ m \in 0 .. n /\ t[m] # f[m]
  BY <1>2
<1>4. m - 1 \in 0 .. n /\ m \in 1 .. n /\ m - 1 < m
  BY <1>3
<1>5. m - 1 \notin Bad
  BY <1>2, <1>3, <1>4
<1>6. t[m - 1] = f[m - 1]
  BY <1>4, <1>5, Zenon
<1> QED
  BY <1>3, <1>4, <1>6, Zenon
-----------------------------------------------------------------------------
(* What an HTTP server says.                                               *)

(* string::find() returns the first place of the word, or none.            *)
LEMMA FindFirst ==
  ASSUME NEW S, NEW text \in Seq(S), NEW word
  PROVE  /\ Find(text, word) \in 0 .. Len(text)
         /\ Find(text, word) = 0 => \A j \in 1 .. Len(text) : text[j] # word
         /\ Find(text, word) # 0 =>
              /\ text[Find(text, word)] = word
              /\ \A j \in 1 .. Find(text, word) - 1 : text[j] # word
<1>1. DOMAIN text = 1 .. Len(text) /\ Len(text) \in Nat
  BY LenProperties
<1>2. CASE word \notin Range(text)
  BY <1>1, <1>2 DEF Find, Range
<1>3. CASE word \in Range(text)
  <2> DEFINE Places == {i \in 1 .. Len(text) : text[i] = word}
  <2>1. PICK i \in Places : \A j \in Places : i <= j
    <3>1. Places # {} /\ Places \in SUBSET Nat
      BY <1>1, <1>3 DEF Range
    <3> QED
      BY <3>1, LeastNumber, Zenon
  <2>2. i \in DOMAIN text /\ text[i] = word /\ \A j \in 1 .. i - 1 : text[j] # word
    BY <1>1, <2>1
  <2>3. /\ Find(text, word) \in DOMAIN text
        /\ text[Find(text, word)] = word
        /\ \A j \in 1 .. Find(text, word) - 1 : text[j] # word
    BY <1>3, <2>2, ZenonT(60) DEF Find
  <2> QED
    BY <1>1, <2>3
<1> QED
  BY <1>2, <1>3

(* parse_result() takes no other word for the code than the one between    *)
(* the first two spaces of the first line, or the first of a line that has *)
(* no space.                                                               *)
LEMMA CodeIsThere ==
  ASSUME NEW S, NEW text \in Seq(S), NEW c,
         Len(StatusCode(text)) = 1, StatusCode(text)[1] = c
  PROVE  HasCode(text, c)
<1> DEFINE line == StatusLine(text)
           rest == FromSpace(line)
           end == Find(text, "LF")
           first == Find(line, "SP")
           second == Find(rest, "SP")
<1>1. /\ line \in Seq(S) /\ Len(line) <= Len(text)
      /\ \A j \in 1 .. Len(line) : line[j] = text[j] /\ text[j] # "LF"
      /\ Len(line) = Len(text) \/ text[Len(line) + 1] = "LF"
  <2>1. CASE end = 0
    BY <2>1, FindFirst, LenProperties DEF StatusLine
  <2>2. CASE end # 0
    <3>1. end \in 1 .. Len(text) /\ text[end] = "LF" /\ \A j \in 1 .. end - 1 : text[j] # "LF"
      BY <2>2, FindFirst
    <3>2. line = SubSeq(text, 1, end - 1)
      BY <2>2, Zenon DEF StatusLine
    <3>3. \A j \in 1 .. end - 1 : text[j] \in S
      BY <3>1, ElementOfSeq
    <3>4. /\ line \in Seq(S) /\ Len(line) = end - 1
          /\ \A j \in 1 .. end - 1 : line[j] = text[j]
      BY <3>1, <3>2, <3>3, SubSeqProperties
    <3> QED
      BY <3>1, <3>4, LenProperties
  <2> QED
    BY <2>1, <2>2
<1> HIDE DEF line
<1>2. /\ first \in 0 .. Len(line)
      /\ first = 0 => \A j \in 1 .. Len(line) : line[j] # "SP"
      /\ first # 0 => line[first] = "SP" /\ \A j \in 1 .. first - 1 : line[j] # "SP"
  BY <1>1, FindFirst
<1> HIDE DEF first
<1>3. /\ rest \in Seq(S) /\ Len(rest) = Len(line) - first
      /\ \A j \in 1 .. Len(rest) : rest[j] = line[first + j]
  <2>1. rest = SubSeq(line, first + 1, Len(line))
    BY DEF FromSpace, first
  <2>2. \A j \in first + 1 .. Len(line) : line[j] \in S
    BY <1>1, <1>2, ElementOfSeq
  <2>3. Len(line) \in Nat
    BY <1>1, LenProperties
  <2>4. /\ SubSeq(line, first + 1, Len(line)) \in Seq(S)
        /\ Len(SubSeq(line, first + 1, Len(line))) =
             IF first + 1 <= Len(line) THEN Len(line) - (first + 1) + 1 ELSE 0
        /\ \A j \in 1 .. Len(line) - (first + 1) + 1 :
             SubSeq(line, first + 1, Len(line))[j] = line[first + 1 + j - 1]
    BY <1>2, <2>2, <2>3, SubSeqProperties
  <2> QED
    BY <1>2, <2>1, <2>3, <2>4
<1>4. Len(ToSpace(rest)) = 1 /\ ToSpace(rest)[1] = c
  BY DEF StatusCode, line
<1> HIDE DEF rest
<1>5. /\ Len(rest) >= 1 /\ rest[1] = c
      /\ Len(rest) = 1 \/ (Len(rest) >= 2 /\ second = 2 /\ rest[2] = "SP")
      /\ c # "SP"
  <2>1. /\ second \in 0 .. Len(rest)
        /\ second = 0 => \A j \in 1 .. Len(rest) : rest[j] # "SP"
        /\ second # 0 => rest[second] = "SP" /\ \A j \in 1 .. second - 1 : rest[j] # "SP"
    BY <1>3, FindFirst
  <2>2. CASE second = 0
    <3>1. Len(rest) = 1 /\ rest[1] = c
      BY <1>4, <2>2 DEF ToSpace
    <3> QED
      BY <2>1, <2>2, <3>1
  <2>3. CASE second # 0
    <3>1. Len(SubSeq(rest, 1, second - 1)) = 1 /\ SubSeq(rest, 1, second - 1)[1] = c
      BY <1>4, <2>3, Zenon DEF ToSpace
    <3>2. \A j \in 1 .. second - 1 : rest[j] \in S
      BY <1>3, <2>1, ElementOfSeq
    <3>3. second \in Int /\ second - 1 \in Int /\ second >= 1
      BY <1>3, <2>1, <2>3, LenProperties
    <3>4. /\ Len(SubSeq(rest, 1, second - 1)) = IF 1 <= second - 1 THEN second - 1 - 1 + 1 ELSE 0
          /\ \A j \in 1 .. second - 1 - 1 + 1 : SubSeq(rest, 1, second - 1)[j] = rest[1 + j - 1]
      BY <3>2, <3>3, SubSeqProperties
    <3>5. second = 2
      BY <3>1, <3>3, <3>4
    <3>6. rest[1] = c
      BY <3>1, <3>4, <3>5
    <3> QED
      BY <1>3, <2>1, <3>5, <3>6, LenProperties
  <2> QED
    BY <2>2, <2>3
<1>6. first + 1 \in 1 .. Len(text) /\ text[first + 1] = c
  BY <1>1, <1>2, <1>3, <1>5, LenProperties
<1>7. \A j \in 1 .. first : text[j] # "LF" /\ (text[j] = "SP" <=> j = first)
  BY <1>1, <1>2, LenProperties
<1>8. \/ first + 1 = Len(text)
      \/ text[first + 2] = "LF"
      \/ first # 0 /\ text[first + 2] = "SP"
  <2>1. CASE Len(rest) = 1
    <3>1. Len(line) \in Nat /\ Len(text) \in Nat
      BY <1>1, LenProperties
    <3>2. first \in 0 .. Len(line) /\ 1 = Len(line) - first
      BY <1>2, <1>3, <2>1, <3>1, Zenon
    <3>3. Len(line) = first + 1 /\ Len(line) + 1 = first + 2
      BY <3>1, <3>2
    <3> QED
      BY <1>1, <3>3
  <2>2. CASE Len(rest) # 1
    <3>1. Len(rest) >= 2 /\ rest[2] = "SP"
      BY <1>5, <2>2
    <3>2. first + 2 \in 1 .. Len(line) /\ line[first + 2] = "SP"
      BY <1>1, <1>2, <1>3, <3>1, LenProperties
    <3> QED
      BY <1>1, <1>2, <3>2
  <2> QED
    BY <2>1, <2>2
<1> DEFINE i == first + 1
<1>9. i - 1 = first /\ i + 1 = first + 2 /\ (i = 1 <=> first = 0)
  BY <1>1, <1>2, LenProperties
<1> HIDE DEF i
<1>10. i = Len(text) \/ text[i + 1] \in {"LF"} \cup (IF i = 1 THEN {} ELSE {"SP"})
  BY <1>8, <1>9, Zenon DEF i
<1>11. \A j \in 1 .. i - 1 : text[j] # "LF" /\ (text[j] = "SP" <=> j = i - 1)
  BY <1>7, <1>9
<1>12. i \in 1 .. Len(text) /\ text[i] = c
  BY <1>6 DEF i
<1> QED
  BY <1>10, <1>11, <1>12 DEF HasCode

-----------------------------------------------------------------------------
(* HTTP checks: a check has read just what its server has sent.            *)

Text == Seq(UNION {Range(a) : a \in Answers})

(* read_callback() has put the pieces together, and no other run's.        *)
RepliesAreSaid ==
  \A h \in Checks : /\ arrived[h] <= Len(answer[h])
                    /\ reply[h] = SubSeq(answer[h], 1, arrived[h])

(* What a server may say are words and ends of lines, in a sequence.       *)
LEMMA AnswersAreTexts == \A a \in Answers : a \in Text /\ Len(a) \in Nat
<1> SUFFICES ASSUME NEW a \in Answers PROVE a \in Text /\ Len(a) \in Nat
  OBVIOUS
<1>1. a \in Seq(Range(a))
  BY HttpAssumption
<1>2. Range(a) \subseteq UNION {Range(b) : b \in Answers}
  OBVIOUS
<1> HIDE DEF Text
<1> QED
  BY <1>1, <1>2, SeqMonotonic, LenProperties, Zenon DEF Text

(* Before anything has arrived, nothing has been read.                     *)
LEMMA NothingArrived == \A s : SubSeq(s, 1, 0) = <<>>
<1>1. 1 \in Int /\ 0 \in Int /\ 0 < 1
  OBVIOUS
<1> QED
  BY <1>1, SubSeqEmpty, Zenon

(* No run has read anything before the first one starts.                   *)
LEMMA HttpStarts == HttpInit => HttpTypeOK /\ RepliesAreSaid
<1> SUFFICES ASSUME HttpInit PROVE HttpTypeOK /\ RepliesAreSaid
  OBVIOUS
<1>1. (CHOOSE a \in Answers : TRUE) \in Answers
  BY HttpAssumption
<1>2. \A h \in Checks : arrived[h] = 0 /\ reply[h] = <<>>
  BY DEF HttpInit
<1>3. \A h \in Checks : arrived[h] <= Len(answer[h])
  <2> SUFFICES ASSUME NEW h \in Checks PROVE arrived[h] <= Len(answer[h])
    OBVIOUS
  <2>1. arrived[h] = 0 /\ answer[h] \in Answers
    BY <1>1 DEF HttpInit
  <2>2. Len(answer[h]) \in Nat
    BY <2>1, AnswersAreTexts
  <2> QED
    BY <2>1, <2>2
<1>4. RepliesAreSaid
  BY <1>2, <1>3, NothingArrived, Zenon DEF RepliesAreSaid
<1>5. <<>> \in Seq(UNION {Range(a) : a \in Answers})
  BY EmptySeq
<1>6. HttpTypeOK
  BY <1>1, <1>5, ZenonT(60) DEF HttpInit, HttpTypeOK
<1> QED
  BY <1>4, <1>6

(* Every step of an HTTP check keeps what has been read what was said.     *)
LEMMA HttpStepKeeps ==
  ASSUME HttpTypeOK, RepliesAreSaid, NEW h \in Checks, HttpStep(h)
  PROVE  HttpTypeOK' /\ RepliesAreSaid'
<1>0. /\ answer \in [Checks -> Answers] /\ arrived \in [Checks -> Nat]
      /\ reply \in [Checks -> Text]
  BY DEF HttpTypeOK, Text
<1>1. CASE UNCHANGED <<reply, answer, arrived>> /\ http_bev' \subseteq http_bev
           /\ heard' \subseteq http_bev'
  BY <1>1, Zenon DEF HttpTypeOK, RepliesAreSaid
<1>2. CASE ScheduleHttp(h)
  <2>1. /\ reply' = [reply EXCEPT ![h] = <<>>] /\ arrived' = [arrived EXCEPT ![h] = 0]
        /\ heard' = heard /\ http_bev \subseteq http_bev' /\ http_bev' \subseteq Checks
    BY <1>2 DEF ScheduleHttp, ScheduleHttpWith, HttpTypeOK
  <2>2. /\ answer' \in [Checks -> Answers]
        /\ \A g \in Checks \ {h} : answer'[g] = answer[g]
    BY <1>0, <1>2 DEF ScheduleHttp, ScheduleHttpWith
  <2>3. <<>> \in Text
    BY EmptySeq DEF Text
  <2>4. SubSeq(answer'[h], 1, 0) = <<>> /\ 0 <= Len(answer'[h])
    BY <2>2, AnswersAreTexts, NothingArrived
  <2>5. RepliesAreSaid'
    BY <1>0, <2>1, <2>2, <2>4 DEF RepliesAreSaid
  <2>6. HttpTypeOK'
    BY <1>0, <2>1, <2>2, <2>3, Zenon DEF HttpTypeOK, Text
  <2> QED
    BY <2>5, <2>6
<1>3. ASSUME ReadCallback(h), NEW n \in arrived[h] + 1 .. Len(answer[h]),
             arrived' = [arrived EXCEPT ![h] = n],
             reply' = [reply EXCEPT ![h] = @ \o SubSeq(answer[h], arrived[h] + 1, n)]
      PROVE  HttpTypeOK' /\ RepliesAreSaid'
  <2>1. answer[h] \in Text /\ Len(answer[h]) \in Nat /\ arrived[h] \in Nat /\ n \in Nat
    BY <1>0, AnswersAreTexts
  <2>2. SubSeq(answer[h], 1, arrived[h]) \o SubSeq(answer[h], arrived[h] + 1, n)
          = SubSeq(answer[h], 1, n)
    <3>1. /\ 1 \in 1 .. Len(answer[h]) + 1 /\ n \in arrived[h] .. Len(answer[h])
          /\ arrived[h] \in 1 - 1 .. Len(answer[h])
      BY <2>1, SMTT(60)
    <3> QED
      BY <2>1, <3>1, ConcatAdjacentSubSeq, Zenon DEF Text
  <2>3. reply'[h] = SubSeq(answer[h], 1, n)
    BY <1>0, <1>3, <2>2, Zenon DEF RepliesAreSaid
  <2>4. SubSeq(answer[h], 1, n) \in Text
    <3>1. \A i \in 1 .. n : answer[h][i] \in UNION {Range(a) : a \in Answers}
      BY <2>1, ElementOfSeq, SMTT(60) DEF Text
    <3> QED
      BY <2>1, <3>1, SubSeqProperties DEF Text
  <2>5. UNCHANGED <<answer, http_bev>> /\ heard' = heard \cup {h} /\ h \in http_bev
    BY <1>3, Zenon DEF ReadCallback
  <2>6. RepliesAreSaid'
    <3>1. arrived'[h] = n /\ n <= Len(answer[h])
      BY <1>0, <1>3, <2>1
    <3>2. \A g \in Checks \ {h} : arrived'[g] = arrived[g] /\ reply'[g] = reply[g]
      BY <1>0, <1>3
    <3> QED
      BY <2>3, <2>5, <3>1, <3>2 DEF RepliesAreSaid
  <2>7. reply' \in [Checks -> Text]
    BY <1>0, <1>3, <2>3, <2>4, Zenon
  <2>8. HttpTypeOK'
    BY <1>0, <1>3, <2>1, <2>5, <2>7, Zenon DEF HttpTypeOK, Text
  <2> QED
    BY <2>6, <2>8
<1>4. CASE ReadCallback(h) /\ UNCHANGED <<arrived, reply>>
  BY <1>1, <1>4 DEF ReadCallback, HttpTypeOK
<1>5. ASSUME NEW result, HttpEndCheck(h, result)
      PROVE  HttpTypeOK' /\ RepliesAreSaid'
  BY <1>1, <1>5 DEF HttpEndCheck, HttpTypeOK
<1>6. CASE HttpTimer(h)
  BY <1>1, <1>5, <1>6, Zenon DEF HttpTimer, HttpTypeOK
<1>7. ASSUME NEW event, HttpEvent(h, event)
      PROVE  HttpTypeOK' /\ RepliesAreSaid'
  BY <1>1, <1>5, <1>7 DEF HttpEvent, httpVars, HttpTypeOK
<1> QED
  BY <1>2, <1>3, <1>4, <1>6, <1>7, Zenon DEF HttpStep, ReadCallback

(* A result other than HC_FAIL is that of the code in what was read.       *)
LEMMA ResultHasCode ==
  ASSUME NEW S, NEW text \in Seq(S)
  PROVE  /\ HttpResult(text) = "HC_PASS" =>
              \E c \in ok_codes \ drain_codes : HasCode(text, c)
         /\ HttpResult(text) = "HC_DRAIN" => \E c \in drain_codes : HasCode(text, c)
<1>1. ASSUME NEW c, StatusCode(text) = <<c>>
      PROVE  HasCode(text, c)
  <2>1. Len(StatusCode(text)) = 1 /\ StatusCode(text)[1] = c
    BY <1>1
  <2> QED
    BY <2>1, CodeIsThere
<1>2. CASE HttpResult(text) = "HC_DRAIN"
  BY <1>1, <1>2 DEF HttpResult
<1>3. CASE HttpResult(text) = "HC_PASS"
  <2>1. PICK c \in ok_codes : StatusCode(text) = <<c>>
    BY <1>3 DEF HttpResult
  <2>2. c \notin drain_codes
    BY <1>3, <2>1 DEF HttpResult
  <2> QED
    BY <1>1, <1>3, <2>1, <2>2
<1> QED
  BY <1>2, <1>3
-----------------------------------------------------------------------------
(* Pieces put together, and where each of them is then.                    *)

Pieces == Seq(Seq(Nat))

(* What f[i] makes of the first i pieces.                                  *)
Joins(f, pieces) ==
  /\ f[0] = <<>>
  /\ \A i \in 0 .. Len(pieces) : f[i] \in Seq(Nat)
  /\ \A i \in 1 .. Len(pieces) : f[i] = f[i - 1] \o pieces[i]

(* The text of pieces is what is joined after the last of them.            *)
LEMMA JoinedForm ==
  ASSUME NEW pieces \in Pieces
  PROVE  \E f : Joins(f, pieces) /\ Joined(pieces) = f[Len(pieces)]
<1> DEFINE n == Len(pieces)
           X == Seq(Nat)
           x0 == <<>>
           step == [i \in Nat |-> [s \in X |-> IF i \in 1 .. n THEN s \o pieces[i] ELSE s]]
           text == CHOOSE t : t = [i \in 0 .. Len(pieces) |->
                                     IF i = 0 THEN <<>> ELSE t[i - 1] \o pieces[i]]
<1>1. n \in Nat /\ \A i \in 1 .. n : pieces[i] \in X
  BY LenProperties, ElementOfSeq DEF Pieces
<1>2. x0 \in X
  OBVIOUS
<1>3. StaysIn(X, step)
  <2> SUFFICES ASSUME NEW i \in Nat, NEW s \in X
               PROVE  (IF i \in 1 .. n THEN s \o pieces[i] ELSE s) \in X
    BY Zenon DEF StaysIn
  <2> QED
    BY <1>1, ConcatProperties, Zenon
<1>4. PICK f : Loop(f, X, x0, step, n)
  <2> HIDE DEF step, X, n, x0
  <2> QED
    BY <1>1, <1>2, <1>3, LoopStates
<1> USE DEF Loop
<1> HIDE DEF X
<1>5. \A i \in 1 .. n : f[i] = f[i - 1] \o pieces[i]
  <2> SUFFICES ASSUME NEW i \in 1 .. n
               PROVE  f[i] = f[i - 1] \o pieces[i]
    BY Zenon
  <2>1. i \in Nat /\ i - 1 \in 0 .. n
    BY <1>1
  <2>2. f[i - 1] \in X /\ f[i] = step[i][f[i - 1]]
    BY <1>4, <2>1, Zenon
  <2> QED
    BY <2>1, <2>2, Zenon
<1>6. f = [i \in 0 .. Len(pieces) |-> IF i = 0 THEN <<>> ELSE f[i - 1] \o pieces[i]]
  <2>1. \A i \in 0 .. n : f[i] = IF i = 0 THEN <<>> ELSE f[i - 1] \o pieces[i]
    <3>1. \A i \in 0 .. n : i # 0 => i \in 1 .. n
      BY <1>1
    <3> QED
      BY <1>4, <1>5, <3>1, Zenon
  <2> QED
    BY <1>4, <2>1, Zenon
<1>7. text = [i \in 0 .. Len(pieces) |-> IF i = 0 THEN <<>> ELSE text[i - 1] \o pieces[i]]
  BY <1>6, Zenon
<1>8. Joined(pieces) = text[Len(pieces)]
  BY Zenon DEF Joined
<1> HIDE DEF text
<1>9. \A i \in 0 .. n : text[i] = f[i]
  <2>1. text[0] = f[0]
    BY <1>1, <1>4, <1>7
  <2>2. ASSUME NEW i \in 1 .. n, text[i - 1] = f[i - 1]
        PROVE  text[i] = f[i]
    <3>1. i \in 0 .. n /\ i # 0
      BY <1>1
    <3>2. text[i] = IF i = 0 THEN <<>> ELSE text[i - 1] \o pieces[i]
      BY <1>7, <3>1, Zenon
    <3> QED
      BY <1>5, <2>2, <3>1, <3>2, Zenon
  <2> QED
    BY <1>1, <2>1, <2>2, LoopsAgree, Zenon DEF GoAlike
<1>10. Joined(pieces) = f[n]
  <2>1. Len(pieces) \in 0 .. n /\ Len(pieces) = n
    BY <1>1
  <2> QED
    BY <1>8, <1>9, <2>1, Zenon
<1>11. Joins(f, pieces)
  BY <1>4, <1>5, Zenon DEF X, Joins
<1> QED
  BY <1>10, <1>11, Zenon

(* Text c is text s and then text t.                                       *)
Follows(c, s, t) ==
  /\ Len(c) = Len(s) + Len(t)
  /\ \A q \in 1 .. Len(s) : c[q] = s[q]
  /\ \A q \in 1 .. Len(t) : c[Len(s) + q] = t[q]

(* A concatenation is one text and then the other.                         *)
LEMMA ConcatFollows ==
  ASSUME NEW s \in Seq(Nat), NEW t \in Seq(Nat)
  PROVE  Follows(s \o t, s, t)
<1> DEFINE m == Len(s)
           n == Len(t)
           c == s \o t
<1>1. m \in Nat /\ n \in Nat
  BY LenProperties
<1>2. Len(c) = m + n
  BY ConcatProperties
<1>3. \A i \in 1 .. m + n : c[i] = IF i <= m THEN s[i] ELSE t[i - m]
  BY ConcatProperties
<1> HIDE DEF m, n, c
<1>4. ASSUME NEW q \in 1 .. m PROVE c[q] = s[q]
  BY <1>1, <1>3
<1>5. ASSUME NEW q \in 1 .. n PROVE c[m + q] = t[q]
  <2> DEFINE i == m + q
  <2>1. i \in 1 .. m + n /\ ~(i <= m) /\ i - m = q
    BY <1>1
  <2> HIDE DEF i
  <2>2. c[i] = IF i <= m THEN s[i] ELSE t[i - m]
    BY <1>3, <2>1, Zenon
  <2>3. c[i] = t[q]
    BY <2>1, <2>2, Zenon
  <2> QED
    BY <2>3 DEF i
<1> QED
  BY <1>2, <1>4, <1>5, Zenon DEF Follows, m, n, c

(* Piece k starts where those before it end, and stays there.              *)
PiecesAt(f, pieces, m) ==
  \A k \in 1 .. m :
    /\ Len(f[k]) = Len(f[k - 1]) + Len(pieces[k]) /\ Len(f[k]) <= Len(f[m])
    /\ \A q \in 1 .. Len(pieces[k]) : f[m][Len(f[k - 1]) + q] = pieces[k][q]

(* What has been joined stays where it is when more is joined.             *)
LEMMA PiecesStay ==
  ASSUME NEW pieces \in Pieces, NEW f, Joins(f, pieces), NEW m \in 0 .. Len(pieces)
  PROVE  PiecesAt(f, pieces, m)
<1> DEFINE n == Len(pieces)
           At(i) == Len(f[i])
           Size(i) == Len(pieces[i])
           Stay(j) == \A k \in 1 .. j :
             /\ At(k) = At(k - 1) + Size(k) /\ At(k) <= At(j)
             /\ \A q \in 1 .. Size(k) : f[j][At(k - 1) + q] = pieces[k][q]
           Bad == {j \in 0 .. n : ~Stay(j)}
<1>0. n \in Nat /\ \A i \in 1 .. n : pieces[i] \in Seq(Nat) /\ Size(i) \in Nat
  BY LenProperties, ElementOfSeq DEF Pieces
<1>1. SUFFICES ASSUME Bad # {} PROVE FALSE
  BY Zenon DEF PiecesAt
<1>2. \A i \in 0 .. n : f[i] \in Seq(Nat) /\ At(i) \in Nat
  BY LenProperties DEF Joins
<1>3. \A i \in 1 .. n : /\ At(i) = At(i - 1) + Size(i)
                        /\ \A q \in 1 .. At(i - 1) : f[i][q] = f[i - 1][q]
                        /\ \A q \in 1 .. Size(i) : f[i][At(i - 1) + q] = pieces[i][q]
  <2> SUFFICES ASSUME NEW i \in 1 .. n
               PROVE  Follows(f[i], f[i - 1], pieces[i])
    BY Zenon DEF Follows
  <2>1. i - 1 \in 0 .. n
    BY <1>0
  <2>2. f[i - 1] \in Seq(Nat) /\ pieces[i] \in Seq(Nat) /\ f[i] = f[i - 1] \o pieces[i]
    BY <1>0, <1>2, <2>1, Zenon DEF Joins
  <2> QED
    BY <2>2, ConcatFollows, Zenon
<1> HIDE DEF At, Size, n
<1>4. PICK j \in Bad : \A i \in Bad : j <= i
  <2>1. \A i \in 0 .. n : i \in Nat
    BY <1>0
  <2>2. Bad \in SUBSET Nat
    BY <2>1, Zenon
  <2> HIDE DEF Bad
  <2> QED
    BY <1>1, <2>2, LeastNumber
<1>5. j \in 0 .. n /\ ~Stay(j)
  BY Zenon
<1>6. j # 0
  <2>1. Stay(0)
    OBVIOUS
  <2> QED
    BY <1>5, <2>1, Zenon
<1>7. j - 1 \in 0 .. n /\ j \in 1 .. n /\ j - 1 \notin Bad
  <2> HIDE DEF Bad
  <2> QED
    BY <1>0, <1>4, <1>5, <1>6
<1>8. Stay(j - 1)
  BY <1>7, Zenon
<1>9. At(j - 1) \in Nat /\ At(j) \in Nat /\ At(j - 1) <= At(j) /\ At(j) <= At(j)
  <2>1. At(j - 1) \in Nat /\ Size(j) \in Nat /\ At(j) = At(j - 1) + Size(j)
    BY <1>0, <1>2, <1>3, <1>7, Zenon
  <2> QED
    BY <2>1
<1>10. ASSUME NEW k \in 1 .. j
       PROVE  /\ At(k) = At(k - 1) + Size(k) /\ At(k) <= At(j)
              /\ \A q \in 1 .. Size(k) : f[j][At(k - 1) + q] = pieces[k][q]
  <2>1. CASE k = j
    BY <1>3, <1>7, <1>9, <2>1, Zenon
  <2>2. CASE k # j
    <3>1. k \in 1 .. j - 1 /\ k - 1 \in 0 .. n /\ k \in 0 .. n /\ k \in 1 .. n
      BY <1>0, <1>7, <2>2
    <3>2. At(k - 1) \in Nat /\ At(k) \in Nat /\ Size(k) \in Nat
      BY <1>0, <1>2, <3>1, Zenon
    <3>3. At(k) = At(k - 1) + Size(k) /\ At(k) <= At(j - 1)
      BY <1>8, <3>1, Zenon
    <3>4. At(k) <= At(j)
      BY <1>9, <3>2, <3>3, SMTT(60)
    <3>5. ASSUME NEW q \in 1 .. Size(k)
          PROVE  f[j][At(k - 1) + q] = pieces[k][q]
      <4>1. At(k - 1) + q \in 1 .. At(j - 1)
        BY <1>9, <3>2, <3>3, Within, Zenon
      <4>2. f[j][At(k - 1) + q] = f[j - 1][At(k - 1) + q]
        BY <1>3, <1>7, <4>1, Zenon
      <4>3. f[j - 1][At(k - 1) + q] = pieces[k][q]
        BY <1>8, <3>1, Zenon
      <4> QED
        BY <4>2, <4>3, Zenon
    <3> QED
      BY <3>3, <3>4, <3>5, Zenon
  <2> QED
    BY <2>1, <2>2, Zenon
<1> QED
  BY <1>5, <1>10, Zenon

-----------------------------------------------------------------------------
(* The loop of build_dns_question().                                       *)

ScanState(query) ==
  [buffer : [0 .. Len(query) + 4 -> Nat], start : 0 .. Len(query) + 4, len : Nat]

(* The states f of the loop.                                               *)
Scans(f, query) ==
  /\ f[0] = [buffer |-> Copied(query), start |-> 0, len |-> 0]
  /\ \A i \in 0 .. Len(query) + 1 : f[i] \in ScanState(query)
  /\ \A i \in 1 .. Len(query) + 1 : f[i] = ScanByte(query, f[i - 1], i)

(* One byte keeps the state of the loop a state.                           *)
LEMMA ScanByteType ==
  ASSUME NEW query \in Seq(Nat), NEW s \in ScanState(query), NEW i \in 1 .. Len(query) + 1
  PROVE  ScanByte(query, s, i) \in ScanState(query)
<1> DEFINE o == Len(query)
<1>1. o \in Nat
  BY LenProperties
<1> HIDE DEF o
<1> USE DEF ScanState, ScanByte
<1>2. CASE i = o + 1 \/ s.buffer[i] = Dot
  <2>1. [s.buffer EXCEPT ![s.start] = s.len] \in [0 .. o + 4 -> Nat]
    BY DEF o
  <2>2. i \in 0 .. o + 4
    BY <1>1 DEF o
  <2> QED
    BY <1>2, <2>1, <2>2 DEF o
<1>3. CASE ~(i = o + 1 \/ s.buffer[i] = Dot)
  <2>1. s.len + 1 \in Nat
    OBVIOUS
  <2> QED
    BY <1>3, <2>1, Zenon DEF o
<1> QED
  BY <1>2, <1>3, Zenon

(* What is sent of the buffer: type A and class IN are set after the loop. *)
Typed(buffer, o) ==
  [i \in 1 .. o + 5 |-> [buffer EXCEPT ![o + 2] = 1, ![o + 4] = 1][i - 1]]

(* The question is what the loop over the query leaves in the buffer.      *)
LEMMA QuestionForm ==
  ASSUME NEW query \in Seq(Nat)
  PROVE  \E f : /\ Scans(f, query)
                /\ BuildDnsQuestion(query) = Typed(f[Len(query) + 1].buffer, Len(query))
<1> DEFINE n == Len(query) + 1
           X == ScanState(query)
           x0 == [buffer |-> Copied(query), start |-> 0, len |-> 0]
           step == [i \in Nat |-> [s \in X |-> IF i \in 1 .. n THEN ScanByte(query, s, i) ELSE s]]
           loop == CHOOSE t : t = [i \in 0 .. n |->
                     IF i = 0 THEN x0 ELSE ScanByte(query, t[i - 1], i)]
<1>1. n \in Nat
  BY LenProperties
<1>2. x0 \in X
  <2>1. Len(query) \in Nat /\ \A i \in 1 .. Len(query) : query[i] \in Nat
    BY LenProperties, ElementOfSeq
  <2>2. Copied(query) \in [0 .. Len(query) + 4 -> Nat]
    BY <2>1 DEF Copied
  <2> QED
    BY <2>1, <2>2 DEF ScanState
<1> HIDE DEF x0, X
<1>3. StaysIn(X, step)
  <2> SUFFICES ASSUME NEW i \in Nat, NEW s \in X
               PROVE  (IF i \in 1 .. n THEN ScanByte(query, s, i) ELSE s) \in X
    BY Zenon DEF StaysIn
  <2> QED
    BY ScanByteType, Zenon DEF X
<1>4. PICK f : Loop(f, X, x0, step, n)
  <2> HIDE DEF step, n
  <2> QED
    BY <1>1, <1>2, <1>3, LoopStates
<1> USE DEF Loop
<1>5. \A i \in 1 .. n : f[i] = ScanByte(query, f[i - 1], i)
  <2> SUFFICES ASSUME NEW i \in 1 .. n
               PROVE  f[i] = ScanByte(query, f[i - 1], i)
    OBVIOUS
  <2>1. i \in Nat /\ i - 1 \in 0 .. n
    BY <1>1
  <2>2. f[i - 1] \in X /\ f[i] = step[i][f[i - 1]]
    BY <1>4, <2>1, Zenon
  <2> HIDE DEF n
  <2> QED
    BY <2>1, <2>2
<1> HIDE DEF n
<1>6. f = [i \in 0 .. n |-> IF i = 0 THEN x0 ELSE ScanByte(query, f[i - 1], i)]
  <2>1. \A i \in 0 .. n : f[i] = IF i = 0 THEN x0 ELSE ScanByte(query, f[i - 1], i)
    <3>1. \A i \in 0 .. n : i # 0 => i \in 1 .. n
      BY <1>1
    <3> QED
      BY <1>4, <1>5, <3>1, Zenon
  <2> QED
    BY <1>4, <2>1, Zenon
<1>7. loop = [i \in 0 .. n |-> IF i = 0 THEN x0 ELSE ScanByte(query, loop[i - 1], i)]
  BY <1>6, Zenon
<1>8. BuildDnsQuestion(query) = Typed(loop[n].buffer, Len(query))
  BY Zenon DEF BuildDnsQuestion, QuestionTo, Typed, n, x0
<1> HIDE DEF loop
<1>9. \A i \in 0 .. n : loop[i] = f[i]
  <2>1. loop[0] = f[0]
    BY <1>1, <1>4, <1>7
  <2>2. ASSUME NEW i \in 1 .. n, loop[i - 1] = f[i - 1]
        PROVE  loop[i] = f[i]
    <3>1. i \in 0 .. n /\ i # 0
      BY <1>1
    <3>2. loop[i] = IF i = 0 THEN x0 ELSE ScanByte(query, loop[i - 1], i)
      BY <1>7, <3>1, Zenon
    <3> QED
      BY <1>5, <2>2, <3>1, <3>2, Zenon
  <2> QED
    BY <1>1, <2>1, <2>2, LoopsAgree, Zenon DEF GoAlike
<1>10. loop[n] = f[n]
  <2>1. n \in 0 .. n
    BY <1>1
  <2> QED
    BY <1>9, <2>1, Zenon
<1>11. Scans(f, query)
  BY <1>4, <1>5, Zenon DEF X, x0, n, Scans
<1> QED
  BY <1>8, <1>10, <1>11, Zenon DEF n

-----------------------------------------------------------------------------
(* Names and their labels.                                                 *)

Label == Seq(Nat \ {Dot})

(* Label k of a query lies between at[k - 1] and the dot at at[k]; in the  *)
(* coded name it is one byte later, after its length.                      *)
Parts(at, n, query, coded) ==
  /\ at[0] = 0 /\ at[n] = Len(query)
  /\ \A k \in 0 .. n : at[k] \in Nat /\ at[k] <= Len(query)
  /\ \A k \in 1 .. n :
       /\ at[k - 1] < at[k] /\ query[at[k]] = Dot
       /\ coded[at[k - 1] + 1] = at[k] - at[k - 1] - 1
       /\ \A x \in at[k - 1] + 1 .. at[k] - 1 : query[x] # Dot /\ coded[x + 1] = query[x]

(* A label with its dot, or with its length, is a sequence of bytes.       *)
LEMMA LabelPieces ==
  ASSUME NEW label \in Label
  PROVE  /\ label \in Seq(Nat) /\ Len(label) \in Nat
         /\ \A q \in 1 .. Len(label) : label[q] \in Nat \ {Dot}
         /\ label \o <<Dot>> \in Seq(Nat) /\ <<Len(label)>> \o label \in Seq(Nat)
         /\ Follows(label \o <<Dot>>, label, <<Dot>>)
         /\ Follows(<<Len(label)>> \o label, <<Len(label)>>, label)
<1>1. label \in Seq(Nat) /\ Len(label) \in Nat
  <2>1. (Nat \ {Dot}) \subseteq Nat
    OBVIOUS
  <2> QED
    BY <2>1, SeqMonotonic, LenProperties, Zenon DEF Label
<1>2. \A q \in 1 .. Len(label) : label[q] \in Nat \ {Dot}
  BY ElementOfSeq DEF Label
<1> DEFINE len == Len(label)
<1> HIDE DEF len
<1>3. <<Dot>> \in Seq(Nat) /\ <<len>> \in Seq(Nat)
  BY <1>1 DEF Dot, len
<1>4. label \o <<Dot>> \in Seq(Nat) /\ <<len>> \o label \in Seq(Nat)
  BY <1>1, <1>3, ConcatProperties, Zenon
<1>5. Follows(label \o <<Dot>>, label, <<Dot>>) /\ Follows(<<len>> \o label, <<len>>, label)
  BY <1>1, <1>3, ConcatFollows, Zenon
<1> QED
  BY <1>1, <1>2, <1>4, <1>5, Zenon DEF len

(* One label with the dot after it, and with its length before it.         *)
LEMMA LabelBytes ==
  ASSUME NEW label \in Label
  PROVE  /\ Len(label \o <<Dot>>) = Len(label) + 1
         /\ (label \o <<Dot>>)[Len(label) + 1] = Dot
         /\ \A q \in 1 .. Len(label) : (label \o <<Dot>>)[q] = label[q] /\ label[q] # Dot
         /\ Len(<<Len(label)>> \o label) = Len(label) + 1
         /\ (<<Len(label)>> \o label)[1] = Len(label)
         /\ \A q \in 1 .. Len(label) : (<<Len(label)>> \o label)[q + 1] = label[q]
<1> DEFINE len == Len(label)
           dotted == label \o <<Dot>>
           coded == <<Len(label)>> \o label
           dot == <<Dot>>
           size == <<Len(label)>>
<1>1. /\ len \in Nat /\ Follows(dotted, label, dot) /\ Follows(coded, size, label)
      /\ \A q \in 1 .. len : label[q] \in Nat \ {Dot}
  BY LabelPieces, Zenon
<1>2. Len(dot) = 1 /\ dot[1] = Dot /\ Len(size) = 1 /\ size[1] = len
  OBVIOUS
<1> HIDE DEF dot, size, dotted, coded
<1>3. /\ Len(dotted) = len + 1 /\ dotted[len + 1] = Dot
      /\ \A q \in 1 .. len : dotted[q] = label[q]
  BY <1>1, <1>2 DEF Follows
<1>4. /\ Len(coded) = len + 1 /\ coded[1] = len
      /\ \A q \in 1 .. len : coded[q + 1] = label[q]
  <2>1. Len(coded) = 1 + len /\ coded[1] = len
    BY <1>1, <1>2 DEF Follows
  <2>2. ASSUME NEW q \in 1 .. len PROVE coded[q + 1] = label[q]
    <3>1. coded[1 + q] = label[q]
      BY <1>1, <1>2, Zenon DEF Follows
    <3>2. q + 1 = 1 + q
      BY <1>1
    <3> QED
      BY <3>1, <3>2, Zenon
  <2> QED
    BY <1>1, <2>1, <2>2
<1> QED
  BY <1>1, <1>3, <1>4, Zenon DEF dotted, coded

(* A function of the numbers up to n is a sequence of length n.            *)
LEMMA FunctionIsPieces ==
  ASSUME NEW n \in Nat, NEW p \in [1 .. n -> Seq(Nat)]
  PROVE  p \in Pieces /\ Len(p) = n
<1>1. p \in Pieces
  <2> DEFINE S == Seq(Nat)
  <2> HIDE DEF S
  <2>1. Seq(S) = UNION {[1 .. m -> S] : m \in Nat}
    BY SeqDef, Zenon
  <2>2. p \in [1 .. n -> S]
    BY DEF S
  <2>3. p \in Seq(S)
    BY <2>1, <2>2
  <2> QED
    BY <2>3 DEF S, Pieces
<1>2. Len(p) \in Nat /\ 1 .. Len(p) = 1 .. n
  <2>1. DOMAIN p = 1 .. n
    OBVIOUS
  <2>2. Len(p) \in Nat /\ DOMAIN p = 1 .. Len(p)
    BY <1>1, LenProperties, Zenon DEF Pieces
  <2> QED
    BY <2>1, <2>2, Zenon
<1> DEFINE m == Len(p)
<1> HIDE DEF m
<1>3. m \in Nat /\ 1 .. m = 1 .. n
  BY <1>2 DEF m
<1>4. m = n
  <2>1. m <= n
    <3>1. m # 0 => m \in 1 .. n
      BY <1>3
    <3> QED
      BY <1>3, <3>1
  <2>2. n <= m
    <3>1. n # 0 => n \in 1 .. m
      BY <1>3
    <3> QED
      BY <1>3, <3>1
  <2> QED
    BY <1>3, <2>1, <2>2
<1> QED
  BY <1>1, <1>4 DEF m

(* A query and its question have their labels at the same places.          *)
LEMMA NameParts ==
  ASSUME NEW labels \in Seq(Label)
  PROVE  \E at, coded :
           /\ Parts(at, Len(labels), QueryOf(labels), coded)
           /\ QueryOf(labels) \in Seq(Nat) /\ coded \in Seq(Nat)
           /\ Len(coded) = Len(QueryOf(labels))
           /\ Question(labels) = coded \o <<0, 0, 1, 0, 1>>
<1> DEFINE n == Len(labels)
           L(k) == Len(labels[k])
           dotted == [i \in DOMAIN labels |-> labels[i] \o <<Dot>>]
           sized == [i \in DOMAIN labels |-> <<Len(labels[i])>> \o labels[i]]
<1>1. n \in Nat /\ DOMAIN labels = 1 .. n /\ \A k \in 1 .. n : labels[k] \in Label
  BY LenProperties, ElementOfSeq
<1>2. /\ \A k \in 1 .. n : dotted[k] = labels[k] \o <<Dot>> /\ dotted[k] \in Seq(Nat)
      /\ \A k \in 1 .. n : sized[k] = <<Len(labels[k])>> \o labels[k] /\ sized[k] \in Seq(Nat)
  BY <1>1, LabelPieces, Zenon
<1>3. dotted \in [1 .. n -> Seq(Nat)] /\ sized \in [1 .. n -> Seq(Nat)]
  BY <1>1, <1>2, Zenon
<1>4. QueryOf(labels) = Joined(dotted) /\ Question(labels) = Joined(sized) \o <<0, 0, 1, 0, 1>>
  BY Zenon DEF QueryOf, Question
<1>5. /\ \A k \in 1 .. n : L(k) \in Nat
      /\ \A k \in 1 .. n : Len(dotted[k]) = L(k) + 1 /\ dotted[k][L(k) + 1] = Dot
      /\ \A k \in 1 .. n : \A q \in 1 .. L(k) : dotted[k][q] = labels[k][q] /\ labels[k][q] # Dot
      /\ \A k \in 1 .. n : Len(sized[k]) = L(k) + 1 /\ sized[k][1] = L(k)
      /\ \A k \in 1 .. n : \A q \in 1 .. L(k) : sized[k][q + 1] = labels[k][q]
  BY <1>1, <1>2, LabelPieces, LabelBytes, Zenon
<1> HIDE DEF dotted, sized, n
<1>6. /\ dotted \in Pieces /\ Len(dotted) = n
      /\ sized \in Pieces /\ Len(sized) = n
  BY <1>1, <1>3, FunctionIsPieces
<1>7. PICK f : Joins(f, dotted) /\ Joined(dotted) = f[n]
  BY <1>6, JoinedForm
<1>8. PICK g : Joins(g, sized) /\ Joined(sized) = g[n]
  BY <1>6, JoinedForm
<1> DEFINE at == [k \in 0 .. n |-> Len(f[k])]
           bt == [k \in 0 .. n |-> Len(g[k])]
           query == f[n]
           coded == g[n]
<1>9. n \in 0 .. n /\ 0 \in 0 .. n /\ \A k \in 1 .. n : k - 1 \in 0 .. n /\ k \in 0 .. n
  BY <1>1
<1>10. /\ \A k \in 0 .. n : f[k] \in Seq(Nat) /\ at[k] \in Nat
       /\ \A k \in 0 .. n : g[k] \in Seq(Nat) /\ bt[k] \in Nat
  BY <1>6, <1>7, <1>8, LenProperties DEF Joins
<1>11. at[0] = 0 /\ bt[0] = 0
  <2>1. f[0] = <<>> /\ g[0] = <<>>
    BY <1>7, <1>8 DEF Joins
  <2> QED
    BY <1>9, <2>1, EmptySeq
<1>12. ASSUME NEW k \in 1 .. n
       PROVE  /\ at[k] = at[k - 1] + (L(k) + 1) /\ at[k] <= at[n]
              /\ \A q \in 1 .. L(k) + 1 : query[at[k - 1] + q] = dotted[k][q]
              /\ bt[k] = bt[k - 1] + (L(k) + 1)
              /\ \A q \in 1 .. L(k) + 1 : coded[bt[k - 1] + q] = sized[k][q]
  <2>1. PiecesAt(f, dotted, n) /\ PiecesAt(g, sized, n)
    BY <1>6, <1>7, <1>8, <1>9, PiecesStay
  <2>2. /\ Len(f[k]) = Len(f[k - 1]) + Len(dotted[k]) /\ Len(f[k]) <= Len(f[n])
        /\ \A q \in 1 .. Len(dotted[k]) : f[n][Len(f[k - 1]) + q] = dotted[k][q]
        /\ Len(g[k]) = Len(g[k - 1]) + Len(sized[k])
        /\ \A q \in 1 .. Len(sized[k]) : g[n][Len(g[k - 1]) + q] = sized[k][q]
    BY <2>1, Zenon DEF PiecesAt
  <2>3. /\ at[k] = Len(f[k]) /\ at[k - 1] = Len(f[k - 1]) /\ at[n] = Len(f[n])
        /\ bt[k] = Len(g[k]) /\ bt[k - 1] = Len(g[k - 1])
    BY <1>9, Zenon
  <2>4. /\ Len(dotted[k]) = L(k) + 1 /\ Len(sized[k]) = L(k) + 1 /\ L(k) \in Nat
        /\ at[k - 1] \in Nat /\ bt[k - 1] \in Nat
    BY <1>5, <1>9, <1>10, Zenon
  <2> HIDE DEF at, bt, L
  <2> QED
    BY <2>2, <2>3, <2>4, Zenon
<1> HIDE DEF at, bt, L, query, coded
<1>13. \A k \in 0 .. n : bt[k] = at[k]
  <2>1. \A k \in 1 .. n : bt[k - 1] = at[k - 1] => bt[k] = at[k]
    BY <1>12, Zenon
  <2>2. bt[0] = at[0]
    BY <1>11
  <2> QED
    BY <1>1, <2>1, <2>2, LoopsAgree, Zenon DEF GoAlike
<1>14. ASSUME NEW k \in 1 .. n
       PROVE  /\ at[k - 1] < at[k] /\ query[at[k]] = Dot
              /\ coded[at[k - 1] + 1] = at[k] - at[k - 1] - 1
              /\ \A x \in at[k - 1] + 1 .. at[k] - 1 : query[x] # Dot /\ coded[x + 1] = query[x]
  <2> DEFINE a == at[k - 1]
             b == at[k]
             l == L(k)
             e == l + 1
  <2>1. b = a + (l + 1) /\ bt[k - 1] = a /\ l \in Nat /\ a \in Nat /\ b \in Nat
    BY <1>5, <1>9, <1>10, <1>12, <1>13, Zenon DEF L
  <2>2. /\ \A q \in 1 .. e : query[a + q] = dotted[k][q]
        /\ \A q \in 1 .. e : coded[a + q] = sized[k][q]
    BY <1>12, <2>1, Zenon
  <2>3. dotted[k][e] = Dot /\ sized[k][1] = l
    BY <1>5, Zenon DEF L
  <2>4. \A q \in 1 .. l : dotted[k][q] = labels[k][q] /\ labels[k][q] # Dot
    BY <1>5, Zenon DEF L
  <2>5. \A q \in 1 .. l : sized[k][q + 1] = labels[k][q]
    BY <1>5, Zenon DEF L
  <2> HIDE DEF a, b, l
  <2>6. a + e = b /\ e \in 1 .. e /\ 1 \in 1 .. e /\ a < b /\ l = b - a - 1
    BY <2>1
  <2> HIDE DEF e
  <2>7. query[b] = Dot /\ coded[a + 1] = l
    BY <2>2, <2>3, <2>6, Zenon
  <2>8. ASSUME NEW x \in a + 1 .. b - 1
        PROVE  query[x] # Dot /\ coded[x + 1] = query[x]
    <3> DEFINE q == x - a
               r == q + 1
    <3>1. q \in 1 .. l /\ q \in 1 .. e /\ r \in 1 .. e /\ a + q = x /\ a + r = x + 1
      BY <2>1 DEF e
    <3> HIDE DEF q
    <3>2. dotted[k][q] = labels[k][q] /\ labels[k][q] # Dot /\ sized[k][r] = labels[k][q]
      BY <2>4, <2>5, <3>1, Zenon
    <3> HIDE DEF r
    <3>3. query[x] = dotted[k][q] /\ coded[x + 1] = sized[k][r]
      BY <2>2, <3>1, Zenon
    <3> QED
      BY <3>2, <3>3, Zenon
  <2>9. a < b /\ query[b] = Dot /\ coded[a + 1] = b - a - 1
    BY <2>6, <2>7, Zenon
  <2> QED
    BY <2>8, <2>9, Zenon DEF a, b
<1>15. at[n] = Len(query) /\ \A k \in 0 .. n : at[k] \in Nat /\ at[k] <= Len(query)
  <2>1. at[n] = Len(query) /\ at[n] \in Nat
    BY <1>9, <1>10, Zenon DEF at, query
  <2>2. ASSUME NEW k \in 0 .. n PROVE at[k] \in Nat /\ at[k] <= at[n]
    <3>1. CASE k = 0
      BY <1>11, <2>1, <3>1
    <3>2. CASE k # 0
      <4>1. k \in 1 .. n
        BY <1>1, <3>2
      <4> QED
        BY <1>10, <1>12, <4>1, Zenon
    <3> QED
      BY <3>1, <3>2
  <2> QED
    BY <2>1, <2>2, Zenon
<1>16. Parts(at, n, query, coded)
  BY <1>11, <1>14, <1>15, Zenon DEF Parts
<1>17. query \in Seq(Nat) /\ coded \in Seq(Nat) /\ Len(coded) = Len(query)
  BY <1>9, <1>10, <1>13, <1>15, Zenon DEF query, coded, bt
<1>18. QueryOf(labels) = query /\ Question(labels) = coded \o <<0, 0, 1, 0, 1>>
  BY <1>4, <1>7, <1>8, Zenon DEF query, coded
<1> QED
  BY <1>16, <1>17, <1>18, Zenon DEF n

-----------------------------------------------------------------------------
(* Coding the labels.                                                      *)

(* The loop before byte i + 1: the labels up to place a have been coded,   *)
(* the rest is the query as it was copied.                                 *)
ScannedTo(s, a, i, query, coded) ==
  /\ s.start = a /\ s.len = i - a
  /\ \A j \in 0 .. a - 1 : s.buffer[j] = coded[j + 1]
  /\ \A j \in a .. Len(query) + 4 : s.buffer[j] = Copied(query)[j]

(* The copy of the query, byte by byte.                                    *)
LEMMA CopiedBytes ==
  ASSUME NEW query \in Seq(Nat)
  PROVE  /\ Len(query) \in Nat
         /\ \A j \in 1 .. Len(query) : Copied(query)[j] = query[j]
         /\ \A j \in Len(query) + 1 .. Len(query) + 4 : Copied(query)[j] = 0
<1> DEFINE o == Len(query)
<1>1. o \in Nat
  BY LenProperties
<1> HIDE DEF o
<1>2. Copied(query) = [i \in 0 .. o + 4 |-> IF i \in 1 .. o THEN query[i] ELSE 0]
  BY Zenon DEF Copied, o
<1>3. \A j \in 1 .. o : Copied(query)[j] = query[j]
  BY <1>1, <1>2
<1>4. \A j \in o + 1 .. o + 4 : Copied(query)[j] = 0
  BY <1>1, <1>2
<1> QED
  BY <1>1, <1>3, <1>4 DEF o

(* A byte within a label: the label goes on.                               *)
LEMMA ScanOn ==
  ASSUME NEW query \in Seq(Nat), NEW s \in ScanState(query), NEW coded,
         NEW i \in 1 .. Len(query), NEW a \in Nat, a < i, query[i] # Dot,
         ScannedTo(s, a, i - 1, query, coded)
  PROVE  ScannedTo(ScanByte(query, s, i), a, i, query, coded)
<1> DEFINE o == Len(query)
           r == ScanByte(query, s, i)
<1>1. o \in Nat /\ Copied(query)[i] = query[i]
  BY CopiedBytes
<1>2. i \in a .. o + 4 /\ i # o + 1
  BY <1>1
<1>3. s.buffer[i] # Dot
  BY <1>1, <1>2, Zenon DEF ScannedTo
<1>4. r = [s EXCEPT !.len = @ + 1]
  BY <1>2, <1>3, Zenon DEF ScanByte
<1>5. r.start = s.start /\ r.buffer = s.buffer /\ r.len = s.len + 1
  BY <1>4 DEF ScanState
<1>6. s.start = a /\ s.len = (i - 1) - a
  BY Zenon DEF ScannedTo
<1> HIDE DEF r
<1>7. r.start = a /\ r.len = i - a
  BY <1>5, <1>6
<1> QED
  BY <1>5, <1>7, Zenon DEF ScannedTo, r

(* The dot after a label: the label's length goes before it.               *)
LEMMA ScanDot ==
  ASSUME NEW query \in Seq(Nat), NEW s \in ScanState(query), NEW coded,
         NEW i \in 1 .. Len(query), NEW a \in Nat, a < i, query[i] = Dot,
         coded[a + 1] = i - a - 1,
         \A x \in a + 1 .. i - 1 : coded[x + 1] = query[x],
         ScannedTo(s, a, i - 1, query, coded)
  PROVE  ScannedTo(ScanByte(query, s, i), i, i, query, coded)
<1> DEFINE o == Len(query)
           r == ScanByte(query, s, i)
<1>1. o \in Nat /\ Copied(query)[i] = query[i] /\ \A j \in 1 .. o : Copied(query)[j] = query[j]
  BY CopiedBytes
<1>2. i \in a .. o + 4
  BY <1>1
<1>3. s.buffer[i] = Dot
  BY <1>1, <1>2, Zenon DEF ScannedTo
<1>4. r = [buffer |-> [s.buffer EXCEPT ![s.start] = s.len], start |-> i, len |-> 0]
  BY <1>3, Zenon DEF ScanByte
<1>5. s.start = a /\ s.len = (i - 1) - a
  BY Zenon DEF ScannedTo
<1>6. /\ r.start = i /\ r.len = 0
      /\ r.buffer = [s.buffer EXCEPT ![a] = s.len]
  <2>1. r.start = i /\ r.len = 0 /\ r.buffer = [s.buffer EXCEPT ![s.start] = s.len]
    BY <1>4
  <2> QED
    BY <1>5, <2>1, ZenonT(60)
<1>7. a \in 0 .. o + 4
  BY <1>1
<1>8. s.buffer \in [0 .. o + 4 -> Nat]
  BY DEF ScanState
<1> HIDE DEF r
<1>9. r.buffer[a] = coded[a + 1]
  BY <1>5, <1>6, <1>7, <1>8, SMTT(60)
<1>10. \A j \in 0 .. o + 4 : j # a => r.buffer[j] = s.buffer[j]
  BY <1>6, <1>8, ZenonT(60)
<1> HIDE DEF o
<1>11. ASSUME NEW j \in 0 .. i - 1 PROVE r.buffer[j] = coded[j + 1]
  <2>0. i <= o /\ j \in 0 .. o + 4
    BY <1>1 DEF o
  <2>1. CASE j = a
    BY <1>9, <2>1
  <2>2. CASE j < a
    <3>1. j \in 0 .. a - 1 /\ j # a
      BY <2>2
    <3> QED
      BY <1>10, <2>0, <3>1, Zenon DEF ScannedTo
  <2>3. CASE j > a
    <3>1. j \in a + 1 .. i - 1 /\ j \in a .. o + 4 /\ j \in 1 .. o /\ j # a
      BY <1>1, <2>0, <2>3
    <3>2. s.buffer[j] = Copied(query)[j]
      BY <3>1, Zenon DEF ScannedTo, o
    <3> QED
      BY <1>1, <1>10, <2>0, <3>1, <3>2, Zenon
  <2> QED
    BY <2>1, <2>2, <2>3
<1>12. ASSUME NEW j \in i .. o + 4 PROVE r.buffer[j] = Copied(query)[j]
  <2>1. j \in 0 .. o + 4 /\ j \in a .. o + 4 /\ j # a
    BY <1>1
  <2>2. s.buffer[j] = Copied(query)[j]
    BY <2>1, Zenon DEF ScannedTo, o
  <2> QED
    BY <1>10, <2>1, <2>2, Zenon
<1>13. r.len = i - i
  BY <1>6
<1> QED
  BY <1>6, <1>11, <1>12, <1>13, Zenon DEF ScannedTo, r, o

(* The loop at byte i: it is within the label after at[k], or at its start.*)
Reaches(f, at, n, query, coded, i) ==
  \E k \in 0 .. n : /\ at[k] <= i /\ (k < n => i < at[k + 1])
                    /\ ScannedTo(f[i], at[k], i, query, coded)

(* One step of the loop.                                                   *)
LEMMA ReachesNext ==
  ASSUME NEW query \in Seq(Nat), NEW n \in Nat, NEW at, NEW coded, NEW f,
         Parts(at, n, query, coded), Scans(f, query),
         NEW i \in 1 .. Len(query), Reaches(f, at, n, query, coded, i - 1)
  PROVE  Reaches(f, at, n, query, coded, i)
<1> DEFINE o == Len(query)
<1>0. o \in Nat
  BY LenProperties
<1>1. PICK k \in 0 .. n : /\ at[k] <= i - 1 /\ (k < n => i - 1 < at[k + 1])
                          /\ ScannedTo(f[i - 1], at[k], i - 1, query, coded)
  BY Zenon DEF Reaches
<1> DEFINE a == at[k]
           m == k + 1
           b == at[m]
<1>2. a \in Nat /\ at[n] = o
  BY Zenon DEF Parts
<1>3. k < n
  <2>1. k = n => i - 1 >= o
    BY <1>0, <1>1, <1>2
  <2> QED
    BY <1>0, <2>1
<1>4. m \in 1 .. n /\ m \in 0 .. n /\ m - 1 = k
  BY <1>3
<1> HIDE DEF m
<1>5. /\ at[m - 1] < at[m] /\ query[b] = Dot
      /\ coded[at[m - 1] + 1] = at[m] - at[m - 1] - 1
      /\ \A x \in at[m - 1] + 1 .. at[m] - 1 : query[x] # Dot /\ coded[x + 1] = query[x]
      /\ b \in Nat /\ b <= Len(query)
  BY <1>4, Zenon DEF Parts
<1>6. /\ a < b /\ coded[a + 1] = b - a - 1
      /\ \A x \in a + 1 .. b - 1 : query[x] # Dot /\ coded[x + 1] = query[x]
  BY <1>4, <1>5, Zenon
<1>7. a <= i - 1 /\ i - 1 < b /\ ScannedTo(f[i - 1], a, i - 1, query, coded)
  BY <1>1, <1>3, Zenon DEF m
<1>8. f[i - 1] \in ScanState(query) /\ f[i] = ScanByte(query, f[i - 1], i)
  <2>1. i - 1 \in 0 .. o + 1 /\ i \in 1 .. o + 1
    BY <1>0
  <2> QED
    BY <2>1, Zenon DEF Scans
<1> HIDE DEF a, b
<1>9. a < i /\ i <= b
  BY <1>2, <1>5, <1>7
<1>10. CASE i < b
  <2>1. i \in a + 1 .. b - 1 /\ a <= i
    BY <1>2, <1>5, <1>9, <1>10
  <2>2. query[i] # Dot
    BY <1>6, <2>1, Zenon
  <2>3. ScannedTo(f[i], a, i, query, coded)
    BY <1>2, <1>7, <1>8, <1>9, <2>2, ScanOn, Zenon
  <2>4. at[k] <= i /\ (k < n => i < at[k + 1])
    BY <1>10, <2>1, Zenon DEF a, b, m
  <2> QED
    BY <2>3, <2>4, Zenon DEF Reaches, a
<1>11. CASE i = b
  <2>1. \A x \in a + 1 .. i - 1 : coded[x + 1] = query[x]
    BY <1>6, <1>11, Zenon
  <2>2. query[i] = Dot /\ coded[a + 1] = i - a - 1
    BY <1>5, <1>6, <1>11, Zenon
  <2>3. ScannedTo(f[i], i, i, query, coded)
    BY <1>2, <1>7, <1>8, <1>9, <2>1, <2>2, ScanDot, Zenon
  <2>4. ASSUME m < n PROVE i < at[m + 1]
    <3> DEFINE l == m + 1
    <3>1. l \in 1 .. n /\ l - 1 = m
      BY <1>4, <2>4
    <3> HIDE DEF l
    <3>2. at[l - 1] < at[l]
      BY <3>1, Zenon DEF Parts
    <3> QED
      BY <1>11, <3>1, <3>2, Zenon DEF l, b
  <2>5. at[m] <= i
    BY <1>11, <1>5 DEF b
  <2>6. ScannedTo(f[i], at[m], i, query, coded)
    BY <1>11, <2>3, Zenon DEF b
  <2> QED
    BY <1>4, <2>4, <2>5, <2>6, Zenon DEF Reaches
<1> QED
  BY <1>2, <1>5, <1>9, <1>10, <1>11

(* The loop reaches the end of the query with all labels coded.            *)
LEMMA ReachesEnd ==
  ASSUME NEW query \in Seq(Nat), NEW n \in Nat, NEW at, NEW coded, NEW f,
         Parts(at, n, query, coded), Scans(f, query)
  PROVE  ScannedTo(f[Len(query)], Len(query), Len(query), query, coded)
<1> DEFINE o == Len(query)
           Bad == {i \in 0 .. o : ~Reaches(f, at, n, query, coded, i)}
<1>0. o \in Nat /\ at[0] = 0 /\ at[n] = o
  BY LenProperties DEF Parts
<1>1. Reaches(f, at, n, query, coded, 0)
  <2>1. f[0].buffer = Copied(query) /\ f[0].start = 0 /\ f[0].len = 0
    BY DEF Scans
  <2>2. ScannedTo(f[0], 0, 0, query, coded)
    <3>1. \A j \in 0 .. 0 - 1 : f[0].buffer[j] = coded[j + 1]
      OBVIOUS
    <3>2. f[0].len = 0 - 0
      BY <2>1
    <3> QED
      BY <2>1, <3>1, <3>2, Zenon DEF ScannedTo
  <2>3. ASSUME 0 < n PROVE 0 < at[0 + 1]
    <3>1. 1 \in 1 .. n /\ 1 - 1 = 0 /\ 0 + 1 = 1
      BY <2>3
    <3>2. at[1 - 1] < at[1]
      BY <3>1, Zenon DEF Parts
    <3> QED
      BY <1>0, <3>1, <3>2, Zenon
  <2>4. 0 \in 0 .. n /\ at[0] <= 0
    BY <1>0
  <2> QED
    BY <1>0, <2>2, <2>3, <2>4, Zenon DEF Reaches
<1>2. Reaches(f, at, n, query, coded, o)
  <2>1. SUFFICES ASSUME Bad # {} PROVE FALSE
    <3>1. o \in 0 .. o
      BY <1>0
    <3> QED
      BY <3>1, Zenon
  <2>2. Bad \in SUBSET Nat
    BY <1>0
  <2>3. PICK i \in Bad : \A j \in Bad : i <= j
    BY <2>1, <2>2, LeastNumber, Zenon
  <2>4. i \in 0 .. o /\ ~Reaches(f, at, n, query, coded, i)
    BY <2>3, Zenon
  <2>5. i # 0
    BY <1>1, <2>4, Zenon
  <2>6. i \in 1 .. o /\ i - 1 \in 0 .. o /\ ~(i <= i - 1)
    BY <1>0, <2>4, <2>5
  <2>7. i - 1 \notin Bad
    BY <2>3, <2>6, Zenon
  <2>8. Reaches(f, at, n, query, coded, i - 1)
    BY <2>6, <2>7, Zenon
  <2> QED
    BY <2>4, <2>6, <2>8, ReachesNext, Zenon
<1>3. PICK k \in 0 .. n : /\ at[k] <= o /\ (k < n => o < at[k + 1])
                          /\ ScannedTo(f[o], at[k], o, query, coded)
  BY <1>2, Zenon DEF Reaches
<1>4. k = n
  <2>1. SUFFICES ASSUME k < n PROVE FALSE
    OBVIOUS
  <2> DEFINE m == k + 1
  <2>2. m \in 0 .. n
    BY <2>1
  <2>3. o < at[m]
    BY <1>3, <2>1, Zenon
  <2> HIDE DEF m
  <2>4. at[m] \in Nat /\ at[m] <= o
    BY <2>2, Zenon DEF Parts
  <2> QED
    BY <1>0, <2>3, <2>4
<1> QED
  BY <1>0, <1>3, <1>4, Zenon

(* The last byte of the loop, and the question's type and class.           *)
LEMMA TypedEnd ==
  ASSUME NEW query \in Seq(Nat), NEW coded \in Seq(Nat), Len(coded) = Len(query), NEW f,
         Scans(f, query), ScannedTo(f[Len(query)], Len(query), Len(query), query, coded)
  PROVE  Typed(f[Len(query) + 1].buffer, Len(query)) = coded \o <<0, 0, 1, 0, 1>>
<1> DEFINE o == Len(query)
           s == f[o]
           r == f[o + 1]
           tail == <<0, 0, 1, 0, 1>>
           c == coded \o tail
           t == Typed(r.buffer, o)
<1>0. /\ o \in Nat /\ \A j \in o + 1 .. o + 4 : Copied(query)[j] = 0
  BY CopiedBytes
<1>1. s \in ScanState(query) /\ r = ScanByte(query, s, o + 1)
  <2> DEFINE i == o + 1
  <2>1. i \in 1 .. o + 1 /\ o \in 0 .. o + 1 /\ i - 1 = o
    BY <1>0
  <2> HIDE DEF i
  <2>2. f[i] = ScanByte(query, f[i - 1], i)
    BY <2>1, Zenon DEF Scans
  <2> QED
    BY <2>1, <2>2, Zenon DEF i, Scans
<1>2. s.start = o /\ s.len = o - o
  BY Zenon DEF ScannedTo
<1>3. r.buffer = [s.buffer EXCEPT ![o] = 0]
  <2>1. r = [buffer |-> [s.buffer EXCEPT ![s.start] = s.len], start |-> o + 1, len |-> 0]
    BY <1>1, Zenon DEF ScanByte
  <2>2. s.len = 0
    BY <1>0, <1>2, SMTT(60)
  <2> HIDE DEF r, s
  <2>3. r.buffer = [s.buffer EXCEPT ![s.start] = s.len]
    BY <2>1, ZenonT(60)
  <2> QED
    BY <1>2, <2>2, <2>3
<1>4. s.buffer \in [0 .. o + 4 -> Nat]
  BY <1>1 DEF ScanState
<1>5. /\ \A j \in 0 .. o - 1 : s.buffer[j] = coded[j + 1]
      /\ \A j \in o .. o + 4 : s.buffer[j] = Copied(query)[j]
  BY Zenon DEF ScannedTo
<1>6. /\ tail \in Seq(Nat) /\ Len(tail) = 5
      /\ tail[1] = 0 /\ tail[2] = 0 /\ tail[3] = 1 /\ tail[4] = 0 /\ tail[5] = 1
  BY SMTT(60)
<1> HIDE DEF tail
<1>7. c \in Seq(Nat) /\ Follows(c, coded, tail)
  BY <1>6, ConcatFollows, ConcatProperties
<1> HIDE DEF c
<1>8. /\ Len(c) = o + 5 /\ \A q \in 1 .. o : c[q] = coded[q]
      /\ \A q \in 1 .. 5 : c[o + q] = tail[q]
  BY <1>6, <1>7, Zenon DEF Follows
<1>9. c = [i \in 1 .. o + 5 |-> c[i]]
  BY <1>7, <1>8, LenProperties
<1>10. t = [i \in 1 .. o + 5 |-> [r.buffer EXCEPT ![o + 2] = 1, ![o + 4] = 1][i - 1]]
  BY Zenon DEF Typed
<1> DEFINE b == r.buffer
           d == [b EXCEPT ![o + 2] = 1, ![o + 4] = 1]
<1> HIDE DEF o, r, s
<1>11. /\ b \in [0 .. o + 4 -> Nat]
       /\ b[o] = 0
       /\ \A j \in 0 .. o + 4 : j # o => b[j] = s.buffer[j]
  BY <1>0, <1>3, <1>4, SMTT(60)
<1> HIDE DEF b
<1>12. /\ d[o + 2] = 1 /\ d[o + 4] = 1
       /\ \A j \in 0 .. o + 4 : j # o + 2 /\ j # o + 4 => d[j] = b[j]
  BY <1>0, <1>11, SMTT(60)
<1> HIDE DEF d
<1>13. ASSUME NEW i \in 1 .. o + 5 PROVE d[i - 1] = c[i]
  <2> DEFINE j == i - 1
  <2>1. j \in 0 .. o + 4 /\ j + 1 = i
    BY <1>0
  <2> HIDE DEF j
  <2>2. CASE j < o
    <3>1. j \in 0 .. o - 1 /\ j # o /\ j # o + 2 /\ j # o + 4 /\ i \in 1 .. o
      BY <1>0, <2>1, <2>2
    <3>2. d[j] = b[j] /\ b[j] = s.buffer[j]
      BY <1>11, <1>12, <2>1, <3>1, Zenon
    <3>3. s.buffer[j] = coded[i] /\ c[i] = coded[i]
      BY <1>5, <1>8, <2>1, <3>1, Zenon
    <3> QED
      BY <3>2, <3>3, Zenon DEF j
  <2>3. CASE j >= o
    <3> DEFINE q == i - o
    <3>1. q \in 1 .. 5 /\ o + q = i /\ j = o + (q - 1)
      BY <1>0, <2>1, <2>3
    <3> HIDE DEF q
    <3>2. c[i] = tail[q]
      BY <1>8, <3>1, Zenon
    <3>3. d[j] = tail[q]
      <4>1. q = 1 \/ q = 2 \/ q = 3 \/ q = 4 \/ q = 5
        BY <3>1
      <4>2. CASE q = 1
        <5>1. j = o /\ j # o + 2 /\ j # o + 4
          BY <1>0, <3>1, <4>2
        <5> QED
          BY <1>6, <1>11, <1>12, <2>1, <4>2, <5>1, Zenon
      <4>3. CASE q = 2 \/ q = 4
        <5>1. j # o /\ j # o + 2 /\ j # o + 4 /\ j \in o + 1 .. o + 4 /\ j \in o .. o + 4
          BY <1>0, <3>1, <4>3
        <5>2. s.buffer[j] = 0
          BY <1>0, <1>5, <5>1, Zenon
        <5> QED
          BY <1>6, <1>11, <1>12, <2>1, <4>3, <5>1, <5>2, Zenon
      <4>4. CASE q = 3 \/ q = 5
        <5>1. (q = 3 => j = o + 2) /\ (q = 5 => j = o + 4)
          BY <1>0, <3>1, <4>4
        <5> QED
          BY <1>6, <1>12, <4>4, <5>1, Zenon
      <4> QED
        BY <4>1, <4>2, <4>3, <4>4, Zenon
    <3> QED
      BY <3>2, <3>3, Zenon DEF j
  <2> QED
    BY <1>0, <2>1, <2>2, <2>3
<1>14. t = [i \in 1 .. o + 5 |-> d[i - 1]]
  BY <1>10, Zenon DEF d, b
<1> HIDE DEF t
<1>15. t = [i \in 1 .. o + 5 |-> c[i]]
  BY <1>13, <1>14
<1>16. t = c
  BY <1>9, <1>15
<1> QED
  BY <1>16, Zenon DEF t, c, tail, r, o

(* build_dns_question() codes every name of labels without a dot as RFC    *)
(* 1035 says, however many labels it has and however long they are.        *)
LEMMA QuestionIsCoded ==
  ASSUME NEW labels \in Seq(Label)
  PROVE  BuildDnsQuestion(QueryOf(labels)) = Question(labels)
<1> DEFINE query == QueryOf(labels)
           n == Len(labels)
<1>1. PICK at, coded :
        /\ Parts(at, n, query, coded)
        /\ query \in Seq(Nat) /\ coded \in Seq(Nat) /\ Len(coded) = Len(query)
        /\ Question(labels) = coded \o <<0, 0, 1, 0, 1>>
  BY NameParts, Zenon
<1>2. n \in Nat
  BY LenProperties
<1> HIDE DEF n, query
<1>3. PICK f : /\ Scans(f, query)
               /\ BuildDnsQuestion(query) = Typed(f[Len(query) + 1].buffer, Len(query))
  BY <1>1, QuestionForm, Zenon
<1>4. ScannedTo(f[Len(query)], Len(query), Len(query), query, coded)
  BY <1>1, <1>2, <1>3, ReachesEnd, Zenon
<1>5. Typed(f[Len(query) + 1].buffer, Len(query)) = coded \o <<0, 0, 1, 0, 1>>
  BY <1>1, <1>3, <1>4, TypedEnd, Zenon
<1> QED
  BY <1>1, <1>3, <1>5, Zenon DEF query

(* The names of NamesAreCoded are names of labels without a dot.           *)
LEMMA NamesAreLabels == Names \subseteq Seq(Label)
<1> DEFINE S == {<<97>>, <<98, 99>>, <<97, 98, 100>>}
<1>1. S \subseteq Label
  BY DEF Label, Dot
<1> HIDE DEF S
<1>2. ASSUME NEW n \in 1 .. 3, NEW labels \in [1 .. n -> S]
      PROVE  labels \in Seq(Label)
  <2>1. labels \in [1 .. n -> Label]
    BY <1>1
  <2>2. Seq(Label) = UNION {[1 .. m -> Label] : m \in Nat}
    BY SeqDef, Zenon
  <2> QED
    BY <2>1, <2>2
<1> QED
  BY <1>2, Zenon DEF Names, S
-----------------------------------------------------------------------------
(* Carries.                                                                *)

(* Division of a number that is written as quotient and rest.              *)
LEMMA Divided ==
  ASSUME NEW w \in Nat \ {0}, NEW h \in Nat, NEW l \in 0 .. w - 1, NEW s \in Nat,
         s = h * w + l
  PROVE  s \div w = h /\ s % w = l
<1> DEFINE q == s \div w
           r == s % w
<1>1. q \in Int /\ r \in 0 .. w - 1 /\ s = w * q + r
  OBVIOUS
<1> HIDE DEF q, r
<1>2. ~(q > h)
  <2>1. SUFFICES ASSUME q >= h + 1 PROVE FALSE
    BY <1>1
  <2>2. w * q >= w * (h + 1)
    BY <1>1, <2>1
  <2>3. w * (h + 1) = h * w + w
    OBVIOUS
  <2> QED
    BY <1>1, <2>2, <2>3
<1>3. ~(q < h)
  <2>1. SUFFICES ASSUME h >= q + 1 PROVE FALSE
    BY <1>1
  <2>2. w * h >= w * (q + 1)
    BY <1>1, <2>1
  <2>3. w * (q + 1) = w * q + w
    BY <1>1
  <2> QED
    BY <1>1, <2>2, <2>3
<1>4. q = h
  BY <1>1, <1>2, <1>3
<1>5. r = l
  BY <1>1, <1>4
<1> QED
  BY <1>4, <1>5 DEF q, r

(* Every number is quotient and rest.                                      *)
LEMMA Splits ==
  ASSUME NEW w \in Nat \ {0}, NEW s \in Nat
  PROVE  /\ s \div w \in Nat /\ s % w \in 0 .. w - 1
         /\ s = (s \div w) * w + (s % w)
  OBVIOUS

(* Folded sums, for words of w values.                                     *)
Once(s, w) == (s \div w) + (s % w)
Folded(s, w) == (Once(s, w) + (Once(s, w) \div w)) % w

(* Folding a sum of two words: the carry is added once.                    *)
LEMMA FoldedIs ==
  ASSUME NEW w \in Nat \ {0, 1}, NEW h \in 0 .. w - 1, NEW l \in 0 .. w - 1, NEW s \in Nat,
         s = h * w + l
  PROVE  Folded(s, w) = IF h + l < w THEN h + l ELSE h + l - w + 1
<1> DEFINE n == h + l
<1>1. Once(s, w) = n
  BY Divided DEF Once
<1>2. n \in Nat /\ n <= 2 * w - 2
  OBVIOUS
<1>3. CASE n < w
  <2>1. n = 0 * w + n /\ n \in 0 .. w - 1
    BY <1>2, <1>3
  <2> HIDE DEF n
  <2>2. n \div w = 0 /\ n % w = n
    BY <1>2, <2>1, Divided
  <2>3. Folded(s, w) = (n + (n \div w)) % w
    BY <1>1, Zenon DEF Folded
  <2>4. n + (n \div w) = n
    BY <1>2, <2>2
  <2> QED
    BY <1>3, <2>2, <2>3, <2>4, Zenon DEF n
<1>4. CASE n >= w
  <2> DEFINE x == n - w
             m == n + 1
             y == x + 1
  <2>1. n = 1 * w + x /\ x \in 0 .. w - 1 /\ m = 1 * w + y /\ y \in 0 .. w - 1 /\ m \in Nat
    BY <1>2, <1>4
  <2> HIDE DEF n, x, y, m
  <2>2. n \div w = 1 /\ m % w = y
    BY <1>2, <2>1, Divided
  <2>3. Folded(s, w) = (n + (n \div w)) % w
    BY <1>1, Zenon DEF Folded
  <2>4. Folded(s, w) = y
    BY <2>2, <2>3, Zenon DEF m
  <2> QED
    BY <1>2, <1>4, <2>4 DEF n, x, y
<1> QED
  BY <1>2, <1>3, <1>4

(* A sum of two words with the rest of its folding added folds to all ones.*)
LEMMA FoldedVerifies ==
  ASSUME NEW w \in Nat \ {0, 1}, NEW s \in Nat, s < w * w
  PROVE  /\ Folded(s, w) \in 0 .. w - 1
         /\ Folded(s + ((w - 1) - Folded(s, w)), w) = w - 1
<1> DEFINE h == s \div w
           l == s % w
           c == (w - 1) - Folded(s, w)
           t == s + c
<1>1. h \in Nat /\ l \in 0 .. w - 1 /\ s = h * w + l
  BY Splits
<1> HIDE DEF h, l
<1>2. h \in 0 .. w - 1
  <2>1. SUFFICES ASSUME h >= w PROVE FALSE
    BY <1>1
  <2>2. h * w >= w * w
    BY <1>1, <2>1
  <2>3. h * w \in Nat /\ w * w \in Nat
    BY <1>1
  <2> QED
    BY <1>1, <2>2, <2>3
<1>3. Folded(s, w) = IF h + l < w THEN h + l ELSE h + l - w + 1
  BY <1>1, <1>2, FoldedIs, Zenon
<1> DEFINE p == h * w
<1>4. p \in Nat
  BY <1>1
<1>5. CASE h + l < w
  <2> DEFINE k == w - 1 - h
  <2>1. k \in 0 .. w - 1 /\ h + k < w /\ h + k = w - 1
    BY <1>2
  <2>2. t = p + k /\ t \in Nat
    <3> HIDE DEF p
    <3> QED
      BY <1>1, <1>2, <1>3, <1>4, <1>5 DEF p
  <2> HIDE DEF t, k
  <2>3. Folded(t, w) = w - 1
    BY <1>2, <2>1, <2>2, FoldedIs, Zenon
  <2> QED
    BY <1>1, <1>2, <1>3, <1>5, <2>3 DEF t
<1>6. CASE h + l >= w /\ h < w - 1
  <2> DEFINE g == h + 1
             k == w - 2 - h
  <2>1. k \in 0 .. w - 1 /\ g \in 0 .. w - 1 /\ g + k < w /\ g + k = w - 1
    BY <1>2, <1>6
  <2>2. g * w = p + w
    BY <1>1
  <2>3. t = g * w + k /\ t \in Nat
    <3> HIDE DEF p, g
    <3> QED
      BY <1>1, <1>2, <1>3, <1>4, <1>6, <2>2 DEF p
  <2> HIDE DEF t, k, g
  <2>4. Folded(t, w) = w - 1
    BY <2>1, <2>3, FoldedIs, Zenon
  <2> QED
    BY <1>1, <1>2, <1>3, <1>6, <2>4 DEF t
<1>7. CASE h + l >= w /\ h = w - 1
  <2> DEFINE k == w - 1
  <2>1. k \in 0 .. w - 1 /\ h + k >= w /\ h + k - w + 1 = w - 1
    BY <1>2, <1>7
  <2>2. t = p + k /\ t \in Nat
    <3> HIDE DEF p
    <3> QED
      BY <1>1, <1>2, <1>3, <1>4, <1>7 DEF p
  <2> HIDE DEF t, k
  <2>3. Folded(t, w) = w - 1
    <3>1. Folded(t, w) = IF h + k < w THEN h + k ELSE h + k - w + 1
      BY <1>2, <2>1, <2>2, FoldedIs, Zenon
    <3>2. ~(h + k < w)
      BY <1>2, <2>1
    <3> QED
      BY <2>1, <3>1, <3>2, Zenon
  <2> QED
    BY <1>1, <1>2, <1>3, <1>7, <2>3 DEF t
<1> QED
  BY <1>1, <1>2, <1>5, <1>6, <1>7

-----------------------------------------------------------------------------
(* Sums of words.                                                          *)

(* The sums f after each of the words.                                     *)
Adds(f, words) ==
  /\ f[0] = 0 /\ \A i \in 0 .. Len(words) : f[i] \in Nat
  /\ \A i \in 1 .. Len(words) : f[i] = f[i - 1] + words[i]

(* The sum is the last of the sums after each word.                        *)
LEMMA SumForm ==
  ASSUME NEW words \in Seq(Nat)
  PROVE  \E f : Adds(f, words) /\ SumOf(words) = f[Len(words)]
<1> DEFINE n == Len(words)
           Add(x, i) == x + words[i]
           step == [i \in Nat |-> [x \in Nat |-> IF i \in 1 .. n THEN Add(x, i) ELSE x]]
           loop == CHOOSE t : t = [i \in 0 .. n |-> IF i = 0 THEN 0 ELSE Add(t[i - 1], i)]
<1>1. n \in Nat /\ \A i \in 1 .. n : words[i] \in Nat
  BY LenProperties, ElementOfSeq
<1> HIDE DEF n
<1>2. SumOf(words) = loop[n]
  BY Zenon DEF SumOf, n
<1>3. StaysIn(Nat, step)
  <2> SUFFICES ASSUME NEW i \in Nat, NEW x \in Nat
               PROVE  (IF i \in 1 .. n THEN Add(x, i) ELSE x) \in Nat
    BY Zenon DEF StaysIn
  <2> QED
    BY <1>1
<1> HIDE DEF Add
<1>4. PICK f : Loop(f, Nat, 0, step, n)
  <2> HIDE DEF step
  <2>1. 0 \in Nat
    OBVIOUS
  <2> QED
    BY <1>1, <1>3, <2>1, LoopStates, Zenon
<1> USE DEF Loop
<1>5. \A i \in 1 .. n : f[i] = Add(f[i - 1], i)
  <2> SUFFICES ASSUME NEW i \in 1 .. n
               PROVE  f[i] = Add(f[i - 1], i)
    OBVIOUS
  <2>1. i \in Nat /\ i - 1 \in 0 .. n
    BY <1>1
  <2>2. f[i - 1] \in Nat /\ f[i] = step[i][f[i - 1]]
    BY <1>4, <2>1, Zenon
  <2> QED
    BY <2>1, <2>2
<1>6. f = [i \in 0 .. n |-> IF i = 0 THEN 0 ELSE Add(f[i - 1], i)]
  <2>1. \A i \in 0 .. n : f[i] = IF i = 0 THEN 0 ELSE Add(f[i - 1], i)
    <3>1. \A i \in 0 .. n : i # 0 => i \in 1 .. n
      BY <1>1
    <3> QED
      BY <1>4, <1>5, <3>1, Zenon
  <2> QED
    BY <1>4, <2>1, Zenon
<1>7. loop = [i \in 0 .. n |-> IF i = 0 THEN 0 ELSE Add(loop[i - 1], i)]
  BY <1>6, Zenon
<1> HIDE DEF loop
<1>8. \A i \in 0 .. n : loop[i] = f[i]
  <2>1. loop[0] = f[0]
    BY <1>1, <1>4, <1>7
  <2>2. ASSUME NEW i \in 1 .. n, loop[i - 1] = f[i - 1]
        PROVE  loop[i] = f[i]
    <3>1. i \in 0 .. n /\ i # 0
      BY <1>1
    <3>2. loop[i] = IF i = 0 THEN 0 ELSE Add(loop[i - 1], i)
      BY <1>7, <3>1, Zenon
    <3> QED
      BY <1>5, <2>2, <3>1, <3>2, Zenon
  <2> QED
    BY <1>1, <2>1, <2>2, LoopsAgree, Zenon DEF GoAlike
<1>9. loop[n] = f[n]
  <2>1. n \in 0 .. n
    BY <1>1
  <2> QED
    BY <1>8, <2>1, Zenon
<1>10. Adds(f, words)
  BY <1>4, <1>5, Zenon DEF Adds, Add, n
<1> QED
  BY <1>2, <1>9, <1>10, Zenon DEF n

(* The sum of n words is at most n times the largest one.                  *)
LEMMA SumBound ==
  ASSUME NEW words \in Seq(Nat), NEW m \in Nat,
         \A i \in 1 .. Len(words) : words[i] <= m
  PROVE  SumOf(words) \in Nat /\ SumOf(words) <= Len(words) * m
<1> DEFINE n == Len(words)
<1>0. n \in Nat /\ \A i \in 1 .. n : words[i] \in Nat
  BY LenProperties, ElementOfSeq
<1>1. PICK f : Adds(f, words) /\ SumOf(words) = f[n]
  BY SumForm
<1> DEFINE Bad == {i \in 0 .. n : ~(f[i] <= i * m)}
<1>2. /\ f[0] = 0 /\ \A i \in 0 .. n : f[i] \in Nat
      /\ \A i \in 1 .. n : f[i] = f[i - 1] + words[i] /\ words[i] <= m
  BY <1>1, Zenon DEF Adds
<1> HIDE DEF n
<1>3. Bad = {}
  <2>1. SUFFICES ASSUME Bad # {} PROVE FALSE
    OBVIOUS
  <2>2. PICK i \in Bad : \A j \in Bad : i <= j
    <3>1. Bad \in SUBSET Nat
      BY <1>0
    <3> QED
      BY <2>1, <3>1, LeastNumber, Zenon
  <2>3. i \in 0 .. n /\ ~(f[i] <= i * m)
    BY <2>2, Zenon
  <2>4. i # 0
    <3>1. 0 <= 0 * m
      OBVIOUS
    <3> QED
      BY <1>2, <2>3, <3>1, Zenon
  <2> DEFINE j == i - 1
  <2>5. i \in 1 .. n /\ j \in 0 .. n /\ ~(i <= j)
    BY <1>0, <2>3, <2>4
  <2>6. i * m = j * m + m /\ j * m \in Nat
    BY <2>5
  <2>7. f[i] = f[j] + words[i] /\ words[i] <= m
    BY <1>2, <2>5, Zenon
  <2> HIDE DEF j
  <2>8. f[j] <= j * m
    BY <2>2, <2>5, Zenon
  <2>9. f[i] \in Nat /\ f[j] \in Nat /\ words[i] \in Nat /\ i * m \in Nat
    BY <1>0, <1>2, <2>5
  <2> DEFINE p == j * m
             q == i * m
             x == f[j]
             y == words[i]
  <2>10. f[i] <= q
    <3> HIDE DEF p, q, x, y
    <3>1. f[i] = x + y /\ y <= m /\ x <= p /\ q = p + m
      BY <2>6, <2>7, <2>8, Zenon DEF p, q, x, y
    <3>2. p \in Nat /\ q \in Nat /\ x \in Nat /\ y \in Nat
      BY <2>6, <2>9, Zenon DEF p, q, x, y
    <3> QED
      BY <3>1, <3>2
  <2> QED
    BY <2>3, <2>10, Zenon
<1>4. f[n] <= n * m /\ f[n] \in Nat
  <2>1. n \in 0 .. n
    BY <1>0
  <2> QED
    BY <1>2, <1>3, <2>1, Zenon
<1> QED
  BY <1>1, <1>4, Zenon DEF n

(* A word that was 0 adds to the sum what it becomes.                      *)
LEMMA SumChanged ==
  ASSUME NEW words \in Seq(Nat), NEW other \in Seq(Nat), Len(other) = Len(words),
         NEW k \in 1 .. Len(words), words[k] = 0, NEW c \in Nat, other[k] = c,
         \A i \in 1 .. Len(words) : i # k => other[i] = words[i]
  PROVE  SumOf(other) = SumOf(words) + c
<1> DEFINE n == Len(words)
<1>0. n \in Nat /\ \A i \in 1 .. n : words[i] \in Nat
  BY LenProperties, ElementOfSeq, ZenonT(60)
<1>1. PICK f : Adds(f, words) /\ SumOf(words) = f[n]
  BY SumForm
<1>2. PICK g : Adds(g, other) /\ SumOf(other) = g[n]
  BY SumForm
<1> DEFINE t == [i \in 0 .. n |-> IF i < k THEN f[i] ELSE f[i] + c]
<1>3. /\ f[0] = 0 /\ \A i \in 0 .. n : f[i] \in Nat
      /\ \A i \in 1 .. n : f[i] = f[i - 1] + words[i]
  BY <1>1, Zenon DEF Adds
<1>4. g[0] = 0 /\ \A i \in 1 .. n : g[i] = g[i - 1] + other[i]
  BY <1>2, Zenon DEF Adds
<1>5. /\ k \in 1 .. n /\ words[k] = 0 /\ other[k] = c
      /\ \A i \in 1 .. n : i # k => other[i] = words[i]
  OBVIOUS
<1> HIDE DEF n
<1>6. t[0] = g[0]
  BY <1>0, <1>3, <1>4, <1>5, SMTT(60)
<1>7. ASSUME NEW i \in 1 .. n, t[i - 1] = g[i - 1]
      PROVE  t[i] = g[i]
  <2> DEFINE j == i - 1
  <2>1. j \in 0 .. n /\ i \in 0 .. n
    BY <1>0
  <2>2. /\ f[i] = f[j] + words[i] /\ g[i] = g[j] + other[i]
        /\ t[j] = g[j] /\ f[j] \in Nat /\ f[i] \in Nat /\ words[i] \in Nat
    BY <1>0, <1>3, <1>4, <1>7, <2>1, Zenon
  <2>3. /\ t[i] = IF i < k THEN f[i] ELSE f[i] + c
        /\ t[j] = IF j < k THEN f[j] ELSE f[j] + c
    BY <2>1, Zenon
  <2> HIDE DEF t
  <2>4. CASE i < k
    <3>1. j < k /\ i # k
      BY <1>5, <2>4
    <3> QED
      BY <1>5, <2>2, <2>3, <2>4, <3>1, Zenon
  <2>5. CASE i = k
    <3>1. j < k /\ ~(i < k)
      BY <1>5, <2>5
    <3>2. words[i] = 0 /\ other[i] = c
      BY <1>5, <2>5, Zenon
    <3>3. f[i] = f[j]
      BY <2>2, <3>2, SMTT(60)
    <3> QED
      BY <2>2, <2>3, <3>1, <3>2, <3>3, Zenon
  <2>6. CASE i > k
    <3>1. ~(j < k) /\ ~(i < k) /\ i # k
      BY <1>5, <2>6
    <3>2. other[i] = words[i]
      BY <1>5, <3>1, Zenon
    <3> DEFINE x == f[j]
               y == words[i]
    <3>3. t[i] = (x + y) + c /\ g[i] = (x + c) + y
      BY <2>2, <2>3, <3>1, <3>2, Zenon
    <3>4. x \in Nat /\ y \in Nat
      BY <2>2, Zenon
    <3> HIDE DEF x, y
    <3> QED
      BY <3>3, <3>4
  <2> QED
    BY <1>0, <1>5, <2>4, <2>5, <2>6
<1>8. \A i \in 0 .. n : t[i] = g[i]
  <2> HIDE DEF t, n
  <2>1. GoAlike(t, g, n)
    BY <1>7, Zenon DEF GoAlike
  <2>2. n \in Nat
    BY <1>0
  <2> QED
    BY <1>6, <2>1, <2>2, LoopsAgree, ZenonT(60)
<1>9. t[n] = f[n] + c /\ t[n] = g[n]
  <2>1. n \in 0 .. n /\ ~(n < k)
    BY <1>0, <1>5
  <2>2. t[n] = IF n < k THEN f[n] ELSE f[n] + c
    BY <2>1, Zenon
  <2> QED
    BY <1>8, <2>1, <2>2, Zenon
<1> QED
  BY <1>1, <1>2, <1>9, Zenon

-----------------------------------------------------------------------------
(* The words of a packet.                                                  *)

Word(bytes, i) ==
  bytes[2 * i - 1] + (IF 2 * i <= Len(bytes) THEN bytes[2 * i] ELSE 0) * ByteMod

(* The words of a packet, of which an odd byte is one.                     *)
LEMMA WordsAre ==
  ASSUME NEW bytes \in Seq(Nat)
  PROVE  /\ Words(bytes) \in Seq(Nat) /\ Len(Words(bytes)) = (Len(bytes) + 1) \div 2
         /\ \A i \in 1 .. (Len(bytes) + 1) \div 2 : Words(bytes)[i] = Word(bytes, i)
<1> DEFINE n == Len(bytes)
           m == (n + 1) \div 2
           words == Words(bytes)
<1>1. n \in Nat /\ \A j \in 1 .. n : bytes[j] \in Nat
  BY LenProperties, ElementOfSeq
<1>2. words = [i \in 1 .. m |-> Word(bytes, i)]
  BY Zenon DEF Words, Word
<1> HIDE DEF words
<1>3. ASSUME NEW i \in 1 .. m PROVE Word(bytes, i) \in Nat
  <2> DEFINE x == bytes[2 * i - 1]
             y == IF 2 * i <= n THEN bytes[2 * i] ELSE 0
  <2>1. 2 * i - 1 \in 1 .. n /\ (2 * i <= n => 2 * i \in 1 .. n)
    <3> HIDE DEF n
    <3> QED
      BY <1>1
  <2>2. x \in Nat /\ y \in Nat
    <3> HIDE DEF n
    <3> QED
      BY <1>1, <2>1
  <2>3. Word(bytes, i) = x + y * ByteMod
    BY Zenon DEF Word
  <2> HIDE DEF x, y
  <2>4. x + y * ByteMod \in Nat
    BY <2>2, HelpersAssumption
  <2> QED
    BY <2>3, <2>4, Zenon
<1>4. m \in Nat
  <2> HIDE DEF n
  <2> QED
    BY <1>1
<1> HIDE DEF m
<1>5. words \in [1 .. m -> Nat]
  BY <1>2, <1>3
<1>6. words \in Seq(Nat)
  <2>1. Seq(Nat) = UNION {[1 .. k -> Nat] : k \in Nat}
    BY SeqDef, Zenon
  <2> QED
    BY <1>4, <1>5, <2>1
<1>7. Len(words) = m
  <2>1. DOMAIN words = 1 .. m
    BY <1>5
  <2>2. Len(words) \in Nat /\ DOMAIN words = 1 .. Len(words)
    BY <1>6, LenProperties
  <2> QED
    BY <1>4, <2>1, <2>2
<1>8. \A i \in 1 .. m : words[i] = Word(bytes, i)
  BY <1>2, Zenon
<1> QED
  BY <1>6, <1>7, <1>8, Zenon DEF words, m

(* A word of two bytes is below 2^16.                                      *)
LEMMA WordBound ==
  ASSUME NEW x \in 0 .. ByteMod - 1, NEW y \in 0 .. ByteMod - 1
  PROVE  x + y * ByteMod \in Nat /\ x + y * ByteMod <= WordMod - 1
<1> DEFINE b == ByteMod - 1
           p == y * ByteMod
<1>1. ByteMod \in Nat /\ b \in Nat
  BY HelpersAssumption
<1>2. p \in Nat /\ p <= b * ByteMod
  BY <1>1
<1>3. b * ByteMod = WordMod - ByteMod /\ WordMod \in Nat
  BY <1>1 DEF WordMod
<1> HIDE DEF p
<1>4. x + p \in Nat /\ x + p <= WordMod - 1
  BY <1>1, <1>2, <1>3
<1> QED
  BY <1>4 DEF p

(* The words of a packet of bytes are below 2^16.                          *)
LEMMA WordsBound ==
  ASSUME NEW bytes \in Seq(0 .. ByteMod - 1)
  PROVE  \A i \in 1 .. (Len(bytes) + 1) \div 2 : Word(bytes, i) <= WordMod - 1
<1> DEFINE n == Len(bytes)
           m == (n + 1) \div 2
<1>1. n \in Nat /\ \A j \in 1 .. n : bytes[j] \in 0 .. ByteMod - 1
  BY LenProperties, ElementOfSeq, Zenon
<1>2. ASSUME NEW i \in 1 .. m PROVE Word(bytes, i) <= WordMod - 1
  <2> DEFINE x == bytes[2 * i - 1]
             y == IF 2 * i <= n THEN bytes[2 * i] ELSE 0
  <2>1. 2 * i - 1 \in 1 .. n /\ (2 * i <= n => 2 * i \in 1 .. n)
    <3> HIDE DEF n
    <3> QED
      BY <1>1
  <2>2. x \in 0 .. ByteMod - 1 /\ y \in 0 .. ByteMod - 1
    <3> HIDE DEF n
    <3>1. 0 \in 0 .. ByteMod - 1
      BY HelpersAssumption
    <3> QED
      BY <1>1, <2>1, <3>1, Zenon
  <2>3. Word(bytes, i) = x + y * ByteMod
    BY Zenon DEF Word
  <2> HIDE DEF x, y
  <2> QED
    BY <2>2, <2>3, WordBound
<1> QED
  BY <1>2

(* The checksum is what the folded sum of the words lacks to all ones.     *)
LEMMA CksumIs ==
  ASSUME NEW bytes
  PROVE  InCksum(bytes) = (WordMod - 1) - Folded(SumOf(Words(bytes)), WordMod)
  BY Zenon DEF InCksum, FoldCarries, Folded, Once

(* There are at least four words.                                          *)
LEMMA WordModIs == WordMod \in Nat \ {0, 1} /\ ByteMod \in Nat \ {0} /\ WordMod >= 4
<1>1. ByteMod \in Nat /\ ByteMod >= 2
  BY HelpersAssumption
<1>2. ByteMod * ByteMod >= 2 * ByteMod
  BY <1>1
<1> QED
  BY <1>1, <1>2 DEF WordMod

(* A packet with its checksum: only the second word is another one.        *)
LEMMA WordsWithCksum ==
  ASSUME NEW bytes \in Seq(Nat), Len(bytes) >= 4, NEW c \in Nat, InCksum(bytes) = c
  PROVE  /\ WithCksum(bytes) \in Seq(Nat) /\ Len(WithCksum(bytes)) = Len(bytes)
         /\ Word(WithCksum(bytes), 2) = c
         /\ \A i \in 1 .. (Len(bytes) + 1) \div 2 :
              i # 2 => Word(WithCksum(bytes), i) = Word(bytes, i)
<1> DEFINE n == Len(bytes)
           x == c % ByteMod
           y == c \div ByteMod
           b == [bytes EXCEPT ![3] = x]
           o == WithCksum(bytes)
<1>1. n \in Nat /\ n >= 4
  BY LenProperties
<1>2. x \in Nat /\ y \in Nat /\ c = y * ByteMod + x
  <2>1. ByteMod \in Nat \ {0}
    BY WordModIs
  <2>2. y \in Nat /\ x \in 0 .. ByteMod - 1 /\ c = y * ByteMod + x
    BY <2>1, Splits, Zenon
  <2> HIDE DEF x, y
  <2> QED
    BY <2>1, <2>2
<1>3. o = [b EXCEPT ![4] = y]
  BY DEF WithCksum
<1> HIDE DEF x, y, o
<1>4. 3 \in 1 .. n /\ 4 \in 1 .. n
  BY <1>1
<1>5. /\ b \in Seq(Nat) /\ Len(b) = n
      /\ \A j \in 1 .. n : b[j] = IF j = 3 THEN x ELSE bytes[j]
  BY <1>2, <1>4, ExceptSeq, SMTT(60)
<1> HIDE DEF b
<1>6. /\ o \in Seq(Nat) /\ Len(o) = n
      /\ \A j \in 1 .. n : o[j] = IF j = 4 THEN y ELSE b[j]
  BY <1>2, <1>3, <1>4, <1>5, ExceptSeq, SMTT(60)
<1>7. Word(o, 2) = c
  <2>1. 2 * 2 - 1 = 3 /\ 2 * 2 = 4 /\ 4 <= n
    BY <1>1
  <2>2. o[3] = x /\ o[4] = y
    <3>1. 3 # 4
      OBVIOUS
    <3> QED
      BY <1>4, <1>5, <1>6, <3>1, Zenon
  <2>3. Word(o, 2) = o[3] + (IF 4 <= n THEN o[4] ELSE 0) * ByteMod
    BY <1>6, <2>1 DEF Word
  <2>4. Word(o, 2) = x + y * ByteMod
    BY <2>1, <2>2, <2>3, Zenon
  <2>5. y * ByteMod \in Nat
    BY <1>2, HelpersAssumption
  <2> QED
    BY <1>2, <2>4, <2>5
<1>8. ASSUME NEW i \in 1 .. (n + 1) \div 2, i # 2
      PROVE  Word(o, i) = Word(bytes, i)
  <2> DEFINE p == 2 * i - 1
             q == 2 * i
  <2>1. p \in 1 .. n /\ p # 3 /\ p # 4 /\ (q <= n => q \in 1 .. n) /\ q # 3 /\ q # 4
    <3> HIDE DEF n
    <3> QED
      BY <1>1, <1>8
  <2> HIDE DEF p, q
  <2>2. o[p] = bytes[p] /\ (q <= n => o[q] = bytes[q])
    BY <1>5, <1>6, <2>1, Zenon
  <2>3. Word(o, i) = o[p] + (IF q <= n THEN o[q] ELSE 0) * ByteMod
    BY <1>6, Zenon DEF Word, p, q
  <2>4. Word(bytes, i) = bytes[p] + (IF q <= n THEN bytes[q] ELSE 0) * ByteMod
    BY Zenon DEF Word, p, q
  <2> DEFINE u == IF q <= n THEN o[q] ELSE 0
             v == IF q <= n THEN bytes[q] ELSE 0
  <2>5. u = v
    BY <2>2, Zenon
  <2>6. Word(o, i) = o[p] + u * ByteMod /\ Word(bytes, i) = bytes[p] + v * ByteMod
    BY <2>3, <2>4, Zenon
  <2> HIDE DEF u, v
  <2> QED
    BY <2>2, <2>5, <2>6, Zenon
<1> QED
  BY <1>6, <1>7, <1>8 DEF o

(* in_cksum() of a packet with its checksum in it is 0, for every packet   *)
(* of up to 2^16 words: two foldings are enough for their carries.         *)
LEMMA CksumVerifies ==
  ASSUME NEW bytes \in Seq(0 .. ByteMod - 1), Len(bytes) >= 4, Len(bytes) <= 2 * WordMod,
         bytes[3] = 0, bytes[4] = 0
  PROVE  InCksum(WithCksum(bytes)) = 0
<1> DEFINE n == Len(bytes)
           m == (n + 1) \div 2
           words == Words(bytes)
           w == WordMod
           s == SumOf(words)
           c == InCksum(bytes)
           o == WithCksum(bytes)
           other == Words(o)
<1>1. w \in Nat \ {0, 1} /\ bytes \in Seq(Nat) /\ n \in Nat
  <2>1. Seq(0 .. ByteMod - 1) \subseteq Seq(Nat)
    BY SeqMonotonic, HelpersAssumption
  <2> QED
    BY <2>1, WordModIs, LenProperties
<1>2. /\ words \in Seq(Nat) /\ Len(words) = m
      /\ \A i \in 1 .. m : words[i] = Word(bytes, i)
  BY <1>1, WordsAre, Zenon
<1>3. \A i \in 1 .. m : words[i] <= w - 1
  BY <1>2, WordsBound, Zenon
<1>4. m \in Nat /\ m <= w /\ m >= 2
  <2>1. n >= 4 /\ n <= 2 * w
    OBVIOUS
  <2> HIDE DEF n, w
  <2> QED
    BY <1>1, <2>1
<1> HIDE DEF m, words, w
<1>5. s \in Nat /\ s < w * w
  <2> DEFINE k == w - 1
  <2>1. k \in Nat
    BY <1>1
  <2> HIDE DEF k
  <2>2. s \in Nat /\ s <= m * k
    <3>1. \A i \in 1 .. Len(words) : words[i] <= k
      BY <1>2, <1>3, Zenon DEF k
    <3> QED
      BY <1>2, <2>1, <3>1, SumBound, Zenon
  <2>3. m * k <= w * k
    BY <1>1, <1>4, <2>1
  <2>4. w * k = w * w - w /\ w * w \in Nat /\ m * k \in Nat /\ w * k \in Nat
    BY <1>1, <1>4 DEF k
  <2> HIDE DEF s
  <2> QED
    BY <1>1, <2>2, <2>3, <2>4
<1> HIDE DEF s
<1>6. c = (w - 1) - Folded(s, w)
  BY CksumIs, Zenon DEF s, w, words
<1>7. Folded(s, w) \in 0 .. w - 1 /\ Folded(s + ((w - 1) - Folded(s, w)), w) = w - 1
  BY <1>1, <1>5, FoldedVerifies, Zenon
<1>8. c \in Nat /\ Folded(s + c, w) = w - 1
  BY <1>1, <1>6, <1>7, SMTT(60)
<1> HIDE DEF c
<1>9. /\ o \in Seq(Nat) /\ Len(o) = n /\ Word(o, 2) = c
      /\ \A i \in 1 .. m : i # 2 => Word(o, i) = Word(bytes, i)
  BY <1>1, <1>8, WordsWithCksum, Zenon DEF c, m
<1> HIDE DEF o
<1>10. /\ other \in Seq(Nat) /\ Len(other) = m
       /\ \A i \in 1 .. m : other[i] = Word(o, i)
  <2>1. (Len(o) + 1) \div 2 = m
    BY <1>9, Zenon DEF m
  <2> QED
    BY <1>9, <2>1, WordsAre, Zenon
<1> HIDE DEF other
<1>11. words[2] = 0
  <2>1. 2 \in 1 .. m
    BY <1>4
  <2>2. 2 * 2 - 1 = 3 /\ 2 * 2 = 4 /\ 0 + 0 * ByteMod = 0
    BY HelpersAssumption
  <2>3. Word(bytes, 2) = 0 + (IF 4 <= n THEN 0 ELSE 0) * ByteMod
    BY <2>2, Zenon DEF Word
  <2> QED
    BY <1>2, <2>1, <2>2, <2>3, Zenon
<1>12. SumOf(other) = s + c
  <2>1. 2 \in 1 .. m
    BY <1>4
  <2>2. other[2] = c /\ \A i \in 1 .. m : i # 2 => other[i] = words[i]
    BY <1>2, <1>9, <1>10, <2>1, Zenon
  <2>3. /\ Len(other) = Len(words) /\ 2 \in 1 .. Len(words)
        /\ \A i \in 1 .. Len(words) : i # 2 => other[i] = words[i]
    BY <1>2, <1>10, <2>1, <2>2, Zenon
  <2>4. words \in Seq(Nat) /\ other \in Seq(Nat)
    BY <1>2, <1>10, Zenon
  <2> QED
    BY <1>8, <1>11, <2>2, <2>3, <2>4, SumChanged, Zenon DEF s
<1>13. InCksum(o) = (w - 1) - Folded(s + c, w)
  BY <1>12, CksumIs, Zenon DEF w, other
<1>14. InCksum(o) = (w - 1) - (w - 1)
  BY <1>8, <1>13, Zenon
<1> QED
  BY <1>1, <1>14 DEF o

(* The packets of PacketsVerify are such packets.                          *)
LEMMA BlanksVerify == PacketsVerify
<1> SUFFICES ASSUME NEW b \in Blanks PROVE InCksum(WithCksum(b)) = 0
  BY Zenon DEF PacketsVerify
<1> DEFINE S == 0 .. ByteMod - 1
<1>1. PICK n \in 4 .. 7 : b \in [1 .. n -> S]
  BY Zenon DEF Blanks
<1>2. b[3] = 0 /\ b[4] = 0
  BY Zenon DEF Blanks
<1> HIDE DEF S
<1>3. b \in Seq(S)
  <2>1. Seq(S) = UNION {[1 .. k -> S] : k \in Nat}
    BY SeqDef, Zenon
  <2>2. n \in Nat
    BY <1>1
  <2> QED
    BY <1>1, <2>1, <2>2
<1>4. Len(b) = n
  <2>1. DOMAIN b = 1 .. n
    BY <1>1
  <2>2. Len(b) \in Nat /\ DOMAIN b = 1 .. Len(b)
    BY <1>3, LenProperties
  <2> QED
    BY <1>1, <2>1, <2>2
<1>5. Len(b) >= 4 /\ Len(b) <= 2 * WordMod
  <2>1. WordMod \in Nat /\ WordMod >= 4
    BY WordModIs
  <2> QED
    BY <1>1, <1>4, <2>1
<1> QED
  BY <1>2, <1>3, <1>5, CksumVerifies, Zenon DEF S
=============================================================================
