------------------------------ MODULE Helpers ------------------------------
(* The functions without state that the checks use: the checksum of an     *)
(* ICMP packet and the difference of two times.                            *)
EXTENDS Integers, Sequences

CONSTANT ByteMod      \* 2^8, the values of a u_char

ASSUME HelpersAssumption == ByteMod \in Nat \ {0, 1}

WordMod == ByteMod * ByteMod   \* 2^16, those of an u_short

(* The 16 bit words of a packet, low byte first; a byte that is left over  *)
(* is a word of its own.                                                   *)
Words(bytes) ==
  [i \in 1 .. (Len(bytes) + 1) \div 2 |->
     bytes[2 * i - 1] + (IF 2 * i <= Len(bytes) THEN bytes[2 * i] ELSE 0) * ByteMod]

(* The sum of the words, added up one after the other.                     *)
SumOf(words) ==
  LET sum[i \in 0 .. Len(words)] == IF i = 0 THEN 0 ELSE sum[i - 1] + words[i]
  IN  sum[Len(words)]

(* Mutant: the carry of the first folding is lost.                         *)
FoldCarries_Once(sum) == (sum \div WordMod) + (sum % WordMod)

(* The carries come back in at the low end, and so does theirs.            *)
FoldCarries(sum) ==
  LET once == (sum \div WordMod) + (sum % WordMod)
  IN  once + once \div WordMod

InCksum(bytes) ==
  (WordMod - 1) - (FoldCarries(SumOf(Words(bytes))) % WordMod)

(* Mutant: nanoseconds are not borrowed from the seconds, and a division   *)
(* of C rounds towards 0.                                                  *)
TimespecDiffMs_NoBorrow(a, b) ==
  (a.tv_sec - b.tv_sec) * 1000
    + (IF a.tv_nsec < b.tv_nsec THEN -((b.tv_nsec - a.tv_nsec) \div 1000000)
       ELSE (a.tv_nsec - b.tv_nsec) \div 1000000)

TimespecDiffMs(a, b) ==
  LET nsec == a.tv_nsec - b.tv_nsec
      sec == a.tv_sec - b.tv_sec
  IN  IF nsec < 0
      THEN (sec - 1) * 1000 + (nsec + 1000000000) \div 1000000
      ELSE sec * 1000 + nsec \div 1000000
-----------------------------------------------------------------------------
(* Packets of up to seven bytes whose second word is left for the checksum.*)
Blanks == {b \in UNION {[1 .. n -> 0 .. ByteMod - 1] : n \in 4 .. 7} : b[3] = 0 /\ b[4] = 0}

WithCksum(bytes) ==
  [bytes EXCEPT ![3] = InCksum(bytes) % ByteMod, ![4] = InCksum(bytes) \div ByteMod]

(* The receiver of a packet finds it whole: the checksum of one with its   *)
(* own checksum in it is 0, with an odd last byte and any carries too.     *)
PacketsVerify == \A b \in Blanks : InCksum(WithCksum(b)) = 0

Stamps == [tv_sec : {0, 1}, tv_nsec : {0, 1, 999999, 1000000, 999999999}]

(* A check is neither due nor timed out too early: timespec_diff_ms()      *)
(* rounds the difference down, also over the end of a second and when the  *)
(* second time is the later one.                                           *)
DiffIsFloor(a, b) ==
  LET ns == (a.tv_sec - b.tv_sec) * 1000000000 + (a.tv_nsec - b.tv_nsec)
  IN  /\ TimespecDiffMs(a, b) * 1000000 <= ns
      /\ ns < (TimespecDiffMs(a, b) + 1) * 1000000

StampsFloor == \A a, b \in Stamps : DiffIsFloor(a, b)
=============================================================================
