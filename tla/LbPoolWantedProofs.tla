------------------------- MODULE LbPoolWantedProofs -------------------------
(***************************************************************************)
(* Proofs about the nodes that pool_logic() wants: how many the loops take *)
(* and which, for all numbers of nodes and all configurations of pools.    *)
(***************************************************************************)
EXTENDS LbPoolProofs, FiniteSetTheorems, WellFoundedInduction

-----------------------------------------------------------------------------
(* How many nodes the loops of pool_logic() take.                          *)

(* A set of nodes that is not empty has a first one.                       *)
LEMMA FirstNode ==
  ASSUME NEW S \in SUBSET Nat, S # {}
  PROVE  \E x \in S : \A y \in S : x <= y
<1>1. PICK x \in S : \A y \in S : ~(<<y, x>> \in OpToRel(<, Nat))
  BY NatLessThanWellFounded, WFMin
<1>2. \A y \in S : ~(y < x)
  BY <1>1, Zenon DEF OpToRel
<1> QED
  BY <1>2

(* A loop that runs over S in node order and stops when it has taken k     *)
(* nodes has taken k or, if there are fewer, all of them.                  *)
LEMMA TakeFirstAll ==
  ASSUME NEW S, IsFiniteSet(S), NEW k \in Nat, Cardinality(S) <= k, S \subseteq Nat
  PROVE  TakeFirst(S, k) = S
<1>1. ASSUME NEW n \in S
      PROVE  Cardinality({m \in S : m < n}) < k
  <2> DEFINE T == {m \in S : m < n}
  <2>1. T \in SUBSET S /\ n \notin T
    BY <1>1
  <2> HIDE DEF T
  <2>2. /\ Cardinality(T) <= Cardinality(S) /\ Cardinality(S) # Cardinality(T)
        /\ Cardinality(S) \in Nat /\ Cardinality(T) \in Nat
    BY <1>1, <2>1, FS_Subset, FS_CardinalityType, Zenon
  <2> QED
    BY <2>2 DEF T
<1> QED
  BY <1>1, Zenon DEF TakeFirst

LEMMA TakeFirstStep ==
  ASSUME NEW S, IsFiniteSet(S), S \subseteq Nat, NEW k \in Nat,
         k < Cardinality(S), Cardinality(TakeFirst(S, k)) = k
  PROVE  Cardinality(TakeFirst(S, k + 1)) = k + 1
<1> DEFINE Below(n) == {m \in S : m < n}
           T == TakeFirst(S, k)
<1>0. \A n \in S : n \in Int
  OBVIOUS
<1>1. T \in SUBSET S /\ IsFiniteSet(T)
  BY FS_Subset, Zenon DEF TakeFirst
<1>2. S \ T # {}
  BY <1>1
<1>3. PICK x \in S \ T : \A y \in S \ T : x <= y
  BY <1>2, FirstNode, Zenon
<1>4. \A n : IsFiniteSet(Below(n)) /\ Cardinality(Below(n)) \in Nat
  BY FS_Subset, FS_CardinalityType
<1>5. \A n \in S : n \in T <=> Cardinality(Below(n)) < k
  BY DEF TakeFirst
<1>6. \A m, n \in S : m <= n => Cardinality(Below(m)) <= Cardinality(Below(n))
  <2> SUFFICES ASSUME NEW m \in S, NEW n \in S, m <= n
               PROVE  Cardinality(Below(m)) <= Cardinality(Below(n))
    OBVIOUS
  <2>1. ASSUME NEW i \in S, i < m
        PROVE  i < n
    BY <1>0, <2>1
  <2>2. Below(m) \in SUBSET Below(n)
    BY <2>1, Zenon
  <2> QED
    BY <1>4, <2>2, FS_Subset
<1>7. Below(x) = T
  <2>1. \A m \in S : m < x => m \in T
    BY <1>3
  <2>2. \A m \in T : m < x
    <3> SUFFICES ASSUME NEW m \in T, ~(m < x) PROVE FALSE
      OBVIOUS
    <3>1. m \in S /\ x <= m
      <4>1. m \in S /\ x \in S
        BY <1>1, <1>3
      <4> QED
        BY <1>0, <4>1
    <3>2. Cardinality(Below(x)) <= Cardinality(Below(m))
      BY <1>3, <1>6, <3>1
    <3> QED
      BY <1>3, <1>4, <1>5, <3>1, <3>2, SMTT(60)
  <2> QED
    BY <1>1, <2>1, <2>2, Zenon
<1>8. ASSUME NEW n \in S
      PROVE  n \in T \cup {x} <=> Cardinality(Below(n)) < k + 1
  <2>1. CASE n \in T
    BY <1>4, <1>5, <2>1
  <2>2. CASE n = x
    BY <1>7, <2>2
  <2>3. CASE n \notin T \cup {x}
    <3>1. T \cup {x} \in SUBSET Below(n)
      <4>1. x < n
        BY <1>0, <1>3, <2>3
      <4>2. \A m \in T : m \in S /\ m < n
        <5> SUFFICES ASSUME NEW m \in T
                     PROVE  m \in S /\ m < n
          OBVIOUS
        <5>1. m \in S /\ m < x
          BY <1>7
        <5> QED
          BY <1>0, <1>3, <4>1, <5>1
      <4> QED
        BY <1>3, <4>1, <4>2
    <3>2. Cardinality(T \cup {x}) = k + 1
      <4> HIDE DEF T
      <4>1. x \notin T /\ Cardinality(T) = k
        BY <1>3 DEF T
      <4> QED
        BY <1>1, <4>1, FS_AddElement, Zenon
    <3>3. k + 1 <= Cardinality(Below(n))
      BY <1>4, <3>1, <3>2, FS_Subset, SMTT(60)
    <3> QED
      BY <1>4, <2>3, <3>3
  <2> QED
    BY <2>1, <2>2, <2>3
<1>9. TakeFirst(S, k + 1) = T \cup {x}
  BY <1>1, <1>3, <1>8, Zenon DEF TakeFirst
<1> HIDE DEF T
<1> QED
  BY <1>1, <1>3, <1>9, FS_AddElement DEF T

LEMMA TakeFirstCount ==
  ASSUME NEW S, IsFiniteSet(S), S \subseteq Nat, NEW k \in Nat
  PROVE  Cardinality(TakeFirst(S, k)) = Smaller(k, Cardinality(S))
<1> DEFINE Wrong == {j \in Nat : j <= Cardinality(S) /\ Cardinality(TakeFirst(S, j)) # j}
<1>1. Cardinality(S) \in Nat
  BY FS_CardinalityType
<1>2. Wrong = {}
  <2> SUFFICES ASSUME Wrong # {} PROVE FALSE
    OBVIOUS
  <2>1. PICK j \in Wrong : \A i \in Wrong : j <= i
    BY FirstNode, Zenon
  <2>2. j # 0
    <3>1. TakeFirst(S, 0) = {}
      <4> SUFFICES ASSUME NEW n \in TakeFirst(S, 0)
                   PROVE  FALSE
        OBVIOUS
      <4> DEFINE below == {m \in S : m < n}
      <4>1. Cardinality(below) < 0
        BY DEF TakeFirst
      <4>2. below \in SUBSET S
        OBVIOUS
      <4> HIDE DEF below
      <4>3. Cardinality(below) \in Nat
        BY <4>2, FS_Subset, FS_CardinalityType, Zenon
      <4> QED
        BY <4>1, <4>3
    <3> QED
      BY <3>1, FS_EmptySet
  <2>3. j - 1 \in Nat /\ j - 1 < Cardinality(S) /\ Cardinality(TakeFirst(S, j - 1)) = j - 1
    BY <1>1, <2>1, <2>2
  <2>4. Cardinality(TakeFirst(S, j - 1 + 1)) = j - 1 + 1
    BY <2>3, TakeFirstStep, Zenon
  <2>5. j - 1 + 1 = j
    BY <2>1
  <2> QED
    BY <2>1, <2>4, <2>5
<1>3. CASE k <= Cardinality(S)
  BY <1>1, <1>2, <1>3 DEF Smaller
<1>4. CASE ~(k <= Cardinality(S))
  <2>1. Cardinality(S) <= k
    BY <1>1, <1>4
  <2>2. TakeFirst(S, k) = S
    BY <2>1, TakeFirstAll, Zenon
  <2> QED
    BY <1>1, <1>4, <2>2 DEF Smaller
<1> QED
  BY <1>3, <1>4

(* max_nodes is never below min_nodes, whatever is configured.             *)
LEMMA PoolNumbers ==
  ASSUME NEW p \in Pools
  PROVE  /\ IsFiniteSet(nodes(p)) /\ nodes(p) \subseteq Nodes
         /\ min_nodes(p) \in Nat /\ max_nodes(p) \in Nat
         /\ max_nodes(p) = 0 \/ min_nodes(p) <= max_nodes(p)
<1>1. nodes(p) \in SUBSET Nodes
  BY DEF nodes
<1>2. IsFiniteSet(nodes(p)) /\ Cardinality(nodes(p)) \in Nat
  BY <1>1, LbPoolAssumption, FS_Subset, FS_CardinalityType, ZenonT(60)
<1>3. PoolConfig[p].min_nodes \in Nat /\ PoolConfig[p].max_nodes \in Nat
  BY LbPoolAssumption DEF PoolConfigType
<1>4. min_nodes(p) \in Nat
  BY <1>2, <1>3 DEF min_nodes
<1> QED
  BY <1>1, <1>2, <1>3, <1>4 DEF max_nodes

LEMMA NodeSets ==
  ASSUME NEW S \in SUBSET Nodes
  PROVE  IsFiniteSet(S) /\ Cardinality(S) \in Nat /\ S \subseteq Nat
BY LbPoolAssumption, FS_Subset, FS_CardinalityType, Zenon

(* Two sets without a common member.                                       *)
LEMMA DisjointUnion ==
  ASSUME NEW S \in SUBSET Nodes, NEW T \in SUBSET Nodes, S \cap T = {}
  PROVE  Cardinality(S \cup T) = Cardinality(S) + Cardinality(T)
<1>1. /\ IsFiniteSet(S) /\ IsFiniteSet(T)
      /\ Cardinality(S) \in Nat /\ Cardinality(T) \in Nat
  BY NodeSets
<1>2. Cardinality(S \cup T) = Cardinality(S) + Cardinality(T) - Cardinality({})
  BY <1>1, FS_Union
<1> QED
  BY <1>1, <1>2, FS_EmptySet

(* The first two loops of pool_logic() want as many of the up nodes as     *)
(* max_nodes allows ...                                                    *)
LEMMA AvailableCount ==
  ASSUME NEW p \in Pools, NEW up \in SUBSET Nodes, NEW kept
  PROVE  /\ max_nodes(p) = 0 => Available(p, up, kept) = up
         /\ max_nodes(p) > 0 =>
              Cardinality(Available(p, up, kept)) = Smaller(max_nodes(p), Cardinality(up))
<1>1. CASE max_nodes(p) = 0
  BY <1>1 DEF Available, PreviouslyWanted, NewlyWanted
<1>2. CASE max_nodes(p) # 0
  <2> DEFINE max == max_nodes(p)
             old == up \cap kept
             new == up \ kept
             prev == PreviouslyWanted(p, up, kept)
             next == NewlyWanted(p, up, kept)
  <2>1. max \in Nat /\ max > 0
    BY <1>2, PoolNumbers
  <2>2. prev = TakeFirst(old, max) /\ next = TakeFirst(new, max - Cardinality(prev))
    BY <1>2 DEF PreviouslyWanted, NewlyWanted
  <2>3. old \in SUBSET Nodes /\ new \in SUBSET Nodes /\ old \cap new = {} /\ old \cup new = up
    OBVIOUS
  <2>4. Available(p, up, kept) = prev \cup next
    BY DEF Available
  <2> HIDE DEF max, old, new, prev, next
  <2>5. prev \in SUBSET old /\ next \in SUBSET new
    BY <2>2 DEF TakeFirst
  <2>6. /\ Cardinality(old) \in Nat /\ Cardinality(new) \in Nat
        /\ IsFiniteSet(old) /\ IsFiniteSet(new) /\ old \subseteq Nat /\ new \subseteq Nat
    BY <2>3, NodeSets
  <2>7. Cardinality(prev) = Smaller(max, Cardinality(old))
    BY <2>1, <2>2, <2>6, TakeFirstCount, Zenon
  <2>8. max - Cardinality(prev) \in Nat
    BY <2>1, <2>6, <2>7 DEF Smaller
  <2>9. Cardinality(next) = Smaller(max - Cardinality(prev), Cardinality(new))
    BY <2>2, <2>6, <2>8, TakeFirstCount, Zenon
  <2>10. Cardinality(prev \cup next) = Cardinality(prev) + Cardinality(next)
    BY <2>3, <2>5, DisjointUnion
  <2>11. Cardinality(up) = Cardinality(old) + Cardinality(new)
    BY <2>3, DisjointUnion
  <2>12. Cardinality(prev \cup next) = Smaller(max, Cardinality(up))
    BY <2>1, <2>6, <2>7, <2>9, <2>10, <2>11, SMTT(60) DEF Smaller
  <2> QED
    BY <1>2, <2>4, <2>12 DEF max
<1> QED
  BY <1>1, <1>2, PoolNumbers

(* ... and among them all that were let in before, if they fit.            *)
LEMMA OldNodesFirst ==
  ASSUME NEW p \in Pools, NEW up \in SUBSET Nodes, NEW kept,
         max_nodes(p) > 0, Cardinality(up \cap kept) <= max_nodes(p)
  PROVE  up \cap kept \subseteq Available(p, up, kept)
<1> DEFINE old == up \cap kept
<1>1. IsFiniteSet(old) /\ old \subseteq Nat /\ max_nodes(p) \in Nat
  BY NodeSets, PoolNumbers
<1>2. Cardinality(old) <= max_nodes(p)
  OBVIOUS
<1>3. Available(p, up, kept) = TakeFirst(old, max_nodes(p)) \cup NewlyWanted(p, up, kept)
  BY <1>1 DEF Available, PreviouslyWanted
<1> HIDE DEF old
<1>4. TakeFirst(old, max_nodes(p)) = old
  BY <1>1, <1>2, TakeFirstAll, Zenon
<1> QED
  BY <1>3, <1>4 DEF old

(* min_nodes asks for more exactly when there are too few up nodes, and    *)
(* then the two loops have taken all of them.                              *)
LEMMA ShortOfNodes ==
  ASSUME NEW p \in Pools, NEW up \in SUBSET Nodes, NEW kept
  PROVE  /\ TooFew(p, Available(p, up, kept)) <=> Cardinality(up) < min_nodes(p)
         /\ Cardinality(up) < min_nodes(p) => Available(p, up, kept) = up
<1> DEFINE available == Available(p, up, kept)
<1>1. /\ min_nodes(p) \in Nat /\ max_nodes(p) \in Nat
      /\ max_nodes(p) = 0 \/ min_nodes(p) <= max_nodes(p)
  BY PoolNumbers
<1>2. /\ IsFiniteSet(up) /\ Cardinality(up) \in Nat /\ available \in SUBSET up
  BY NodeSets DEF Available, PreviouslyWanted, NewlyWanted, TakeFirst
<1>3. \/ available = up
      \/ Cardinality(available) = Smaller(max_nodes(p), Cardinality(up)) /\ max_nodes(p) > 0
  <2>1. max_nodes(p) = 0 \/ max_nodes(p) > 0
    BY <1>1
  <2> QED
    BY <2>1, AvailableCount
<1>4. Cardinality(up) = Cardinality(available) => available = up
  BY <1>2, FS_Subset
<1> HIDE DEF available
<1>5. CASE Cardinality(up) < min_nodes(p)
  <2>1. available = up
    BY <1>1, <1>2, <1>3, <1>4, <1>5, SMTT(60) DEF Smaller
  <2> QED
    BY <1>1, <1>2, <1>5, <2>1, SMTT(60) DEF TooFew, available
<1>6. CASE ~(Cardinality(up) < min_nodes(p))
  <2>1. ~(Cardinality(available) < min_nodes(p))
    BY <1>1, <1>2, <1>3, <1>6, SMTT(60) DEF Smaller
  <2> QED
    BY <1>6, <2>1 DEF TooFew, available
<1> QED
  BY <1>5, <1>6

(* FORCE_UP adds enabled nodes, whichever of its loops picks them, until   *)
(* there are min_nodes or no more of them.                                 *)
LEMMA ForceUpCount ==
  ASSUME NEW p \in Pools, NEW last, NEW enabled \in SUBSET Nodes,
         NEW up \in SUBSET enabled, NEW forced, Cardinality(up) < min_nodes(p)
  PROVE  LET wanted == ForceUp(p, last, up, up, enabled, forced).wanted
         IN  /\ up \subseteq wanted /\ wanted \subseteq enabled
             /\ Cardinality(wanted) = Smaller(min_nodes(p), Cardinality(enabled))
<1> DEFINE min     == min_nodes(p)
           recent  == RecentlyChanged(last, up, enabled)
           rest    == enabled \ {last}
           wanted1 == up \cup recent
           again   == ForcedAgain(p, wanted1, rest, forced)
           wanted2 == wanted1 \cup again
           any     == ForcedAny(p, wanted2, rest)
           wanted3 == wanted2 \cup any
<1>1. ForceUp(p, last, up, up, enabled, forced).wanted = wanted3
  BY DEF ForceUp
<1>2. min \in Nat /\ Cardinality(up) < min /\ Cardinality(up) \in Nat /\ IsFiniteSet(up)
  BY PoolNumbers, NodeSets
<1>3. wanted1 \in SUBSET enabled /\ Cardinality(wanted1) <= min
  <2>1. CASE last \in enabled \ up
    <3>1. wanted1 = up \cup {last}
      BY <2>1 DEF RecentlyChanged
    <3>2. Cardinality(up \cup {last}) = Cardinality(up) + 1
      BY <1>2, <2>1, FS_AddElement, Zenon
    <3> QED
      BY <1>2, <2>1, <3>1, <3>2, SMTT(60)
  <2>2. CASE last \notin enabled \ up
    <3>1. wanted1 = up
      BY <2>2 DEF RecentlyChanged
    <3> QED
      BY <1>2, <3>1
  <2> QED
    BY <2>1, <2>2, ZenonT(60)
<1>4. wanted1 \cup rest = enabled
  BY DEF RecentlyChanged
<1> DEFINE pool2 == (rest \cap forced) \ wanted1
<1>5. again = TakeFirst(pool2, min - Cardinality(wanted1))
  BY DEF ForcedAgain
<1>6. pool2 \in SUBSET rest /\ pool2 \cap wanted1 = {} /\ rest \in SUBSET enabled
  OBVIOUS
<1> DEFINE pool3 == rest \ wanted2
<1>7. pool3 \cap wanted2 = {} /\ wanted2 \cup pool3 = wanted2 \cup rest
  OBVIOUS
<1> HIDE DEF recent, rest, wanted1, pool2
<1>8. Cardinality(wanted1) \in Nat /\ IsFiniteSet(wanted1)
  BY <1>3, NodeSets
<1>9. /\ again \in SUBSET pool2
      /\ Cardinality(again) = Smaller(min - Cardinality(wanted1), Cardinality(pool2))
      /\ Cardinality(pool2) \in Nat
  <2>1. /\ IsFiniteSet(pool2) /\ pool2 \subseteq Nat /\ Cardinality(pool2) \in Nat
        /\ min - Cardinality(wanted1) \in Nat
    BY <1>2, <1>3, <1>6, <1>8, NodeSets, SMTT(60)
  <2> HIDE DEF min
  <2> QED
    BY <1>5, <2>1, TakeFirstCount, Zenon DEF TakeFirst
<1> HIDE DEF again
<1>10. Cardinality(wanted2) = Cardinality(wanted1) + Cardinality(again)
  BY <1>3, <1>6, <1>9, DisjointUnion, Zenon
<1>11. wanted2 \in SUBSET enabled /\ Cardinality(wanted2) <= min
  BY <1>2, <1>3, <1>6, <1>8, <1>9, <1>10, SMTT(60) DEF Smaller
<1>12. Cardinality(wanted2) \in Nat /\ min - Cardinality(wanted2) \in Nat
  <2>1. Cardinality(wanted2) \in Nat
    BY <1>11, NodeSets
  <2> QED
    BY <1>2, <1>11, <2>1, SMTT(60)
<1>13. wanted2 \cup pool3 = enabled
  BY <1>4, <1>7, <1>11
<1> HIDE DEF wanted2
<1>14. any \in SUBSET rest /\ any \ wanted2 = TakeFirst(pool3, min - Cardinality(wanted2))
  <2>1. any = {c \in rest : Cardinality(wanted2) + Cardinality({d \in pool3 : d < c}) < min}
    BY DEF ForcedAny
  <2>2. ASSUME NEW c \in pool3
        PROVE  c \in any <=> Cardinality({d \in pool3 : d < c}) < min - Cardinality(wanted2)
    <3> DEFINE below == {d \in pool3 : d < c}
    <3>1. c \in any <=> Cardinality(wanted2) + Cardinality(below) < min
      BY <2>1, <2>2
    <3>2. below \in SUBSET Nodes
      BY <1>6
    <3> HIDE DEF below
    <3>3. Cardinality(below) \in Nat
      BY <3>2, NodeSets
    <3> QED
      BY <1>2, <1>12, <3>1, <3>3, SMTT(60) DEF below
  <2>3. any \in SUBSET rest
    BY <2>1
  <2> QED
    BY <2>2, <2>3 DEF TakeFirst
<1> HIDE DEF any, pool3, min
<1>15. pool3 \in SUBSET enabled
  BY <1>13
<1>16. /\ Cardinality(any \ wanted2) = Smaller(min - Cardinality(wanted2), Cardinality(pool3))
       /\ any \ wanted2 \in SUBSET pool3
  <2>1. IsFiniteSet(pool3) /\ pool3 \subseteq Nat
    BY <1>15, NodeSets
  <2> QED
    BY <1>12, <1>14, <2>1, TakeFirstCount, ZenonT(60) DEF TakeFirst
<1>17. Cardinality(wanted3) = Cardinality(wanted2) + Cardinality(any \ wanted2)
  <2>1. wanted3 = wanted2 \cup (any \ wanted2)
    OBVIOUS
  <2> QED
    BY <1>11, <1>15, <1>16, <2>1, DisjointUnion, ZenonT(60)
<1>18. Cardinality(enabled) = Cardinality(wanted2) + Cardinality(pool3)
  BY <1>7, <1>11, <1>13, <1>15, DisjointUnion, ZenonT(60)
<1>19. Cardinality(pool3) \in Nat
  BY <1>15, NodeSets
<1>20. Cardinality(wanted3) = Smaller(min, Cardinality(enabled))
  BY <1>2, <1>12, <1>16, <1>17, <1>18, <1>19, SMTT(60) DEF Smaller
<1>21. up \subseteq wanted3 /\ wanted3 \subseteq enabled
  BY <1>6, <1>11, <1>14, ZenonT(60) DEF wanted2, wanted1
<1> QED
  BY <1>1, <1>20, <1>21, ZenonT(60) DEF min

-----------------------------------------------------------------------------
(* Which nodes a pool wants.                                               *)

(* What pool_logic() makes of the up nodes of p and of their flags.        *)
LogicResult(p, kept) ==
  LET up     == UpNodes(p)'
      wanted == up_nodes'[p]
      short  == Cardinality(up) < min_nodes(p)
  IN  /\ FlagsFollow(p, kept)
      /\ max_nodes_kept' = kept \cup NewlyWanted(p, up, kept)
      /\ ~short => p \notin backup_pool_active' /\ wanted = Available(p, up, kept)
      /\ short =>
           \/ p \in backup_pool_active'
           \/ /\ p \notin backup_pool_active'
              /\ \/ fault_policy(p) = "FORCE_DOWN" /\ wanted = {}
                 \/ fault_policy(p) = "BACKUP_POOL" /\ wanted = up
                 \/ /\ fault_policy(p) = "FORCE_UP"
                    /\ up \subseteq wanted /\ wanted \subseteq EnabledNodes(p)'
                    /\ Cardinality(wanted)
                         = Smaller(min_nodes(p), Cardinality(EnabledNodes(p)'))

LEMMA LogicResults ==
  ASSUME TypeOK, NEW p \in Pools, LogicRuns(p)
  PROVE  /\ \E kept \in SUBSET Nodes : LogicResult(p, kept)
         /\ \A q \in Pools \ {p} :
              /\ up_nodes'[q] = up_nodes[q]
              /\ q \in backup_pool_active' <=> q \in backup_pool_active
<1>1. PICK last \in Nodes \cup {NoNode}, kept \in SUBSET Nodes,
           forced \in SUBSET Nodes :
             PoolLogic(p, last, kept, forced) /\ FlagsFollow(p, kept)
  BY ZenonT(60) DEF LogicRuns
<1> DEFINE enabled   == {n \in nodes(p) : admin_state'[n] = "STATE_ENABLED"}
           up        == {n \in nodes(p) :
                           admin_state'[n] = "STATE_ENABLED" /\ state'[n] = "STATE_UP"}
           available == Available(p, up, kept)
           force     == ForceUp(p, last, available, up, enabled, forced)
           wanted    == WantedNodes(p, available, force.wanted)
<1>2. /\ up_nodes' = [up_nodes EXCEPT ![p] = wanted]
      /\ max_nodes_kept' = kept \cup NewlyWanted(p, up, kept)
      /\ backup_pool_active' = IF UseBackup(p, available)
                               THEN backup_pool_active \cup {p}
                               ELSE backup_pool_active \ {p}
  BY <1>1, ZenonT(60) DEF PoolLogic, UpNodes, EnabledNodes, IsUp, IsEnabled
<1>3. UpNodes(p)' = up /\ EnabledNodes(p)' = enabled
  BY DEF UpNodes, EnabledNodes, IsUp, IsEnabled
<1>4. enabled \in SUBSET Nodes /\ up \in SUBSET enabled
  BY DEF nodes
<1> HIDE DEF up, enabled
<1>5. /\ TooFew(p, available) <=> Cardinality(up) < min_nodes(p)
      /\ Cardinality(up) < min_nodes(p) => available = up
  BY <1>4, ShortOfNodes, ZenonT(60)
<1>6. Cardinality(up) < min_nodes(p) =>
        /\ up \subseteq force.wanted /\ force.wanted \subseteq enabled
        /\ Cardinality(force.wanted) = Smaller(min_nodes(p), Cardinality(enabled))
  <2> SUFFICES ASSUME Cardinality(up) < min_nodes(p)
               PROVE  /\ up \subseteq force.wanted /\ force.wanted \subseteq enabled
                      /\ Cardinality(force.wanted) = Smaller(min_nodes(p), Cardinality(enabled))
    OBVIOUS
  <2>1. force = ForceUp(p, last, up, up, enabled, forced)
    BY <1>5
  <2> HIDE DEF force
  <2> QED
    BY <1>4, <2>1, ForceUpCount, SMTT(60)
<1> HIDE DEF available, force
<1>7. fault_policy(p) \in {"FORCE_UP", "FORCE_DOWN", "BACKUP_POOL"}
  BY DEF fault_policy, fault_policy_from_string
<1>8. up_nodes'[p] = wanted
  BY <1>2, ZenonT(60) DEF TypeOK
<1>9. CASE ~(Cardinality(up) < min_nodes(p))
  <2>1. ~UseBackup(p, available) /\ wanted = available
    BY <1>5, <1>9, ZenonT(60) DEF UseBackup, WantedNodes
  <2>2. p \notin backup_pool_active'
    BY <1>2, <2>1, ZenonT(60)
  <2> QED
    BY <1>1, <1>2, <1>3, <1>8, <1>9, <2>1, <2>2, ZenonT(60) DEF LogicResult, available, TypeOK
<1>10. CASE Cardinality(up) < min_nodes(p)
  <2>1. CASE UseBackup(p, available)
    <3>1. p \in backup_pool_active'
      BY <1>2, <2>1, ZenonT(60)
    <3> HIDE DEF wanted
    <3> QED
      BY <1>1, <1>2, <1>3, <1>10, <3>1, ZenonT(60) DEF LogicResult, TypeOK
  <2>2. CASE ~UseBackup(p, available)
    <3>1. p \notin backup_pool_active'
      BY <1>2, <2>2, ZenonT(60)
    <3>2. \/ fault_policy(p) = "FORCE_DOWN" /\ wanted = {}
          \/ fault_policy(p) = "BACKUP_POOL" /\ wanted = up
          \/ fault_policy(p) = "FORCE_UP" /\ wanted = force.wanted
      BY <1>5, <1>7, <1>10, <2>2, ZenonT(60) DEF WantedNodes
    <3> HIDE DEF wanted
    <3> QED
      BY <1>1, <1>2, <1>3, <1>6, <1>8, <1>10, <3>1, <3>2, ZenonT(60) DEF LogicResult, TypeOK
  <2> QED
    BY <2>1, <2>2, ZenonT(60)
<1> QED
  BY <1>9, <1>10, ZenonT(60)

(* pool_logic() leaves its pool with the nodes it promises, or short and   *)
(* on its backup.                                                          *)
LEMMA LogicKeepsPromise ==
  ASSUME TypeOK, NEW p \in Pools, LogicRuns(p)
  PROVE  /\ p \in backup_pool_active' => Cardinality(UpNodes(p)') < min_nodes(p)
         /\ p \notin backup_pool_active' => PoolPromise(p)'
<1>1. PICK kept \in SUBSET Nodes : LogicResult(p, kept)
  BY LogicResults
<1> DEFINE up      == UpNodes(p)'
           enabled == EnabledNodes(p)'
           wanted  == up_nodes'[p]
           room    == IF max_nodes(p) = 0 THEN Cardinality(up) ELSE max_nodes(p)
<1>2. up \in SUBSET Nodes
  BY DEF UpNodes, nodes
<1>3. /\ Cardinality(up) \in Nat /\ min_nodes(p) \in Nat /\ max_nodes(p) \in Nat
  BY <1>2, NodeSets, PoolNumbers, ZenonT(60)
<1>4. PoolPromise(p)' <=>
        IF Cardinality(up) >= min_nodes(p)
        THEN /\ wanted \subseteq up
             /\ Cardinality(wanted) = Smaller(room, Cardinality(up))
        ELSE IF fault_policy(p) = "FORCE_DOWN" THEN wanted = {}
        ELSE IF fault_policy(p) = "BACKUP_POOL" THEN wanted = up
        ELSE /\ up \subseteq wanted
             /\ wanted \subseteq enabled
             /\ Cardinality(wanted) = Smaller(min_nodes(p), Cardinality(enabled))
  BY ZenonT(60) DEF PoolPromise, Smaller
<1> HIDE DEF up, enabled, wanted
<1>5. CASE ~(Cardinality(up) < min_nodes(p))
  <2>1. p \notin backup_pool_active' /\ wanted = Available(p, up, kept)
    BY <1>1, <1>5 DEF LogicResult, up, wanted
  <2>2. wanted \subseteq up
    BY <2>1, AvailableAreUp
  <2>3. Cardinality(wanted) = Smaller(room, Cardinality(up))
    <3>1. CASE max_nodes(p) = 0
      BY <1>2, <1>3, <2>1, <3>1, AvailableCount, ZenonT(60) DEF Smaller
    <3>2. CASE max_nodes(p) > 0
      <4>1. Cardinality(Available(p, up, kept)) = Smaller(max_nodes(p), Cardinality(up))
        BY <1>2, <3>2, AvailableCount
      <4>2. room = max_nodes(p)
        BY <1>3, <3>2
      <4> QED
        BY <2>1, <4>1, <4>2
    <3> QED
      BY <1>3, <3>1, <3>2, SMTT(60)
  <2> QED
    BY <1>3, <1>4, <1>5, <2>1, <2>2, <2>3, SMTT(60)
<1>6. CASE Cardinality(up) < min_nodes(p)
  <2>1. \/ p \in backup_pool_active'
        \/ fault_policy(p) = "FORCE_DOWN" /\ wanted = {}
        \/ fault_policy(p) = "BACKUP_POOL" /\ wanted = up
        \/ /\ fault_policy(p) = "FORCE_UP"
           /\ up \subseteq wanted /\ wanted \subseteq enabled
           /\ Cardinality(wanted) = Smaller(min_nodes(p), Cardinality(enabled))
    BY <1>1, <1>6 DEF LogicResult, up, wanted, enabled
  <2>2. ~(Cardinality(up) >= min_nodes(p))
    BY <1>3, <1>6, SMTT(60)
  <2>3. p \notin backup_pool_active' => PoolPromise(p)'
    BY <1>4, <2>1, <2>2, ZenonT(60)
  <2> QED
    BY <1>6, <2>3, ZenonT(60) DEF up
<1> QED
  BY <1>5, <1>6, ZenonT(60)

(* Nodes of other pools stay as they are.                                  *)
LEMMA OtherPoolsStay ==
  ASSUME TypeOK, NEW p \in Pools, LogicRuns(p), NEW q \in Pools \ {p}
  PROVE  /\ UpNodes(q)' = UpNodes(q) /\ EnabledNodes(q)' = EnabledNodes(q)
         /\ up_nodes'[q] = up_nodes[q]
         /\ q \in backup_pool_active' <=> q \in backup_pool_active
         /\ q \in created' <=> q \in created
<1>1. \A n \in nodes(q) : admin_state'[n] = admin_state[n] /\ state'[n] = state[n]
  BY DEF LogicRuns, nodes
<1>2. UpNodes(q)' = UpNodes(q) /\ EnabledNodes(q)' = EnabledNodes(q)
  BY <1>1, ZenonT(60) DEF UpNodes, EnabledNodes, IsUp, IsEnabled
<1>3. q \in created' <=> q \in created
  BY DEF LogicRuns
<1> QED
  BY <1>2, <1>3, LogicResults, ZenonT(60)

LEMMA NextServes == TypeOK /\ PoolsServeTheirNodes /\ [Next]_vars => PoolsServeTheirNodes'
<1> SUFFICES ASSUME TypeOK, PoolsServeTheirNodes, [Next]_vars,
                    NEW q \in created' \ backup_pool_active'
             PROVE  PoolPromise(q)'
  BY DEF PoolsServeTheirNodes
<1>0. q \in Pools
  BY NextType, ZenonT(60) DEF TypeOK
<1>1. CASE PoolsRest
  <2>1. PoolPromise(q)
    BY <1>1 DEF PoolsRest, PoolsServeTheirNodes
  <2>2. UNCHANGED <<up_nodes, state, admin_state>>
    BY <1>1, ZenonT(60) DEF PoolsRest
  <2>3. UpNodes(q)' = UpNodes(q) /\ EnabledNodes(q)' = EnabledNodes(q)
    BY <2>2 DEF UpNodes, EnabledNodes, IsUp, IsEnabled
  <2> QED
    BY <2>1, <2>2, <2>3, ZenonT(60) DEF PoolPromise
<1>2. ASSUME NEW p \in Pools, LogicRuns(p)
      PROVE  PoolPromise(q)'
  <2>1. CASE q = p
    BY <1>2, <2>1, LogicKeepsPromise, ZenonT(60)
  <2>2. CASE q # p
    <3>1. /\ UpNodes(q)' = UpNodes(q) /\ EnabledNodes(q)' = EnabledNodes(q)
          /\ up_nodes'[q] = up_nodes[q]
          /\ q \in created /\ q \notin backup_pool_active
      BY <1>0, <1>2, <2>2, OtherPoolsStay, ZenonT(60)
    <3>2. PoolPromise(q)
      BY <3>1 DEF PoolsServeTheirNodes
    <3> QED
      BY <3>1, <3>2, ZenonT(60) DEF PoolPromise
  <2> QED
    BY <2>1, <2>2
<1> QED
  BY <1>1, <1>2, PoolStep

(* Every pool that relies on its own nodes wants those that its numbers    *)
(* and its policy ask for, at any point of any callback and for every      *)
(* configuration: no change of a node is missed by pool_logic().           *)
THEOREM PoolsServe == Spec => []PoolsServeTheirNodes
<1>1. Init => PoolsServeTheirNodes
  BY DEF Init, PoolsServeTheirNodes
<1> QED
  BY <1>1, NextServes, TypeCorrect, PTL DEF Spec

LEMMA NextNeeded == TypeOK /\ BackupOnlyWhenShort /\ [Next]_vars => BackupOnlyWhenShort'
<1> SUFFICES ASSUME TypeOK, BackupOnlyWhenShort, [Next]_vars,
                    NEW q \in backup_pool_active'
             PROVE  Cardinality(UpNodes(q)') < min_nodes(q)
  BY DEF BackupOnlyWhenShort
<1>0. q \in Pools
  BY NextType DEF TypeOK
<1>1. CASE PoolsRest
  <2>1. UpNodes(q)' = UpNodes(q)
    BY <1>1 DEF PoolsRest, UpNodes, IsUp, IsEnabled
  <2>2. q \in backup_pool_active
    BY <1>1 DEF PoolsRest
  <2> QED
    BY <2>1, <2>2, ZenonT(60) DEF BackupOnlyWhenShort
<1>2. ASSUME NEW p \in Pools, LogicRuns(p)
      PROVE  Cardinality(UpNodes(q)') < min_nodes(q)
  <2>1. CASE q = p
    BY <1>2, <2>1, LogicKeepsPromise, ZenonT(60)
  <2>2. CASE q # p
    <3>1. UpNodes(q)' = UpNodes(q) /\ q \in backup_pool_active
      BY <1>0, <1>2, <2>2, OtherPoolsStay, ZenonT(60)
    <3> QED
      BY <3>1, ZenonT(60) DEF BackupOnlyWhenShort
  <2> QED
    BY <2>1, <2>2
<1> QED
  BY <1>1, <1>2, PoolStep, ZenonT(60)

(* A pool uses its backup only while it is short of up nodes of its own:   *)
(* no recovery is missed, however the pools are chained.                   *)
THEOREM BackupsAreNeeded == Spec => []BackupOnlyWhenShort
<1>1. Init => BackupOnlyWhenShort
  BY DEF Init, BackupOnlyWhenShort
<1> QED
  BY <1>1, NextNeeded, TypeCorrect, PTL DEF Spec

-----------------------------------------------------------------------------
(* No displacement.                                                        *)

(* A reload comes after the start, and pools stay in lb_pools.             *)
ReloadAfterStart == reload # {} => created = Pools

LEMMA NextReload ==
  ASSUME TypeOK, ReloadAfterStart, [Next]_vars
  PROVE  ReloadAfterStart'
<1> USE DEF ReloadAfterStart
<1>0. created' \subseteq Pools
  BY NextType DEF TypeOK
<1>1. ASSUME NEW p \in Pools, NEW inTable, NEW admin, ConstructPool(p, inTable, admin)
      PROVE  ReloadAfterStart'
  <2>1. created' = created \cup {p} /\ reload' = reload
    BY <1>1, Zenon DEF ConstructPool, IsUp, IsEnabled
  <2> QED
    BY <1>0, <2>1, ZenonT(60)
<1>2. ASSUME NEW S, Schedule(S)
      PROVE  ReloadAfterStart'
  BY <1>2 DEF Schedule
<1>3. ASSUME NEW h, NEW result, EndCheck(h, result)
      PROVE  ReloadAfterStart'
  BY <1>3 DEF EndCheck
<1>4. ASSUME NEW n, KeepDowntime(n)
      PROVE  ReloadAfterStart'
  BY <1>4, ZenonT(60) DEF KeepDowntime, NextToReload
<1>5. ASSUME NEW n, NEW admin, ChangeDowntime(n, admin)
      PROVE  ReloadAfterStart'
  BY <1>5 DEF ChangeDowntime, NextToReload
<1>6. ASSUME NEW p, UpdateUser(p)
      PROVE  ReloadAfterStart'
  BY <1>6, ZenonT(60) DEF UpdateUser
<1>7. ASSUME NEW p, SyncNoHc(p)
      PROVE  ReloadAfterStart'
  BY <1>7, ZenonT(60) DEF SyncNoHc
<1>8. LoadDowntimes \/ SyncLbPools \/ Receive \/ UNCHANGED vars => ReloadAfterStart'
  BY DEF LoadDowntimes, SyncLbPools, Receive, vars, Idle
<1> QED
  BY <1>1, <1>2, <1>3, <1>4, <1>5, <1>6, <1>7, <1>8, ZenonT(60) DEF Next, Main, Event

(* The inductive invariant behind max_nodes_kept.  The flag is only set on *)
(* up nodes, on no more of a pool than max_nodes, and on all up nodes that *)
(* get traffic, or would if their pool were not on its backup.             *)
KeptInv ==
  /\ ReloadAfterStart
  /\ \A p \in Pools \ created : UpNodes(p) = {}
  /\ \A n \in max_nodes_kept : IsUp(n)
  /\ \A p \in Pools : max_nodes(p) > 0 =>
       Cardinality(max_nodes_kept \cap nodes(p)) <= max_nodes(p)
  /\ \A p \in Pools : \A n \in UpNodes(p) :
       p \in backup_pool_active \/ n \in up_nodes[p] => n \in max_nodes_kept

(* The flags that pool_logic() finds set are on nodes that are still up,   *)
(* and it wants all of them.                                               *)
LEMMA KeptAreWanted ==
  ASSUME TypeOK, KeptInv, NEW p \in Pools, LogicRuns(p), NEW kept \in SUBSET Nodes,
         FlagsFollow(p, kept)
  PROVE  /\ \A n \in kept : IsUp(n)'
         /\ kept \cap nodes(p) \subseteq Available(p, UpNodes(p)', kept)
         /\ max_nodes(p) > 0 =>
              Cardinality(Available(p, UpNodes(p)', kept)) <= max_nodes(p)
<1> DEFINE up == UpNodes(p)'
<1>1. ASSUME NEW n \in kept
      PROVE  IsUp(n)'
  <2>1. IsUp(n) /\ n \in Nodes
    BY ZenonT(60) DEF FlagsFollow, KeptInv
  <2>2. CASE n \in nodes(p)
    <3>1. p \in created
      BY <2>1, <2>2, ZenonT(60) DEF KeptInv, UpNodes
    <3> QED
      BY <2>1, <3>1, ZenonT(60) DEF FlagsFollow
  <2>3. CASE n \notin nodes(p)
    BY <2>1, <2>3, ZenonT(60) DEF LogicRuns, IsUp, IsEnabled
  <2> QED
    BY <2>2, <2>3, ZenonT(60)
<1>2. up \in SUBSET Nodes /\ kept \cap nodes(p) = up \cap kept
  BY <1>1, ZenonT(60) DEF UpNodes, nodes
<1> HIDE DEF up
<1>3. max_nodes(p) \in Nat /\ Cardinality(up) \in Nat
  BY <1>2, PoolNumbers, NodeSets, ZenonT(60)
<1>4. CASE max_nodes(p) = 0
  <2>1. Available(p, up, kept) = up
    BY <1>2, <1>4, AvailableCount, ZenonT(60)
  <2>2. ~(max_nodes(p) > 0)
    BY <1>4, SMTT(60)
  <2> QED
    BY <1>1, <1>2, <2>1, <2>2, ZenonT(60) DEF up
<1>5. CASE max_nodes(p) > 0
  <2>1. Cardinality(up \cap kept) <= max_nodes(p)
    <3> DEFINE flagged == max_nodes_kept \cap nodes(p)
    <3>1. up \cap kept \in SUBSET flagged /\ flagged \in SUBSET Nodes
      BY <1>2, ZenonT(60) DEF FlagsFollow, nodes
    <3>2. Cardinality(flagged) <= max_nodes(p)
      BY <1>5 DEF KeptInv
    <3> HIDE DEF flagged
    <3>3. /\ Cardinality(up \cap kept) <= Cardinality(flagged)
          /\ Cardinality(up \cap kept) \in Nat /\ Cardinality(flagged) \in Nat
      BY <3>1, NodeSets, FS_Subset, ZenonT(60)
    <3> QED
      BY <1>3, <3>2, <3>3, SMTT(60)
  <2>2. Cardinality(Available(p, up, kept)) = Smaller(max_nodes(p), Cardinality(up))
    BY <1>2, <1>5, AvailableCount, ZenonT(60)
  <2>3. up \cap kept \subseteq Available(p, up, kept)
    BY <1>2, <1>5, <2>1, OldNodesFirst, ZenonT(60)
  <2>4. Cardinality(Available(p, up, kept)) <= max_nodes(p)
    BY <1>3, <2>2, SMTT(60) DEF Smaller
  <2> QED
    BY <1>1, <1>2, <2>3, <2>4, ZenonT(60) DEF up
<1> QED
  BY <1>3, <1>4, <1>5, SMTT(60)

LEMMA LogicKeepsFlags ==
  ASSUME TypeOK, TypeOK', KeptInv, NEW p \in Pools, LogicRuns(p), ReloadAfterStart'
  PROVE  KeptInv'
<1>1. PICK kept \in SUBSET Nodes : LogicResult(p, kept)
  BY LogicResults, ZenonT(60)
<1> DEFINE up        == UpNodes(p)'
           available == Available(p, up, kept)
<1>2. /\ FlagsFollow(p, kept)
      /\ max_nodes_kept' = kept \cup NewlyWanted(p, up, kept)
  BY <1>1, ZenonT(60) DEF LogicResult
<1>3. /\ \A n \in kept : IsUp(n)'
      /\ kept \cap nodes(p) \subseteq available
      /\ max_nodes(p) > 0 => Cardinality(available) <= max_nodes(p)
  BY <1>2, KeptAreWanted, ZenonT(60)
<1>4. /\ available \subseteq up /\ NewlyWanted(p, up, kept) \subseteq available
      /\ available \subseteq max_nodes_kept'
  BY <1>2, AvailableAreUp, ZenonT(60) DEF Available, PreviouslyWanted, TakeFirst
<1>5. up \in SUBSET nodes(p) /\ up \in SUBSET Nodes /\ \A n \in up : IsUp(n)'
  BY DEF UpNodes, nodes
<1> HIDE DEF up, available
<1>6. ASSUME NEW q \in Pools \ created'
      PROVE  UpNodes(q)' = {}
  <2>1. CASE q = p
    <3>1. UNCHANGED <<state, admin_state>> /\ created' = created
      BY <1>6, <2>1, ZenonT(60) DEF LogicRuns, KeptInv, ReloadAfterStart
    <3>2. UpNodes(q)' = UpNodes(q)
      BY <3>1, ZenonT(60) DEF UpNodes, IsUp, IsEnabled
    <3> QED
      BY <1>6, <3>1, <3>2, ZenonT(60) DEF KeptInv
  <2>2. CASE q # p
    BY <1>6, <2>2, OtherPoolsStay, ZenonT(60) DEF KeptInv
  <2> QED
    BY <2>1, <2>2, ZenonT(60)
<1>7. ASSUME NEW n \in max_nodes_kept'
      PROVE  IsUp(n)'
  BY <1>2, <1>3, <1>4, <1>5, <1>7, ZenonT(60)
<1>8. ASSUME NEW q \in Pools, max_nodes(q) > 0
      PROVE  Cardinality(max_nodes_kept' \cap nodes(q)) <= max_nodes(q)
  <2>1. CASE q = p
    <3>1. max_nodes_kept' \cap nodes(p) = available
      BY <1>2, <1>3, <1>4, <1>5, ZenonT(60)
    <3> QED
      BY <1>3, <1>8, <2>1, <3>1, ZenonT(60)
  <2>2. CASE q # p
    <3> DEFINE now == max_nodes_kept' \cap nodes(q)
               then == max_nodes_kept \cap nodes(q)
    <3>1. nodes(q) \cap nodes(p) = {}
      BY <2>2, ZenonT(60) DEF nodes
    <3>2. now \in SUBSET then /\ then \in SUBSET Nodes
      BY <1>2, <1>4, <1>5, <3>1, ZenonT(60) DEF FlagsFollow, nodes
    <3>3. Cardinality(then) <= max_nodes(q) /\ max_nodes(q) \in Nat
      BY <1>8, PoolNumbers, ZenonT(60) DEF KeptInv
    <3> HIDE DEF now, then
    <3>4. /\ Cardinality(now) <= Cardinality(then)
          /\ Cardinality(now) \in Nat /\ Cardinality(then) \in Nat
      BY <3>2, NodeSets, FS_Subset, ZenonT(60)
    <3>5. Cardinality(now) <= max_nodes(q)
      BY <3>3, <3>4
    <3> QED
      BY <3>5 DEF now
  <2> QED
    BY <2>1, <2>2
<1>9. ASSUME NEW q \in Pools, NEW n \in UpNodes(q)',
             q \in backup_pool_active' \/ n \in up_nodes'[q]
      PROVE  n \in max_nodes_kept'
  <2>1. CASE q = p
    <3>1. CASE Cardinality(up) < min_nodes(p)
      <4>1. available = up
        BY <1>5, <3>1, ShortOfNodes, ZenonT(60) DEF available
      <4> QED
        BY <1>4, <1>9, <2>1, <4>1, ZenonT(60) DEF up
    <3>2. CASE ~(Cardinality(up) < min_nodes(p))
      <4>1. p \notin backup_pool_active' /\ up_nodes'[p] = available
        BY <1>1, <3>2, ZenonT(60) DEF LogicResult, up, available
      <4> QED
        BY <1>4, <1>9, <2>1, <4>1, ZenonT(60)
    <3> QED
      BY <3>1, <3>2, ZenonT(60)
  <2>2. CASE q # p
    <3>1. n \in UpNodes(q) /\ (q \in backup_pool_active \/ n \in up_nodes[q])
      BY <1>9, <2>2, OtherPoolsStay, ZenonT(60)
    <3>2. n \in max_nodes_kept
      BY <3>1, ZenonT(60) DEF KeptInv
    <3>3. IsUp(n)'
      BY <1>9 DEF UpNodes
    <3> QED
      BY <1>2, <3>2, <3>3, ZenonT(60) DEF FlagsFollow
  <2> QED
    BY <2>1, <2>2
<1> QED
  BY <1>6, <1>7, <1>8, <1>9, ZenonT(60) DEF KeptInv

LEMMA NextKept ==
  ASSUME TypeOK, KeptInv, [Next]_vars
  PROVE  KeptInv'
<1>1. TypeOK' /\ ReloadAfterStart'
  BY NextType, NextReload, ZenonT(60) DEF KeptInv
<1>2. CASE PoolsRest
  <2>1. UNCHANGED <<up_nodes, backup_pool_active, created, max_nodes_kept, state, admin_state>>
    BY <1>2, ZenonT(60) DEF PoolsRest
  <2>2. \A p : UpNodes(p)' = UpNodes(p)
    BY <2>1, ZenonT(60) DEF UpNodes, IsUp, IsEnabled
  <2>3. \A n : IsUp(n)' <=> IsUp(n)
    BY <2>1 DEF IsUp, IsEnabled
  <2> QED
    BY <1>1, <2>1, <2>2, <2>3, ZenonT(60) DEF KeptInv
<1>3. ASSUME NEW p \in Pools, LogicRuns(p)
      PROVE  KeptInv'
  BY <1>1, <1>3, LogicKeepsFlags, ZenonT(60)
<1> QED
  BY <1>2, <1>3, PoolStep, ZenonT(60)

LEMMA NextKeepsPlaces ==
  ASSUME TypeOK, KeptInv, [Next]_vars, NEW q \in Pools,
         NEW n \in up_nodes[q] \cap nodes(q), IsUp(n), IsUp(n)',
         up_nodes'[q] # {}, q \notin backup_pool_active'
  PROVE  n \in up_nodes'[q]
<1>1. CASE PoolsRest
  BY <1>1, ZenonT(60) DEF PoolsRest
<1>2. ASSUME NEW p \in Pools, LogicRuns(p), q # p
      PROVE  n \in up_nodes'[q]
  BY <1>2, OtherPoolsStay, ZenonT(60)
<1>3. ASSUME LogicRuns(q)
      PROVE  n \in up_nodes'[q]
  <2>1. PICK kept \in SUBSET Nodes : LogicResult(q, kept)
    BY <1>3, LogicResults, ZenonT(60)
  <2>2. FlagsFollow(q, kept)
    BY <2>1, ZenonT(60) DEF LogicResult
  <2>3. n \in max_nodes_kept
    BY DEF KeptInv, UpNodes
  <2>4. n \in kept
    BY <2>2, <2>3, ZenonT(60) DEF FlagsFollow
  <2>5. n \in Available(q, UpNodes(q)', kept)
    BY <1>3, <2>2, <2>4, KeptAreWanted, ZenonT(60)
  <2>6. n \in UpNodes(q)'
    BY DEF UpNodes
  <2> QED
    BY <2>1, <2>5, <2>6, ZenonT(60) DEF LogicResult
<1> QED
  BY <1>1, <1>2, <1>3, PoolStep, ZenonT(60)

(* No node that comes up takes the place of one that is up and gets        *)
(* traffic: max_nodes_kept does what its name says, for all numbers of     *)
(* nodes and all orders of failures, recoveries, drains and downtimes.     *)
THEOREM NodesKeepTheirPlace == Spec => NoDisplacement
<1>1. Init => KeptInv
  <2> SUFFICES ASSUME Init PROVE KeptInv
    OBVIOUS
  <2>1. \A p \in Pools : UpNodes(p) = {}
    BY DEF Init, UpNodes, IsUp, IsEnabled, nodes
  <2>2. \A p \in Pools : Cardinality(max_nodes_kept \cap nodes(p)) = 0 /\ max_nodes(p) \in Nat
    BY FS_EmptySet, PoolNumbers DEF Init
  <2> QED
    BY <2>1, <2>2 DEF Init, KeptInv, ReloadAfterStart
<1>2. TypeOK /\ KeptInv /\ [Next]_vars => KeptInv'
  BY NextKept, ZenonT(60)
<1> DEFINE Step == \A p \in Pools : \A n \in up_nodes[p] \cap nodes(p) :
                     IsUp(n) /\ IsUp(n)' => \/ n \in up_nodes'[p]
                                            \/ up_nodes'[p] = {}
                                            \/ p \in backup_pool_active'
<1> HIDE DEF Step
<1>3. TypeOK /\ KeptInv /\ [Next]_vars => [Step]_vars
  BY NextKeepsPlaces DEF Step
<1>4. Spec => [][Step]_vars
  BY <1>1, <1>2, <1>3, TypeCorrect, PTL DEF Spec
<1> QED
  BY <1>4 DEF NoDisplacement, Step

-----------------------------------------------------------------------------
(* Downtimes and backup pools.                                             *)

LEMMA NoneDowntimed ==
  ASSUME NEW rank \in [Pools -> Nat],
         \A p \in Pools :
           backup_pool_name(p) \in Pools => rank[backup_pool_name(p)] < rank[p]
  PROVE  TypeOK /\ OwnNodesEnabled /\ InStepOrInCalls => NoTrafficToDowntimedNodes
<1> SUFFICES ASSUME TypeOK, OwnNodesEnabled, InStepOrInCalls, Idle,
                    NEW p \in Pools, NEW n \in up_nodes[p], ~IsEnabled(n)
             PROVE  FALSE
  BY DEF NoTrafficToDowntimedNodes
<1> DEFINE Wanting == {q \in Pools : n \in up_nodes[q]}
           Ranks == {rank[q] : q \in Wanting}
<1>1. Ranks \in SUBSET Nat /\ Ranks # {}
  OBVIOUS
<1>2. PICK r \in Ranks : \A s \in Ranks : r <= s
  BY <1>1, FirstNode, Zenon
<1>3. PICK q \in Wanting : r = rank[q]
  BY <1>2, ZenonT(60)
<1>4. q \in backup_pool_active
  BY <1>3, ZenonT(60) DEF OwnNodesEnabled, EnabledNodes
<1>5. backup_pool_name(q) \in Pools /\ up_nodes[q] = up_nodes[backup_pool_name(q)]
  BY <1>4, SMTT(60) DEF InStepOrInCalls, InCalls, Idle
<1>6. rank[backup_pool_name(q)] \in Ranks
  BY <1>3, <1>5, ZenonT(60)
<1>7. rank[backup_pool_name(q)] < r /\ r <= rank[backup_pool_name(q)]
  BY <1>2, <1>3, <1>5, <1>6
<1> QED
  BY <1>3, <1>5, <1>7, SMTT(60)

(* Between callbacks no pool wants a node in downtime, over any chain of   *)
(* backups.  rank orders the pools such that a backup comes before its     *)
(* users, so it exists if there is no cycle of backups.                    *)
THEOREM NoDowntimedNodeAnywhere ==
  ASSUME NEW rank \in [Pools -> Nat],
         \A p \in Pools :
           backup_pool_name(p) \in Pools => rank[backup_pool_name(p)] < rank[p]
  PROVE  Spec => []NoTrafficToDowntimedNodes
<1>1. TypeOK /\ OwnNodesEnabled /\ InStepOrInCalls => NoTrafficToDowntimedNodes
  BY NoneDowntimed
<1> QED
  BY <1>1, TypeCorrect, NoDowntimedNodeWanted, InStepOrInCallsHolds, PTL
=============================================================================
