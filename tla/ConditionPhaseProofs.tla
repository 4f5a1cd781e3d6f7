---------------------------- MODULE ConditionPhaseProofs ----------------------------
(***************************************************************************)
(* What extractConditionPhase returns, for lists of any length.  Its scan  *)
(* is a recursive function: that there is one, and what its values are, is *)
(* shown by least counterexamples, sets of numbers whose minimum leads to  *)
(* a contradiction.                                                        *)
(***************************************************************************)
EXTENDS ConditionPhase, WellFoundedInduction, TLAPS

LEMMA LeastNumber ==
  ASSUME NEW T \in SUBSET Nat, T # {}
  PROVE  \E m \in T : \A k \in T : m <= k
<1>1. PICK m \in T : \A k \in T : <<k, m>> \notin OpToRel(<, Nat)
  BY NatLessThanWellFounded, WFMin
<1>2. \A k \in T : ~(k < m)
  BY <1>1 DEF OpToRel
<1> QED BY <1>2

----------------------------------------------------------------------------
(* The scan of the first n items, as the function it should be: g.         *)
IsScan(g, items, n) ==
  g = [i \in 0 .. n |-> IF i = 0 THEN "Pending"
                        ELSE IF Round(items[i]) # "" THEN Round(items[i])
                        ELSE g[i - 1]]

LEMMA ScanExists ==
  ASSUME NEW items, NEW n \in Nat PROVE \E g : IsScan(g, items, n)
<1> DEFINE Bad == {m \in Nat : ~ \E g : IsScan(g, items, m)}
<1>1. SUFFICES ASSUME Bad # {} PROVE FALSE
  OBVIOUS
<1>2. PICK m \in Bad : \A k \in Bad : m <= k
  <2> HIDE DEF Bad
  <2>1. Bad \in SUBSET Nat
    BY DEF Bad
  <2> QED BY <1>1, <2>1, LeastNumber
<1>3. m # 0
  <2> DEFINE z == [i \in 0 .. 0 |-> "Pending"]
  <2>1. \A i \in 0 .. 0 : i = 0
    OBVIOUS
  <2>2. z = [i \in 0 .. 0 |-> IF i = 0 THEN "Pending"
                              ELSE IF Round(items[i]) # "" THEN Round(items[i]) ELSE z[i - 1]]
    BY <2>1, Zenon
  <2>3. IsScan(z, items, 0)
    BY <2>2 DEF IsScan
  <2> QED BY <1>2, <2>3
<1>4. PICK g : IsScan(g, items, m - 1)
  <2>1. m - 1 \in Nat /\ m - 1 \notin Bad
    BY <1>2, <1>3
  <2> QED BY <2>1
<1> DEFINE h == [i \in 0 .. m |-> IF i = 0 THEN "Pending"
                                  ELSE IF Round(items[i]) # "" THEN Round(items[i])
                                  ELSE g[i - 1]]
<1>5. ASSUME NEW i \in 1 .. m PROVE h[i - 1] = g[i - 1]
  <2>1. i - 1 \in 0 .. m - 1 /\ i - 1 \in 0 .. m
    BY <1>2
  <2> QED BY <1>4, <2>1 DEF IsScan
<1>6. IsScan(h, items, m)
  <2>1. \A i \in 0 .. m :
          h[i] = IF i = 0 THEN "Pending" ELSE IF Round(items[i]) # "" THEN Round(items[i])
                 ELSE h[i - 1]
    <3> SUFFICES ASSUME NEW i \in 0 .. m
                 PROVE  h[i] = IF i = 0 THEN "Pending"
                               ELSE IF Round(items[i]) # "" THEN Round(items[i]) ELSE h[i - 1]
      OBVIOUS
    <3>1. i # 0 => i \in 1 .. m
      BY <1>2
    <3>2. h[i] = IF i = 0 THEN "Pending"
                 ELSE IF Round(items[i]) # "" THEN Round(items[i]) ELSE g[i - 1]
      OBVIOUS
    <3> HIDE DEF h
    <3> QED BY <1>5, <3>1, <3>2
  <2> QED BY <2>1 DEF IsScan
<1> QED BY <1>2, <1>6

(* The code's scan is one.                                                 *)
LEMMA ScanOfConditions ==
  ASSUME NEW conditions, conditions.list # Malformed, Len(conditions.items) \in Nat
  PROVE  \E g : /\ IsScan(g, conditions.items, Len(conditions.items))
                /\ extractConditionPhase(conditions) = g[Len(conditions.items)]
<1> DEFINE g == CHOOSE f : IsScan(f, conditions.items, Len(conditions.items))
<1>1. IsScan(g, conditions.items, Len(conditions.items))
  BY ScanExists
<1>2. extractConditionPhase(conditions) = g[Len(conditions.items)]
  BY DEF extractConditionPhase, IsScan
<1> QED BY <1>1, <1>2

----------------------------------------------------------------------------
(* What the scan of n items returns is decided by the last of them that    *)
(* ends a round of the loop, or is Pending when none does.                 *)
DecidedAt(phase, items, n, j) ==
  /\ Round(items[j]) # "" /\ phase = Round(items[j])
  /\ \A k \in j + 1 .. n : Round(items[k]) = ""
Undecided(phase, items, n) ==
  phase = "Pending" /\ \A k \in 1 .. n : Round(items[k]) = ""

LEMMA ScanDecides ==
  ASSUME NEW items, NEW n \in Nat, NEW g, IsScan(g, items, n)
  PROVE  Undecided(g[n], items, n) \/ \E j \in 1 .. n : DecidedAt(g[n], items, n, j)
<1> DEFINE Fine(m) == Undecided(g[m], items, m) \/ \E j \in 1 .. m : DecidedAt(g[m], items, m, j)
           Bad == {m \in 0 .. n : ~Fine(m)}
<1>1. SUFFICES ASSUME Bad # {} PROVE FALSE
  OBVIOUS
<1>2. PICK m \in 0 .. n : ~Fine(m) /\ \A k \in 0 .. n : k < m => Fine(k)
  <2> HIDE DEF Fine
  <2>1. PICK b \in Bad : \A k \in Bad : b <= k
    <3> HIDE DEF Bad
    <3>1. Bad \in SUBSET Nat
      BY DEF Bad
    <3> QED BY <1>1, <3>1, LeastNumber
  <2> QED BY <2>1
<1> HIDE DEF Fine, Bad
<1>3. /\ \A k \in 1 .. m : k = m \/ k \in 1 .. m - 1
      /\ \A k \in 1 .. m - 1 : k \in 1 .. m /\ \A l \in k + 1 .. m : l = m \/ l \in k + 1 .. m - 1
      /\ m + 1 .. m = {}
      /\ m # 0 => m \in 1 .. m /\ m - 1 \in 0 .. n /\ m - 1 < m
      /\ 1 .. 0 = {}
  OBVIOUS
<1>4. g[m] = IF m = 0 THEN "Pending" ELSE IF Round(items[m]) # "" THEN Round(items[m])
             ELSE g[m - 1]
  BY Zenon DEF IsScan
<1>5. CASE m = 0
  BY <1>2, <1>3, <1>4, <1>5, Zenon DEF Undecided, Fine
<1>6. CASE m # 0 /\ Round(items[m]) # ""
  <2>1. DecidedAt(g[m], items, m, m)
    BY <1>3, <1>4, <1>6, Zenon DEF DecidedAt
  <2> QED BY <1>2, <1>3, <1>6, <2>1, Zenon DEF Fine
<1>7. CASE m # 0 /\ Round(items[m]) = ""
  <2>1. g[m] = g[m - 1] /\ Fine(m - 1)
    BY <1>2, <1>3, <1>4, <1>7, Zenon
  <2>2. CASE Undecided(g[m - 1], items, m - 1)
    <3>1. Undecided(g[m], items, m)
      BY <1>3, <1>7, <2>1, <2>2, Zenon DEF Undecided
    <3> QED BY <1>2, <3>1 DEF Fine
  <2>3. ASSUME NEW j \in 1 .. m - 1, DecidedAt(g[m - 1], items, m - 1, j) PROVE FALSE
    <3>1. DecidedAt(g[m], items, m, j)
      BY <1>3, <1>7, <2>1, <2>3, Zenon DEF DecidedAt
    <3> QED BY <1>2, <1>3, <3>1, Zenon DEF Fine
  <2> QED BY <2>1, <2>2, <2>3, Zenon DEF Fine
<1> QED BY <1>5, <1>6, <1>7

(***************************************************************************)
(* The phase of a list of conditions is what its last deciding condition   *)
(* says, whatever precedes it, and Pending when none decides.              *)
(***************************************************************************)
THEOREM LastConditionDecides ==
  ASSUME NEW conditions, conditions.list # Malformed, Len(conditions.items) \in Nat
  PROVE  \/ Undecided(extractConditionPhase(conditions), conditions.items, Len(conditions.items))
         \/ \E j \in 1 .. Len(conditions.items) :
              DecidedAt(extractConditionPhase(conditions), conditions.items,
                        Len(conditions.items), j)
  BY ScanOfConditions, ScanDecides
=====================================================================================
