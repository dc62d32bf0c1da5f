--------------------------- MODULE ConditionsProof ---------------------------
(***************************************************************************)
(* Lemmas about the restrictions of a group and the pointers to their      *)
(* sets, for every table.                                                  *)
(***************************************************************************)
EXTENDS Conditions, FiniteSetTheorems, FunctionTheorems, TLAPS

-----------------------------------------------------------------------------
(***************************************************************************)
(* What sortPointers does to the sets of the conditions: either one has    *)
(* been moved over another, and then too few slots are left, or all are    *)
(* there.                                                                  *)
(***************************************************************************)
Holds(s, S, n) ==
  /\ IsFiniteSet(DOMAIN s) /\ Cardinality(DOMAIN s) <= n
  /\ \A k \in DOMAIN s : s[k] \in S
  /\ Cardinality(DOMAIN s) < n \/ \A x \in S : \E k \in DOMAIN s : s[k] = x

LEMMA MoveHolds ==
  ASSUME NEW s, NEW S, NEW n \in Nat, NEW a, NEW b, a # b, Holds(s, S, n)
  PROVE  Holds(Move(s, a, b), S, n)
<1>. DEFINE D == DOMAIN s
            E == (D \ {b}) \cup {a}
            m == [k \in E |-> IF k = a THEN s[b] ELSE s[k]]
<1>1. CASE b \notin D
  BY <1>1 DEF Move
<1>2. CASE b \in D
  <2>1. Move(s, a, b) = m
    BY <1>2 DEF Move
  <2>2. IsFiniteSet(D) /\ Cardinality(D) \in Nat /\ Cardinality(D) <= n
    BY FS_CardinalityType DEF Holds
  <2>3. IsFiniteSet(D \ {b}) /\ Cardinality(D \ {b}) = Cardinality(D) - 1
    BY <1>2, <2>2, FS_RemoveElement
  <2>4. /\ IsFiniteSet(E)
        /\ Cardinality(E) = IF a \in D THEN Cardinality(D) - 1 ELSE Cardinality(D)
    <3>1. /\ IsFiniteSet(E)
          /\ Cardinality(E) = IF a \in D \ {b} THEN Cardinality(D \ {b})
                              ELSE Cardinality(D \ {b}) + 1
      BY <2>3, FS_AddElement
    <3>. HIDE DEF E
    <3>2. a \in D \ {b} <=> a \in D
      OBVIOUS
    <3>. QED BY <2>2, <2>3, <3>1, <3>2
  <2>5. \A k \in E : m[k] \in S
    BY <1>2 DEF Holds
  <2>6. DOMAIN m = E
    OBVIOUS
  <2>7. Cardinality(E) < n \/ \A x \in S : \E k \in E : m[k] = x
    <3>1. CASE a \in D
      BY <2>2, <2>4, <3>1
    <3>2. CASE a \notin D
      <4>1. ASSUME NEW x \in S, NEW k \in D, s[k] = x PROVE \E e \in E : m[e] = x
        <5>1. CASE k = b
          <6>1. a \in E /\ m[a] = x
            BY <4>1, <5>1
          <6>. QED BY <6>1
        <5>2. CASE k # b
          <6>1. k \in E /\ m[k] = x
            BY <3>2, <4>1, <5>2
          <6>. QED BY <6>1
        <5>. QED BY <5>1, <5>2
      <4>. HIDE DEF m, E
      <4>. QED BY <2>4, <3>2, <4>1 DEF Holds
    <3>. QED BY <3>1, <3>2
  <2>8. Cardinality(E) <= n
    BY <2>2, <2>4
  <2>. HIDE DEF m, E, D
  <2>. QED BY <2>1, <2>4, <2>5, <2>6, <2>7, <2>8 DEF Holds
<1>. QED BY <1>1, <1>2

LEMMA SortHolds ==
  ASSUME NEW s, NEW S, NEW n \in Nat, Holds(s, S, n)
  PROVE  Holds(SortPointers(s), S, n)
<1>. DEFINE a == Move(Move(Move(s, 0, 1), 0, 2), 0, 3)
            s0 == IF 0 \in DOMAIN s THEN s ELSE a
            b == Move(Move(s0, 1, 2), 1, 3)
            s1 == IF 1 \in DOMAIN s0 THEN s0 ELSE b
<1>1. SortPointers(s) = IF 2 \in DOMAIN s1 THEN s1 ELSE Move(s1, 2, 3)
  BY DEF SortPointers
<1>2. Holds(Move(s, 0, 1), S, n)
  BY MoveHolds
<1>3. Holds(Move(Move(s, 0, 1), 0, 2), S, n)
  BY <1>2, MoveHolds
<1>4. Holds(s0, S, n)
  <2>1. Holds(a, S, n)
    BY <1>3, MoveHolds
  <2>. QED BY <2>1
<1>. HIDE DEF s0
<1>5. Holds(Move(s0, 1, 2), S, n)
  BY <1>4, MoveHolds
<1>6. Holds(s1, S, n)
  <2>1. Holds(b, S, n)
    BY <1>5, MoveHolds
  <2>. QED BY <1>4, <2>1
<1>. HIDE DEF s1
<1>7. Holds(Move(s1, 2, 3), S, n)
  BY <1>6, MoveHolds
<1>. QED BY <1>1, <1>6, <1>7

LEMMA SlotsHold ==
  ASSUME NEW t, NEW h, NEW free, t[h].conds \subseteq Flags
  PROVE  /\ CondAmm(t, h) \in Nat
         /\ Holds(Slots(t, h, free), {SetOf(f, t, h, free) : f \in t[h].conds}, CondAmm(t, h))
<1>. DEFINE C == t[h].conds
            D == {SlotOf(f) : f \in C}
            g == [f \in C |-> SlotOf(f)]
            s == Slots(t, h, free)
            set(f) == SetOf(f, t, h, free)
            S == {set(f) : f \in C}
<1>1. IsFiniteSet(C) /\ Cardinality(C) \in Nat
  <2>1. /\ IsFiniteSet({"same"}) /\ IsFiniteSet({"weak"})
        /\ IsFiniteSet({"champ"}) /\ IsFiniteSet({"death"})
    BY FS_Singleton
  <2>2. IsFiniteSet({"same"} \cup {"weak"}) /\ IsFiniteSet({"champ"} \cup {"death"})
    BY <2>1, FS_Union
  <2>3. IsFiniteSet(({"same"} \cup {"weak"}) \cup ({"champ"} \cup {"death"}))
    BY <2>2, FS_Union
  <2>4. C \subseteq ({"same"} \cup {"weak"}) \cup ({"champ"} \cup {"death"})
    BY DEF Flags
  <2>. QED BY <2>3, <2>4, FS_Subset, FS_CardinalityType
<1>2. IsFiniteSet(D) /\ Cardinality(D) <= Cardinality(C)
  <2>1. g \in Surjection(C, D)
    BY DEF Surjection
  <2>. QED BY <1>1, <2>1, FS_Surjection
<1>3. DOMAIN s = D
  BY DEF Slots
<1>4. \A f, e \in C : SlotOf(f) = SlotOf(e) => f = e
  BY DEF SlotOf, Flags
<1>5. ASSUME NEW f \in C PROVE s[SlotOf(f)] = set(f)
  <2>1. (CHOOSE e \in C : SlotOf(e) = SlotOf(f)) = f
    BY <1>4
  <2>. QED BY <2>1 DEF Slots
<1>6. \A k \in D : s[k] \in S
  BY <1>5
<1>7. \A x \in S : \E k \in D : s[k] = x
  BY <1>5
<1>. HIDE DEF s, D, S
<1>8. Holds(s, S, Cardinality(C))
  BY <1>2, <1>3, <1>6, <1>7 DEF Holds
<1>. QED BY <1>1, <1>8 DEF CondAmm, S, s

\* When as many slots are there as are looked at, each set is in one of them.
LEMMA NoneIsForgotten ==
  ASSUME NEW s, NEW S, NEW n \in Nat, Holds(s, S, n), 0 .. n - 1 \subseteq DOMAIN s
  PROVE  (\A k \in 0 .. n - 1 : s[k] \in S) /\ \A x \in S : \E k \in 0 .. n - 1 : s[k] = x
<1>1. IsFiniteSet(DOMAIN s) /\ Cardinality(DOMAIN s) <= n
  BY DEF Holds
<1>2. Cardinality(0 .. n - 1) = n
  <2>1. 0 \in Int /\ n - 1 \in Int
    OBVIOUS
  <2>2. Cardinality(0 .. n - 1) = IF 0 > n - 1 THEN 0 ELSE n - 1 - 0 + 1
    BY <2>1, FS_Interval
  <2>. QED BY <2>2
<1>3. DOMAIN s = 0 .. n - 1 /\ Cardinality(DOMAIN s) = n
  <2>1. Cardinality(DOMAIN s) \in Nat /\ Cardinality(0 .. n - 1) <= Cardinality(DOMAIN s)
    BY <1>1, FS_Subset, FS_CardinalityType
  <2>2. Cardinality(DOMAIN s) = n
    BY <1>1, <1>2, <2>1
  <2>. QED BY <1>1, <1>2, <2>2, FS_Subset
<1>. QED BY <1>3 DEF Holds

(* Unless the process dies of a NULL slot, sorting the pointers forgets no
   restriction: what may be asked for is what is free and satisfies them all. *)
LEMMA NoRestrictionIsForgotten ==
  ASSUME NEW t, NEW h, NEW u, t[h].conds \subseteq Flags, SlotsPresent(t, h, u)
  PROVE  Candidates(t, h, u) = {c \in Free(t, u) : \A f \in t[h].conds : c \in SetOf(f, t, h, u)}
<1>. DEFINE n == CondAmm(t, h)
            S == {SetOf(f, t, h, u) : f \in t[h].conds}
            s == Sorted(t, h, u)
<1>1. n \in Nat /\ Holds(s, S, n)
  BY SlotsHold, SortHolds DEF Sorted
<1>2. 0 .. n - 1 \subseteq DOMAIN s
  BY DEF SlotsPresent
<1>3. (\A k \in 0 .. n - 1 : s[k] \in S) /\ \A x \in S : \E k \in 0 .. n - 1 : s[k] = x
  <2>. HIDE DEF n, s, S
  <2>. QED BY <1>1, <1>2, NoneIsForgotten
<1>4. ASSUME NEW c
      PROVE  (\A k \in 0 .. n - 1 : c \in s[k]) <=> \A f \in t[h].conds : c \in SetOf(f, t, h, u)
  <2>. HIDE DEF s, n
  <2>. QED BY <1>3
<1>. QED BY <1>4 DEF Candidates

\* What is moved depends on the slots that are there, not on what they hold.
LEMMA SortMovesTheSame ==
  ASSUME NEW s, NEW r, DOMAIN s = DOMAIN r
  PROVE  DOMAIN SortPointers(s) = DOMAIN SortPointers(r)
<1>. DEFINE m(v) == Move(Move(Move(v, 0, 1), 0, 2), 0, 3)
            v0(v) == IF 0 \in DOMAIN v THEN v ELSE m(v)
            w(v) == Move(Move(v, 1, 2), 1, 3)
            v1(v) == IF 1 \in DOMAIN v0(v) THEN v0(v) ELSE w(v0(v))
<1>1. ASSUME NEW a, NEW b, NEW f, NEW g, DOMAIN f = DOMAIN g
      PROVE  DOMAIN Move(f, a, b) = DOMAIN Move(g, a, b)
  BY <1>1 DEF Move
<1>2. ASSUME NEW f, NEW g, DOMAIN f = DOMAIN g
      PROVE  DOMAIN m(f) = DOMAIN m(g) /\ DOMAIN w(f) = DOMAIN w(g)
  <2>1. DOMAIN Move(f, 0, 1) = DOMAIN Move(g, 0, 1) /\ DOMAIN Move(f, 1, 2) = DOMAIN Move(g, 1, 2)
    BY <1>1, <1>2
  <2>2. DOMAIN Move(Move(f, 0, 1), 0, 2) = DOMAIN Move(Move(g, 0, 1), 0, 2)
    BY <1>1, <2>1
  <2>. QED BY <1>1, <2>1, <2>2
<1>. HIDE DEF m, w
<1>3. DOMAIN v0(s) = DOMAIN v0(r)
  BY <1>2
<1>. HIDE DEF v0
<1>4. DOMAIN v1(s) = DOMAIN v1(r)
  BY <1>2, <1>3
<1>5. ASSUME NEW f
      PROVE  SortPointers(f) = IF 2 \in DOMAIN v1(f) THEN v1(f) ELSE Move(v1(f), 2, 3)
  BY DEF SortPointers, v0, m, w
<1>6. DOMAIN Move(v1(s), 2, 3) = DOMAIN Move(v1(r), 2, 3)
  BY <1>1, <1>4
<1>. HIDE DEF v1
<1>. QED BY <1>4, <1>5, <1>6
=============================================================================
