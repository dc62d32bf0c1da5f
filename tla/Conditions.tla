----------------------------- MODULE Conditions -----------------------------
(***************************************************************************)
(* The restrictions a grouph evaluates before it asks fifa for a country   *)
(* (conditions.c, and checkConditions, sortPointers and intersect of       *)
(* grouph.c), as pure operators on a table of countries.                   *)
(*                                                                         *)
(* A table t is a function from 0 .. n-1 to records: the fields of struct  *)
(* country that a decision depends on.  The four restriction flags of a    *)
(* head are one set, "conds".  The flag "used" is not in the table: every  *)
(* process has its own copy of it, given here as the set `used'.           *)
(***************************************************************************)
EXTENDS Integers, FiniteSets

Flags == {"same", "weak", "champ", "death"}

WeakLimit == 4

Country == [continent : Nat, champ : BOOLEAN, weight : Nat,
            isHead : BOOLEAN, conds : SUBSET Flags]

(***************************************************************************)
(* What each condition thread collects.                                    *)
(***************************************************************************)
Free(t, used) == DOMAIN t \ used

SameContinent(t, h, used) ==
  {c \in Free(t, used) : t[c].continent # t[h].continent}

\* Mutant: the boundary belongs to both kinds of group.
DeathGroupFromLimit(t, used) == {c \in Free(t, used) : t[c].weight >= WeakLimit}

DeathGroup(t, used) == {c \in Free(t, used) : t[c].weight > WeakLimit}

\* Mutant: the boundary belongs to neither.
WeakGroupBelowLimit(t, used) == {c \in Free(t, used) : t[c].weight < WeakLimit}

WeakGroup(t, used) == {c \in Free(t, used) : t[c].weight <= WeakLimit}

ChampGroup(t, used) ==
  LET champs == {c \in Free(t, used) : t[c].champ}
  IN  IF champs = {} THEN Free(t, used) ELSE champs

(***************************************************************************)
(* condArgs->sets: the thread of a condition writes the slot of that       *)
(* condition.  A slot that nobody writes holds NULL; here it is outside    *)
(* the domain.                                                             *)
(***************************************************************************)
SlotOf(f) == CASE f = "same" -> 0 [] f = "death" -> 1
               [] f = "champ" -> 2 [] f = "weak" -> 3

SetOf(f, t, h, used) == CASE f = "same"  -> SameContinent(t, h, used)
                          [] f = "death" -> DeathGroup(t, used)
                          [] f = "champ" -> ChampGroup(t, used)
                          [] f = "weak"  -> WeakGroup(t, used)

Slots(t, h, used) ==
  [k \in {SlotOf(f) : f \in t[h].conds} |->
     SetOf(CHOOSE f \in t[h].conds : SlotOf(f) = k, t, h, used)]

\* One turn of the inner loop of sortPointers.
Move(s, j, i) ==
  IF i \in DOMAIN s
  THEN [k \in (DOMAIN s \ {i}) \cup {j} |-> IF k = j THEN s[i] ELSE s[k]]
  ELSE s

\* sortPointers: slot j is tested for NULL once, before its inner loop.
SortPointers(s) ==
  LET s0 == IF 0 \in DOMAIN s THEN s
            ELSE Move(Move(Move(s, 0, 1), 0, 2), 0, 3)
      s1 == IF 1 \in DOMAIN s0 THEN s0 ELSE Move(Move(s0, 1, 2), 1, 3)
  IN  IF 2 \in DOMAIN s1 THEN s1 ELSE Move(s1, 2, 3)

(***************************************************************************)
(* The body of buildSubfixture between two requests: which countries may   *)
(* be asked for, and when the process dies of a NULL slot instead.         *)
(***************************************************************************)
CondAmm(t, h) == Cardinality(t[h].conds)

Sorted(t, h, used) ==
  IF CondAmm(t, h) >= 2 THEN SortPointers(Slots(t, h, used))
  ELSE Slots(t, h, used)

\* The slots that are dereferenced, sets[0] .. sets[condAmm - 1], all exist.
SlotsPresent(t, h, used) ==
  0 .. (CondAmm(t, h) - 1) \subseteq DOMAIN Sorted(t, h, used)

Candidates(t, h, used) ==
  {c \in Free(t, used) :
     \A k \in 0 .. (CondAmm(t, h) - 1) : c \in Sorted(t, h, used)[k]}

\* noCondition with nothing free reads and reallocates a pointer that was
\* never initialised; the C library aborts the process.
Dies(t, h, used) ==
  \/ CondAmm(t, h) = 0 /\ Free(t, used) = {}
  \/ ~ SlotsPresent(t, h, used)
=============================================================================
