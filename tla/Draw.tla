-------------------------------- MODULE Draw --------------------------------
(***************************************************************************)
(* What the draw of a fixture promises, whatever processes carry it out:   *)
(* the countries of a pot go, one at a time and each at most once, to      *)
(* groups that accept them; a solution is announced only when every group  *)
(* is complete, and it is exactly what was given out.                      *)
(***************************************************************************)
EXTENDS Naturals, FiniteSets

CONSTANTS Groups,     \* the groups of the fixture
          Countries,  \* the countries of the table
          Places      \* how many countries a group receives

VARIABLES pot,        \* the countries nobody has received
          allowed,    \* which countries each group accepts
          given,      \* the countries each group has received
          announced,  \* the published fixture
          outcome     \* "open", or how the draw ended

dvars == <<pot, allowed, given, announced, outcome>>

Nobody == [g \in Groups |-> {}]

Init ==
  /\ pot \in SUBSET Countries
  /\ allowed \in [Groups -> SUBSET Countries]
  /\ given = Nobody
  /\ announced = Nobody
  /\ outcome = "open"

Give(g, c) ==
  /\ outcome = "open"
  /\ c \in pot \cap allowed[g]
  /\ Cardinality(given[g]) < Places
  /\ pot' = pot \ {c}
  /\ given' = [given EXCEPT ![g] = @ \cup {c}]
  /\ UNCHANGED <<allowed, announced, outcome>>

Announce ==
  /\ outcome = "open"
  /\ \A g \in Groups : Cardinality(given[g]) = Places
  /\ announced' = given
  /\ outcome' = "solution"
  /\ UNCHANGED <<pot, allowed, given>>

GiveUp ==
  /\ outcome = "open"
  /\ outcome' \in {"no solution", "error", "killed"}
  /\ pot' \in SUBSET pot  \* what is left of the pot no longer matters
  /\ UNCHANGED <<allowed, given, announced>>

Next ==
  \/ \E g \in Groups, c \in Countries : Give(g, c)
  \/ Announce
  \/ GiveUp

Spec == Init /\ [][Next]_dvars
=============================================================================
