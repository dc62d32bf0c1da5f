------------------------------- MODULE Barrier -------------------------------
(***************************************************************************)
(* What the start of the transport promises: a child goes on only when the *)
(* father has heard from all of them.                                      *)
(***************************************************************************)
CONSTANT Children

VARIABLES arrived,   \* the children the father has heard from
          released   \* the children that have gone on

bvars == <<arrived, released>>

Init == arrived = {} /\ released = {}

Arrive(c) ==
  /\ c \notin arrived
  /\ arrived' = arrived \cup {c}
  /\ UNCHANGED released

Release(c) ==
  /\ arrived = Children
  /\ released' = released \cup {c}
  /\ UNCHANGED arrived

Next == \E c \in Children : Arrive(c) \/ Release(c)

Spec == Init /\ [][Next]_bvars
=============================================================================
