------------------------------ MODULE Solving ------------------------------
(***************************************************************************)
(* What the pipeline promises of a batch of circuits: each is solved one   *)
(* level after another, and its result is published, once, when the last   *)
(* level is.                                                               *)
(***************************************************************************)
EXTENDS Naturals

CONSTANT Files   \* the circuits of the batch

VARIABLES depth,      \* how many levels each has
          solved,     \* how many levels of each are solved
          published   \* how often the result of each has been published

svars == <<depth, solved, published>>

Init ==
  /\ depth \in [Files -> Nat \ {0}]
  /\ solved = [f \in Files |-> 0]
  /\ published = [f \in Files |-> 0]

Solve(f) ==
  /\ solved[f] < depth[f]
  /\ solved' = [solved EXCEPT ![f] = @ + 1]
  /\ UNCHANGED <<depth, published>>

Publish(f) ==
  /\ solved[f] = depth[f]
  /\ published[f] = 0
  /\ published' = [published EXCEPT ![f] = 1]
  /\ UNCHANGED <<depth, solved>>

Next == \E f \in Files : Solve(f) \/ Publish(f)

Spec == Init /\ [][Next]_svars
=============================================================================
