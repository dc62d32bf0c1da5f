----------------------------- MODULE FileServer -----------------------------
(***************************************************************************)
(* What is promised to who leaves a file in a directory of the server: it  *)
(* is taken out of the directory, and then given to a worker once.         *)
(***************************************************************************)
EXTENDS Naturals

CONSTANT Files

VARIABLES inbox,   \* the files in the directory
          taken,   \* those that have been moved to processed
          given    \* how many times each has been given to a worker

fvars == <<inbox, taken, given>>

Init ==
  /\ inbox = {} /\ taken = {}
  /\ given = [f \in Files |-> 0]

Arrive(f) ==
  /\ f \notin inbox \cup taken
  /\ inbox' = inbox \cup {f}
  /\ UNCHANGED <<taken, given>>

Take(f) ==
  /\ f \in inbox
  /\ inbox' = inbox \ {f} /\ taken' = taken \cup {f}
  /\ UNCHANGED given

\* Some of those taken go to a worker together.
Give(some) ==
  /\ \A f \in some : given[f] = 0
  /\ given' = [f \in Files |-> given[f] + (IF f \in some THEN 1 ELSE 0)]
  /\ UNCHANGED <<inbox, taken>>

Next ==
  \/ \E f \in Files : Arrive(f) \/ Take(f)
  \/ \E some \in SUBSET taken : Give(some)

Spec == Init /\ [][Next]_fvars
=============================================================================
