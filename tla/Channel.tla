------------------------------- MODULE Channel -------------------------------
(***************************************************************************)
(* What a transport promises on each of its lines, one per direction and   *)
(* child: what is said is heard once, in order and unchanged.              *)
(***************************************************************************)
EXTENDS Sequences, Naturals

CONSTANTS Lines,     \* who says something to whom
          Messages   \* what may be said

VARIABLES said,   \* what has been given to writeIPC on each line
          heard   \* what readIPC has given on each line

cvars == <<said, heard>>

Init ==
  /\ said = [l \in Lines |-> <<>>]
  /\ heard = [l \in Lines |-> <<>>]

\* The message is named by where it is found afterwards, so that Messages may be
\* an infinite set.
Say(l) ==
  LET m == said'[l][Len(said'[l])] IN
  /\ said'[l] # <<>> /\ m \in Messages
  /\ said' = [said EXCEPT ![l] = Append(@, m)]
  /\ UNCHANGED heard

Hear(l) ==
  /\ Len(heard[l]) < Len(said[l])
  /\ heard' = [heard EXCEPT ![l] = Append(@, said[l][Len(@) + 1])]
  /\ UNCHANGED said

Next == \E l \in Lines : Say(l) \/ Hear(l)

Spec == Init /\ [][Next]_cvars
=============================================================================
