------------------------------- MODULE MCRing -------------------------------
(* Small instances of RingProperties. *)
EXTENDS RingProperties

\* Conversations of four messages of one, two or three bytes; of three with one
\* that is larger than a ring.
Message(sizes) == [from : Sides, size : sizes]
Four == [1 .. 4 -> Message({1, 2, 3})]
Large == [1 .. 3 -> Message({2, 3, 4})]
Talkative == Four \cup Large

\* The father speaks twice, over the end of the ring, and waits for an answer.
Wrapping == {<<[from |-> "father", size |-> 3], [from |-> "father", size |-> 3],
               [from |-> "child", size |-> 1]>>}
=============================================================================
