------------------------------ MODULE MCQueue ------------------------------
(* Small instances of QueueProperties. *)
EXTENDS QueueProperties

\* A job of two messages and an answer of two, as from gates to levels; a table,
\* a request and its reply, and the group, as from fifa to grouph.
Both == {<<"f", "f", "c", "c">>, <<"f", "c", "f", "c">>}
=============================================================================
