------------------------------ MODULE MCServer ------------------------------
(* A small instance of ServerProperties. *)
EXTENDS ServerProperties

\* Two tables, a table and an empty file, a table and a circuit, two circuits.
Mixed == {{"p1", "p2"}, {"p1", "p3"}, {"p1", "c1"}, {"c1", "c2"}}

\* A single circuit.
Lone == {{"c1"}}
=============================================================================
