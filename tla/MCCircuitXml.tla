---------------------------- MODULE MCCircuitXml ----------------------------
(* The circuits of bin/testFiles, with other types and inputs. *)
EXTENDS CircuitXml

GateNames == {"A", "B", "C", "D", "E", "F", "G", "H", "I"}

ATag(n, t, a, b, last) == [name |-> n, type |-> t, input |-> <<a, b>>, last |-> last]

Bit == {0, 1}

\* circuit1.xml: a gate fed from inside one tag, from two tags of one level,
\* and from a tag and an input.
Circuit1(t, u, v, a, b, d) ==
  << ATag("A", "AND", 1, a, 5),
       ATag("C", t, -1, -1, 3),
         ATag("E", v, -1, -1, 3),
       ATag("D", u, d, -1, 5),
         ATag("E", v, -1, -1, 5),
     ATag("B", "XOR", b, a, 7),
       ATag("C", t, -1, -1, 7) >>

\* circuit4.xml, with I at the end of two ways of four levels, the input of H
\* in the second place.
Circuit4(t, u, v, a, e, h) ==
  << ATag("A", "AND", 1, a, 2),
       ATag("C", t, -1, -1, 2),
     ATag("B", "OR", 0, a, 6),
       ATag("C", t, -1, -1, 6),
         ATag("E", u, e, -1, 6),
           ATag("I", v, -1, -1, 6),
     ATag("D", "NAND", 1, 0, 10),
       ATag("G", "NOR", -1, -1, 10),
         ATag("H", u, -1, h, 10),
           ATag("I", v, -1, -1, 10),
     ATag("F", "XNOR", a, 0, 12),
       ATag("G", "NOR", -1, -1, 12) >>

TestFiles ==
  {Circuit1(t, u, v, a, b, d) : t, u, v \in Types, a, b, d \in Bit}
    \cup {Circuit4(t, u, v, a, e, h) : t, u, v \in Types, a, e, h \in Bit}
=============================================================================
