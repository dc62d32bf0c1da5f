------------------------------- MODULE MCGates -------------------------------
(* Small instances of GatesProperties. *)
EXTENDS GatesProperties

GateNames == {"A", "B", "C", "D"}

\* A gate with given inputs, one with an input and a father, one with two fathers.
Given(n, t, a, b) == [name |-> n, type |-> t, fathers |-> <<"", "">>,
                        output |-> -1, input |-> <<a, b>>]
OneFather(n, t, a, fa) == [name |-> n, type |-> t, fathers |-> <<fa, "">>,
                           output |-> -1, input |-> <<a, -1>>]
TwoFathers(n, t, fa, fb) == [name |-> n, type |-> t, fathers |-> <<fa, fb>>,
                             output |-> -1, input |-> <<-1, -1>>]

\* Circuits of one, two and three levels.
Shallow(t) == << <<Given("A", t, 1, 1)>> >>
Middle(t) == << <<Given("A", t, 1, 1), Given("B", "XOR", 1, 1)>>,
                <<TwoFathers("C", "OR", "B", "A")>> >>
Deep(t) == << <<Given("A", "NOR", 0, 0), Given("B", t, 0, 1)>>,
              <<TwoFathers("C", t, "A", "B")>>,
              <<OneFather("D", "NAND", 1, "C")>> >>

Batch(s) == [f \in 0 .. Len(s) - 1 |-> s[f + 1]]

\* Three files, of which the first may be the shortest or the longest.
Three == {Batch(<<Shallow("OR"), Deep("AND"), Middle("NAND")>>),
          Batch(<<Deep("XNOR"), Middle("AND"), Shallow("XNOR")>>)}
=============================================================================
