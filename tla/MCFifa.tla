------------------------------- MODULE MCFifa -------------------------------
(* Small instances of FifaProperties. *)
EXTENDS FifaProperties

\* A country of continent k, weak or strong, champion or not.
Plain(k, w, ch) == [continent |-> k, champ |-> ch, weight |-> w,
                    isHead |-> FALSE, conds |-> {}]
Seed(k, cs) == [continent |-> k, champ |-> FALSE, weight |-> 6,
                isHead |-> TRUE, conds |-> cs]

\* Four countries of two continents; three of them weak, one a champion.
Pot == << Plain(1, 3, TRUE), Plain(1, 6, FALSE), Plain(2, 4, FALSE), Plain(2, 5, FALSE) >>

TableOf(t) == [c \in 0 .. Len(t) - 1 |-> t[c + 1]]

\* Six countries, the two heads first, with restrictions a and b.
WithHeads(a, b) == TableOf(<<Seed(1, a), Seed(2, b)>> \o Pot)

\* The second head is missing: there are two groups and one grouph.
HeadMissing == TableOf(<<Seed(1, {}), Plain(2, 6, FALSE)>> \o Pot)

Slow == {WithHeads({}, {})}
Mixed == {WithHeads({}, {"same"}), WithHeads({"same"}, {"same", "champ"}),
          WithHeads({"same", "death"}, {"same", "weak"}),
          WithHeads({"same", "weak"}, {"weak"}), HeadMissing}
=============================================================================
