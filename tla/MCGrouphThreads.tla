--------------------------- MODULE MCGrouphThreads ---------------------------
(* Small instances of GrouphThreadsProperties. *)
EXTENDS GrouphThreadsProperties

Row(k, w, ch) == [continent |-> k, champ |-> ch, weight |-> w,
                  isHead |-> FALSE, conds |-> {}]

\* A head with restrictions cs, and six countries.
With(cs) ==
  LET rows == << [Row(1, 6, FALSE) EXCEPT !.isHead = TRUE, !.conds = cs],
                 Row(2, 3, TRUE), Row(1, 4, TRUE), Row(2, 5, FALSE),
                 Row(3, 4, FALSE), Row(2, 2, FALSE), Row(3, 6, TRUE) >>
  IN  [c \in 0 .. 6 |-> rows[c + 1]]

\* The pairs the generator of files writes, and more.
Many == {With({"same", "weak"}), With({"same", "champ"}), With({"same", "death"}),
         With({"same", "champ", "death"}), With({"same", "champ", "death", "weak"})}

\* What is taken when the table arrives: the head, and perhaps two more.
TakenSets == {{0}, {0, 1, 5}}
=============================================================================
