--------------------------- MODULE CircuitMeaning ---------------------------
(***************************************************************************)
(* What a circuit means, beside how levels evaluates it: the reference for *)
(* Gates and for CircuitXml.                                               *)
(***************************************************************************)
EXTENDS Levels, FiniteSets

(***************************************************************************)
(* The value of a gate, by what a circuit means and not by how it is       *)
(* evaluated: each gate combines two signals, the inputs it is given and   *)
(* its fathers, and no operator tells its two signals apart.               *)
(***************************************************************************)
Combine(type, ones) ==
  CASE type = "AND"  -> ones = 2
    [] type = "OR"   -> ones >= 1
    [] type = "XOR"  -> ones = 1
    [] type = "NAND" -> ones < 2
    [] type = "NOR"  -> ones = 0
    [] type = "XNOR" -> ones # 1

\* Whether the s-th father of g is one, by the values of the level before.
Signal(g, s, before) == g.fathers[s] # NoName /\ before[g.fathers[s]]

\* The signals of g that are one.
Ones(g, before) == Cardinality({s \in {1, 2} : g.input[s] = 1})
                     + Cardinality({s \in {1, 2} : Signal(g, s, before)})

\* The values of the gates of a level, by their names.
LevelValue(gates, before) ==
  [n \in {gates[m].name : m \in DOMAIN gates} |->
     LET m == CHOOSE m \in DOMAIN gates : gates[m].name = n
     IN  Combine(gates[m].type, Ones(gates[m], before))]

\* Value(c)[k][n] is the value of gate n of level k of circuit c.
Value(c) ==
  LET value[k \in 0 .. Len(c)] == IF k = 0 THEN <<>> ELSE LevelValue(c[k], value[k - 1])
  IN  [k \in DOMAIN c |-> value[k]]

\* What has a meaning: in a level every name is there once (checkGateIsLoaded
\* makes it so), a father is a gate of the level before, and each gate has two
\* signals, a father for every input that is not given.
Missing(g) == {s \in {1, 2} : g.input[s] = Unknown}
Fathers(g) == {s \in {1, 2} : g.fathers[s] # NoName}

Meaningful(c) ==
  \A k \in DOMAIN c :
    /\ \A m, n \in DOMAIN c[k] : c[k][m].name = c[k][n].name => m = n
    /\ \A m \in DOMAIN c[k] :
         /\ c[k][m].output = Unknown
         /\ c[k][m].input \in {0, 1, Unknown} \X {0, 1, Unknown}
         /\ Cardinality(Missing(c[k][m])) = Cardinality(Fathers(c[k][m]))
         /\ \A s \in Fathers(c[k][m]) :
              k > 1 /\ \E n \in DOMAIN c[k - 1] : c[k - 1][n].name = c[k][m].fathers[s]
=============================================================================
