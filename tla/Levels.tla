------------------------------- MODULE Levels -------------------------------
(***************************************************************************)
(* The evaluation of a level of a circuit (levels.c).                      *)
(*                                                                         *)
(* A gate is a record of its name, its type, the names of its fathers      *)
(* (NoName where there is none), its two inputs and its output; a level is *)
(* a sequence of gates.  An input or an output not known yet is -1.        *)
(***************************************************************************)
EXTENDS Integers, Sequences

CONSTANT Names   \* the names a gate may have

NoName == ""
Unknown == -1
Types == {"AND", "OR", "XOR", "NAND", "NOR", "XNOR"}

\* The integers the operators of C make of 0, 1 and -1: two bits, one of them
\* the sign.
Word == -2 .. 1
WordOf(sign, low) == (IF low THEN 1 ELSE 0) - (IF sign THEN 2 ELSE 0)

Gate == [name : Names, type : Types, fathers : (Names \cup {NoName}) \X (Names \cup {NoName}),
         output : Word, input : Word \X Word]

-----------------------------------------------------------------------------
And(a, b) == WordOf(a < 0 /\ b < 0, a % 2 = 1 /\ b % 2 = 1)
\* Mutant: the inputs are added.
OrAdds(a, b) == a + b
Or(a, b) == WordOf(a < 0 \/ b < 0, a % 2 = 1 \/ b % 2 = 1)
Xor(a, b) == WordOf((a < 0) # (b < 0), a % 2 # b % 2)
Not(a) == IF a = 0 THEN 1 ELSE 0

GateHandler(type, in1, in2) ==
  CASE type = "AND"  -> And(in1, in2)
    [] type = "OR"   -> Or(in1, in2)
    [] type = "XOR"  -> Xor(in1, in2)
    [] type = "NAND" -> Not(And(in1, in2))
    [] type = "NOR"  -> Not(Or(in1, in2))
    [] type = "XNOR" -> Not(Xor(in1, in2))

\* The output of the first gate of that name.
InputFromFather(prev, fa) ==
  LET found == {k \in DOMAIN prev : prev[k].name = fa}
  IN  IF found = {} THEN Unknown
      ELSE prev[CHOOSE k \in found : \A m \in found : k <= m].output

\* Mutant: a father always feeds the first input.
FeedFirst(prev, fa, g) ==
  IF fa = NoName THEN g ELSE [g EXCEPT !.input[1] = InputFromFather(prev, fa)]

\* The output of a father goes to the first input unless it is known already.
Feed(prev, fa, g) ==
  IF fa = NoName THEN g
  ELSE IF g.input[1] = Unknown THEN [g EXCEPT !.input[1] = InputFromFather(prev, fa)]
  ELSE [g EXCEPT !.input[2] = InputFromFather(prev, fa)]

\* notFirst tells whether the level has one before it.
EvaluateLevel(prev, cur, notFirst) ==
  [k \in DOMAIN cur |->
     LET g == IF notFirst
              THEN Feed(prev, cur[k].fathers[2], Feed(prev, cur[k].fathers[1], cur[k]))
              ELSE cur[k]
     IN  [g EXCEPT !.output = GateHandler(g.type, g.input[1], g.input[2])]]
=============================================================================
