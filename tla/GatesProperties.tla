--------------------------- MODULE GatesProperties ---------------------------
(***************************************************************************)
(* What is expected of the pipeline of circuits.                           *)
(***************************************************************************)
EXTENDS Gates, CircuitMeaning

(* The type invariant: what the variables of gates, its children and their
   pipes may hold. *)
TypeOK ==
  /\ table \in [Files -> Circuit]
  /\ level \in [Files -> Int]
  /\ gpc \in {"round", "send", "listen", "scan", "rows", "save", "reap", "end"}
  /\ i \in 0 .. QtyFiles
  /\ pid \in [Files -> {"none", "unread", "read"}]
  /\ ready \subseteq Files
  /\ left \in 0 .. QtyFiles
  /\ gpc = "rows" => /\ cur[1] \in Files /\ cur[2] \in 0 .. MaxLevel(cur[1]) - 1
                     /\ row \in 1 .. Len(table[cur[1]][cur[2] + 1])
  /\ saved \in [Files -> Seq(Circuit)]
  /\ status \in {"open", "ok", "error", "killed"}
  /\ cpc \in [Files -> {"none", "job", "answer", "exit", "dead"}]
  /\ faults \in 0 .. MaxFaults

-----------------------------------------------------------------------------
\* The circuits of the batches, with their values.  That they have a meaning is
\* what the parser makes of files in the format of pipe (CircuitXml).
Circuits == UNION {{b[f] : f \in Files} : b \in Batches}
Meaning == [c \in Circuits |-> Value(c)]

ASSUME CircuitsAssumption == \A c \in Circuits : Meaningful(c)

\* The gates of c alone, without what an evaluation fills in.
Form(c) == [k \in DOMAIN c |->
              [m \in DOMAIN c[k] |-> <<c[k][m].name, c[k][m].type, c[k][m].fathers>>]]

\* The batch that came, as long as its tables keep their form: two batches
\* differ in it, so that the form tells which one came.
ASSUME FormsAssumption ==
  \A b, d \in Batches : (\A f \in Files : Form(b[f]) = Form(d[f])) => b = d

TheBatch == CHOOSE b \in Batches : \A f \in Files : Form(table[f]) = Form(b[f])

\* The outputs of level k of c are what the circuit b means.
Solved(c, k, b) ==
  \A m \in DOMAIN c[k] : c[k][m].output = IF Meaning[b][k][c[k][m].name] THEN 1 ELSE 0

-----------------------------------------------------------------------------
(* While nothing fails, what is written of a file, in the round of its last
   level, is the whole solution of the circuit that came in this file: no level
   of it was still out, or computed from one that was. *)
SavedIsRight ==
  faults = 0 =>
  \E b \in Batches :
    \A f \in Files :
      /\ Form(table[f]) = Form(b[f])
      /\ \A s \in DOMAIN saved[f] :
           /\ Form(saved[f][s]) = Form(b[f])
           /\ \A k \in DOMAIN saved[f][s] : Solved(saved[f][s], k, b[f])

(* Every round has work: files that are done never leave a gap before the
   files that still have to begin, so no round waits for nobody. *)
EveryRoundWorks == gpc = "send" => \E f \in Files : Active(f)

-----------------------------------------------------------------------------
\* How many levels of a file are complete.
SolvedLevels(f) == Cardinality({k \in DOMAIN table[f] : Solved(table[f], k, TheBatch[f])})

TheSolving == INSTANCE Solving WITH
  depth <- [f \in Files |-> MaxLevel(f)],
  solved <- [f \in Files |-> SolvedLevels(f)],
  published <- [f \in Files |-> Len(saved[f])]

(* While nothing fails, the rounds, children and pipes solve the circuits of a
   batch level after level and publish each result once. *)
SolvingSpec ==
  TheSolving!Init /\ [][faults' = 0 => TheSolving!Next]_(TheSolving!svars)

(* While nothing fails the batch ends, and then the result of every circuit has
   been written. *)
BatchEnds == [](faults = 0) => <>(gpc = "end" /\ \A f \in Files : Len(saved[f]) = 1)

(* gates always ends, also when children die or are slow: it never waits for an
   answer that cannot come. *)
GatesEnds == <>(gpc = "end")
=============================================================================
