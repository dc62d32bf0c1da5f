-------------------------- MODULE ServerProperties --------------------------
(***************************************************************************)
(* What is expected of the server.                                         *)
(***************************************************************************)
EXTENDS Server

CountriesServed ==
  INSTANCE FileServer WITH Files <- CountryFiles
CircuitsServed ==
  INSTANCE FileServer WITH Files <- CircuitFiles, inbox <- qinbox, taken <- qtaken,
                           given <- qgiven

(* No table of countries goes to two fifas, nor to one before its file is out of
   the directory where it would be found again; no circuit goes to a gates twice,
   although files come while a batch is being read and may be in it or in the next
   one. *)
ServedSpec == CountriesServed!Spec /\ CircuitsServed!Spec

-----------------------------------------------------------------------------
SentCircuits == {f \in CircuitFiles : qgiven[f] > 0}

(* A parallel that returns because it was told to leaves no file half done: what
   it has moved has been drawn, or its fifa has died, and no fifa is left. *)
NothingHalfDone ==
  ppc = "returned" =>
    /\ \A f \in taken \ Empty : given[f] = 1 /\ fifa[f] \in FifaOver
    /\ \A f \in CountryFiles : fifa[f] \in FifaOver \cup {"none"}

(* What pipe has moved and not sent is what it has in its table: an interruption
   loses no more than the batch it falls on. *)
OnlyTheBatchIsLost ==
  LET unsent == qtaken \ SentCircuits
  IN  /\ qpc \notin {"count", "handler"} \cup PipeOver => unsent = InTable
      /\ unsent \subseteq InTable

(* The count that pipe prints when it is interrupted never exceeds what it has
   sent, and lacks at most the batch that was under way. *)
ReportIsHonest ==
  reported # NotReported =>
    /\ reported <= Cardinality(SentCircuits)
    /\ Cardinality(SentCircuits) - reported \in {0, Len(table)}

(* main does not end before the programs it has started, nor pipe before its
   gates when it was interrupted. *)
ParentsEndLast ==
  /\ mpc = "ended" => ParallelGone /\ PipeGone
  /\ qpc = "exited" => gates \in GatesOver

-----------------------------------------------------------------------------
\* Nobody interrupts and nothing goes wrong.
Quiet == sent = "nobody" /\ ~ wrong /\ ~ broken

\* A file of countries that arrives gets a fifa of its own that draws it.
CountriesAreDrawn ==
  \A f \in CountryFiles \ Empty :
    []Quiet => (f \in inbox ~> fifa[f] = "ended")

\* A circuit that arrives is solved, when the directory holds a third entry beside . and ..
CircuitsAreSolved ==
  \A f \in CircuitFiles :
    ([]Quiet /\ others = 3) => (f \in qinbox ~> (qgiven[f] = 1 /\ gates = "ended"))

(* Every file that arrives is taken and worked on to the end, if the server is
   left alone: neither listener overlooks a file for ever, and none waits for
   ever for a fifa or a gates that waits for it.  (That nothing goes wrong includes
   that the draw and the batch do not hang: when they do is in Fifa and Gates.) *)
FilesAreServed == CountriesAreDrawn /\ CircuitsAreSolved

(* The same of a directory that is no working copy: the report asks that all the
   files in it be consumed, and a single circuit never is. *)
EveryCircuitIsSolved ==
  \A f \in CircuitFiles : []Quiet => (f \in qinbox ~> qgiven[f] = 1)

\* parallel waits for a fifa that does not end.
ParallelIsHeld == ppc = "reap" /\ \E f \in CountryFiles : fifa[f] = "hangs"

\* pipe waits in its handler for a gates that waits for pipe, or does not end.
PipeIsHeld == qpc = "handler" /\ gates \in {"waits", "loads", "hangs"}

(* SIGINT ends the whole server, once both programs listen: parallel unless it is
   left with a fifa that hangs, which Ctrl-C has killed if it was running its
   program; pipe always after Ctrl-C, and after a signal to main alone unless it
   finds a gates that has no table yet or hangs; and main after both. *)
InterruptEnds ==
  (sent # "nobody" /\ ~ early)
    ~> /\ ParallelGone \/ ParallelIsHeld
       /\ PipeGone \/ (sent = "main" /\ PipeIsHeld)
       /\ ParallelGone /\ PipeGone => mpc = "ended"
=============================================================================
