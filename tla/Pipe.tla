-------------------------------- MODULE Pipe --------------------------------
(***************************************************************************)
(* pipe: collects the circuits found in pipeDir in a table, sends them all *)
(* to a gates of its own and waits for it before the next ones.  What a    *)
(* signal does to pipe and to gates is here; when one comes is up to       *)
(* Server.  The parser is in CircuitXml, the work of gates in Gates.       *)
(***************************************************************************)
EXTENDS Naturals, Sequences, FiniteSets

CONSTANTS
  CircuitFiles,  \* the names of the files that may arrive
  OtherEntries,  \* how many entries of pipeDir may not be circuits
  PipeMayFail    \* bound: may one thing go wrong, with a file or a gates

ASSUME OtherEntriesAssumption == OtherEntries \subseteq {2, 3}
ASSUME PipeMayFailAssumption == PipeMayFail \in BOOLEAN

VARIABLES
  others,     \* . and .., and .svn where the directory is a working copy
  qinbox,     \* the files in pipeDir
  qtaken,     \* the circuits in processed
  qpc,        \* where createsGates and fileListener are
  listing,    \* the files that readdir is still to give
  table,      \* the circuits collected; pos is its length
  gates,      \* the gates of the batch
  qgiven,     \* how many times each circuit has been sent to a gates
  total,      \* totalProccessFiles
  reported,   \* what pipe has printed at its end
  broken      \* something has gone wrong

pipeVars == <<others, qinbox, qtaken, qpc, listing, table, gates, qgiven, total,
              reported, broken>>

GatesOver == {"none", "ended", "dead"}
PipeOver == {"exited", "killed", "failed"}
NotReported == 99

PipeInit ==
  /\ others \in OtherEntries
  /\ qinbox = {} /\ qtaken = {}
  /\ qpc = "unborn" /\ listing = {} /\ table = <<>>
  /\ gates = "none"
  /\ qgiven = [f \in CircuitFiles |-> 0]
  /\ total = 0 /\ reported = NotReported
  /\ broken = FALSE

\* Somebody leaves a file in pipeDir; a readdir that has begun gives it or not.
CircuitFileArrives(f) ==
  /\ f \notin qinbox \cup qtaken
  /\ qinbox' = qinbox \cup {f}
  /\ \/ qpc = "read" /\ listing' = listing \cup {f}
     \/ UNCHANGED listing
  /\ UNCHANGED <<others, qtaken, qpc, table, gates, qgiven, total, reported, broken>>

-----------------------------------------------------------------------------
(***************************************************************************)
(* createsGates                                                            *)
(***************************************************************************)
\* signal, createTable
PipeListens ==
  /\ qpc = "start" /\ qpc' = "fork"
  /\ UNCHANGED <<others, qinbox, qtaken, listing, table, gates, qgiven, total, reported, broken>>

\* setupIPC and fork.  signalFlag is TRUE here: its handler does not return.
StartGates ==
  /\ qpc = "fork"
  /\ gates' = "starts" /\ qpc' = "sync"
  /\ UNCHANGED <<others, qinbox, qtaken, listing, table, qgiven, total, reported, broken>>

SynchronizeGates ==
  /\ qpc = "sync" /\ gates = "waits"
  /\ gates' = "loads" /\ qpc' = "listen"
  /\ UNCHANGED <<others, qinbox, qtaken, listing, table, qgiven, total, reported, broken>>

\* Mutant: the directory itself is not counted.
GetFilesAmmBut == Cardinality(qinbox) + others - 1

\* getFilesAmm counts the entries of the directory, whatever they are.
GetFilesAmm == Cardinality(qinbox) + others

\* A second goes by until there are more than three entries; rewinddir.
FilesSeen ==
  /\ qpc = "listen" /\ GetFilesAmm > 3
  /\ qpc' = "read" /\ listing' = qinbox
  /\ UNCHANGED <<others, qinbox, qtaken, table, gates, qgiven, total, reported, broken>>

\* The next entry of the directory: parsed, put in the table and moved.
Collect(f) ==
  /\ qpc = "read" /\ f \in listing
  /\ listing' = listing \ {f}
  /\ qinbox' = qinbox \ {f} /\ qtaken' = qtaken \cup {f}
  /\ table' = Append(table, f)
  /\ UNCHANGED <<others, qpc, gates, qgiven, total, reported, broken>>

\* readdir has given all.  The directory is not rewound before it is counted
\* again, so it counts as empty and the rest waits for the next gates.
EndOfDirectory ==
  /\ qpc = "read" /\ listing = {}
  /\ qpc' = "send"
  /\ UNCHANGED <<others, qinbox, qtaken, listing, table, gates, qgiven, total, reported, broken>>

\* A file that does not open: errno is no -1, the table is freed and then sent.
\* One that is no circuit: its first level is read from a NULL table.  One that
\* cannot be moved: pipe returns.
FileIsBad ==
  /\ qpc = "read" /\ listing # {} /\ PipeMayFail /\ ~ broken
  /\ qpc' \in {"killed", "failed"} /\ broken' = TRUE
  /\ UNCHANGED <<others, qinbox, qtaken, listing, table, gates, qgiven, total, reported>>

InTable == {table[k] : k \in DOMAIN table}

\* Mutant: one circuit is sent, whatever the count.
SendTableToGatesOne ==
  /\ qpc = "send" /\ gates = "loads"
  /\ qgiven' = [qgiven EXCEPT ![table[1]] = @ + 1]
  /\ gates' = "works" /\ qpc' = "count"
  /\ UNCHANGED <<others, qinbox, qtaken, listing, table, total, reported, broken>>

\* sendTableToGates: pos, and then each circuit, which gates builds its own from.
SendTableToGates ==
  /\ qpc = "send" /\ gates = "loads"
  /\ qgiven' = [f \in CircuitFiles |-> qgiven[f] + (IF f \in InTable THEN 1 ELSE 0)]
  /\ gates' = "works" /\ qpc' = "count"
  /\ UNCHANGED <<others, qinbox, qtaken, listing, table, total, reported, broken>>

\* Mutant: the batch stays in the table.
CountFilesKept ==
  /\ qpc = "count"
  /\ total' = total + Len(table) /\ UNCHANGED table
  /\ qpc' = "wait"
  /\ UNCHANGED <<others, qinbox, qtaken, listing, gates, qgiven, reported, broken>>

\* freeCircuits, createTable, and the counts of the batch are added and reset.
CountFiles ==
  /\ qpc = "count"
  /\ total' = total + Len(table) /\ table' = <<>>
  /\ qpc' = "wait"
  /\ UNCHANGED <<others, qinbox, qtaken, listing, gates, qgiven, reported, broken>>

WaitForGates ==
  /\ qpc = "wait" /\ gates \in {"ended", "dead"}
  /\ gates' = "none" /\ qpc' = "fork"
  /\ UNCHANGED <<others, qinbox, qtaken, listing, table, qgiven, total, reported, broken>>

\* A gates that has died closes its pipes: the pid does not come and pipe
\* returns; a table that nobody reads kills it.
GatesIsMissed ==
  /\ gates = "dead"
  /\ \/ qpc = "sync" /\ qpc' = "failed"
     \/ qpc = "send" /\ qpc' = "killed"
  /\ UNCHANGED <<others, qinbox, qtaken, listing, table, gates, qgiven, total, reported, broken>>

PipeStep ==
  \/ PipeListens \/ StartGates \/ SynchronizeGates \/ FilesSeen
  \/ (\E f \in CircuitFiles : Collect(f)) \/ EndOfDirectory \/ SendTableToGates
  \/ CountFiles \/ WaitForGates \/ GatesIsMissed

-----------------------------------------------------------------------------
(***************************************************************************)
(* handlerCtrlC, which never returns to createsGates.                      *)
(***************************************************************************)
PipeInterrupted ==
  /\ qpc' = IF qpc \in {"unborn", "forked"} \cup PipeOver THEN qpc
            ELSE IF qpc = "start" THEN "killed" ELSE "handler"
  /\ UNCHANGED <<others, qinbox, qtaken, listing, table, gates, qgiven, total, reported, broken>>

\* Mutant: gates is not waited for.
HandlerExitsAtOnce ==
  /\ qpc = "handler"
  /\ qpc' = "exited" /\ reported' = total
  /\ UNCHANGED <<others, qinbox, qtaken, listing, table, gates, qgiven, total, broken>>

\* It waits for gates, if there is one, and prints the count.
HandlerExits ==
  /\ qpc = "handler" /\ gates \in GatesOver
  /\ qpc' = "exited" /\ reported' = total
  /\ UNCHANGED <<others, qinbox, qtaken, listing, table, gates, qgiven, total, broken>>

-----------------------------------------------------------------------------
(***************************************************************************)
(* gates, as pipe sees it.                                                 *)
(***************************************************************************)
GatesMoves(from, to) ==
  /\ gates = from /\ gates' = to
  /\ UNCHANGED <<others, qinbox, qtaken, qpc, listing, table, qgiven, total, reported, broken>>

GatesSendsPid == GatesMoves("starts", "waits")

\* gateInitializer is in Gates: it ends unless a round cannot begin.
GatesEnds == GatesMoves("works", "ended")

\* A gates that loads its table when pipe is gone reads the end of the pipe.
GatesLosesPipe == qpc \in PipeOver /\ GatesMoves("loads", "ended")

GatesGoesWrong(from, to) ==
  /\ PipeMayFail /\ ~ broken /\ broken' = TRUE
  /\ gates = from /\ gates' = to
  /\ UNCHANGED <<others, qinbox, qtaken, qpc, listing, table, qgiven, total, reported>>

\* loadIPC fails, or the table does, in the middle or after all of it was sent:
\* main goes on with what addMoreFiles has freed.
GatesFails ==
  \/ GatesGoesWrong("starts", "dead")
  \/ qpc = "send" /\ GatesGoesWrong("loads", "dead")
  \/ GatesGoesWrong("works", "dead")

\* gates waits for ever: in synchronize for the pid of a child that has died, or
\* in wait for children that synchronize has left asleep.
GatesHangs == GatesGoesWrong("works", "hangs")

GatesStep == GatesSendsPid \/ GatesEnds \/ GatesLosesPipe

\* gates keeps the default action for SIGINT: its handler is not installed.
GatesInterrupted ==
  /\ gates' = IF gates \in GatesOver THEN gates ELSE "dead"
  /\ UNCHANGED <<others, qinbox, qtaken, qpc, listing, table, qgiven, total, reported, broken>>
=============================================================================
