------------------------------ MODULE Parallel ------------------------------
(***************************************************************************)
(* parallel: waits for files of countries and hands the table of each to a *)
(* fifa of its own, which draws the fixture while parallel goes on with    *)
(* the next file.  What a signal does to parallel and to a fifa is here;   *)
(* when one comes is up to Server.                                         *)
(***************************************************************************)
EXTENDS Naturals, FiniteSets

CONSTANTS
  CountryFiles,   \* the names of the files that may arrive
  Empty,          \* those with no country in them
  ParallelMayFail \* bound: may one thing go wrong, with a file or a fifa

ASSUME EmptyAssumption == Empty \subseteq CountryFiles
ASSUME ParallelMayFailAssumption == ParallelMayFail \in BOOLEAN

NoFile == "none"
ASSUME NoFileAssumption == NoFile \notin CountryFiles

VARIABLES
  inbox,      \* the files in parallelDir
  dirOpen,    \* dp is an open directory
  taken,      \* the files of countries in processed
  ppc,        \* where filesListener is
  hand,       \* the file whose table parallel holds
  signalFlag, \* FALSE once it has been interrupted
  childs,     \* how many fifas it has started
  fifa,       \* the fifa of each file
  given,      \* how many times each table has been sent whole
  wrong       \* something has gone wrong

parallelVars == <<inbox, dirOpen, taken, ppc, hand, signalFlag, childs, fifa, given, wrong>>

Over == {"returned", "failed", "killed"}
\* Stopped: dead after its answer, which parallel finds all the same.
FifaOver == {"ended", "failed", "dead", "stopped"}
HasAnswered == {"draws", "hangs", "ended", "failed", "stopped"}

ParallelInit ==
  /\ inbox = {} /\ taken = {} /\ dirOpen = TRUE
  /\ ppc = "unborn" /\ hand = NoFile
  /\ signalFlag = TRUE /\ childs = 0
  /\ fifa = [f \in CountryFiles |-> "none"]
  /\ given = [f \in CountryFiles |-> 0]
  /\ wrong = FALSE

\* Somebody leaves a file in parallelDir.
CountryFileArrives(f) ==
  /\ f \notin inbox \cup taken
  /\ inbox' = inbox \cup {f}
  /\ UNCHANGED <<dirOpen, taken, ppc, hand, signalFlag, childs, fifa, given, wrong>>

-----------------------------------------------------------------------------
\* signal, opendir
Listen ==
  /\ ppc = "start" /\ ppc' = "test"
  /\ UNCHANGED <<inbox, dirOpen, taken, hand, signalFlag, childs, fifa, given, wrong>>

TestSignal ==
  /\ ppc = "test"
  /\ ppc' = IF signalFlag THEN "look" ELSE "reap"
  /\ UNCHANGED <<inbox, dirOpen, taken, hand, signalFlag, childs, fifa, given, wrong>>

NoFiles ==
  /\ ppc = "look" /\ (inbox = {} \/ ~ dirOpen)
  /\ ppc' = "test"
  /\ UNCHANGED <<inbox, dirOpen, taken, hand, signalFlag, childs, fifa, given, wrong>>

\* processFile reads the first file that readdir gives, and moves it; a count of
\* no countries is a file that was not there.
ProcessFile(f) ==
  /\ ppc = "look" /\ dirOpen /\ f \in inbox
  /\ inbox' = inbox \ {f} /\ taken' = taken \cup {f}
  /\ IF f \in Empty THEN hand' = hand /\ ppc' = "test" ELSE hand' = f /\ ppc' = "fork"
  /\ UNCHANGED <<dirOpen, signalFlag, childs, fifa, given, wrong>>

\* Some libraries return NULL for a table of no bytes.  processFile closes the
\* directory and returns errno: parallel goes on with what it has freed, and
\* either dies of it or never finds another file.
EmptyTableFails(f) ==
  /\ ppc = "look" /\ dirOpen /\ f \in inbox \cap Empty
  /\ wrong' = TRUE /\ dirOpen' = FALSE
  /\ ppc' \in {"killed", "test"}
  /\ UNCHANGED <<inbox, taken, hand, signalFlag, childs, fifa, given>>

\* fopen fails: errno is taken for a number of countries, a fifa is started and
\* the first of them is read from a table that is not there.
FileDoesNotOpen ==
  /\ ppc = "look" /\ dirOpen /\ inbox # {} /\ ParallelMayFail /\ ~ wrong
  /\ ppc' = "killed" /\ wrong' = TRUE /\ childs' = childs + 1
  /\ UNCHANGED <<inbox, dirOpen, taken, hand, signalFlag, fifa, given>>

\* rename fails, and parallel returns.
FileDoesNotMove ==
  /\ ppc = "look" /\ dirOpen /\ inbox # {} /\ ParallelMayFail /\ ~ wrong
  /\ ppc' = "failed" /\ wrong' = TRUE
  /\ UNCHANGED <<inbox, dirOpen, taken, hand, signalFlag, childs, fifa, given>>

\* Mutant: a fifa that is still drawing is not counted.
StartFifaUncounted ==
  /\ ppc = "fork"
  /\ childs' = IF \E f \in CountryFiles : fifa[f] = "draws" THEN childs ELSE childs + 1
  /\ fifa' = [fifa EXCEPT ![hand] = "starts"]
  /\ ppc' = "sync"
  /\ UNCHANGED <<inbox, dirOpen, taken, hand, signalFlag, given, wrong>>

\* setupIPC and fork
StartFifa ==
  /\ ppc = "fork"
  /\ childs' = childs + 1
  /\ fifa' = [fifa EXCEPT ![hand] = "starts"]
  /\ ppc' = "sync"
  /\ UNCHANGED <<inbox, dirOpen, taken, hand, signalFlag, given, wrong>>

\* synchronize: the fifa has sent its pid and gets its SIGALRM.
Synchronize ==
  /\ ppc = "sync" /\ fifa[hand] = "waits"
  /\ fifa' = [fifa EXCEPT ![hand] = "loads"]
  /\ ppc' = "send"
  /\ UNCHANGED <<inbox, dirOpen, taken, hand, signalFlag, childs, given, wrong>>

\* Mutant: the table goes out again if the fifa has not answered.
SendTableAgain ==
  /\ ppc \in {"send", "ack"} /\ fifa[hand] = "loads"
  /\ given' = [given EXCEPT ![hand] = @ + 1]
  /\ ppc' = "ack"
  /\ UNCHANGED <<inbox, dirOpen, taken, hand, signalFlag, childs, fifa, wrong>>

\* The number of countries and every one of them.
SendTable ==
  /\ ppc = "send" /\ fifa[hand] = "loads"
  /\ given' = [given EXCEPT ![hand] = @ + 1]
  /\ ppc' = "ack"
  /\ UNCHANGED <<inbox, dirOpen, taken, hand, signalFlag, childs, fifa, wrong>>

\* The number of countries that fifa has got, and finalizeIPC.
ReadAck ==
  /\ ppc = "ack" /\ fifa[hand] \in HasAnswered
  /\ ppc' = IF fifa[hand] = "failed" THEN "failed" ELSE "test"
  /\ hand' = NoFile
  /\ UNCHANGED <<inbox, dirOpen, taken, signalFlag, childs, fifa, given, wrong>>

\* A fifa that dies closes its pipes: the pid or the answer does not come, and
\* parallel returns; a table that nobody reads, also when the pid of its reader
\* did come, kills it.
FifaIsMissed ==
  /\ ppc \in {"sync", "send", "ack"} /\ fifa[hand] = "dead"
  /\ \/ ppc \in {"sync", "ack"} /\ ppc' = "failed"
     \/ ppc \in {"sync", "send"} /\ ppc' = "killed"
  /\ hand' = NoFile
  /\ UNCHANGED <<inbox, dirOpen, taken, signalFlag, childs, fifa, given, wrong>>

\* wait, once for each fifa started.
WaitForFifas ==
  /\ ppc = "reap"
  /\ Cardinality({f \in CountryFiles : fifa[f] \in FifaOver}) >= childs
  /\ ppc' = "returned"
  /\ UNCHANGED <<inbox, dirOpen, taken, hand, signalFlag, childs, fifa, given, wrong>>

ParallelStep ==
  \/ Listen \/ TestSignal \/ NoFiles \/ (\E f \in CountryFiles : ProcessFile(f))
  \/ StartFifa \/ Synchronize \/ SendTable \/ ReadAck \/ FifaIsMissed \/ WaitForFifas

\* handler
ParallelInterrupted ==
  /\ IF ppc = "start" THEN ppc' = "killed" /\ UNCHANGED signalFlag
     ELSE UNCHANGED ppc /\ signalFlag' = FALSE
  /\ UNCHANGED <<inbox, dirOpen, taken, hand, childs, fifa, given, wrong>>

-----------------------------------------------------------------------------
(***************************************************************************)
(* fifa, as parallel sees it.                                              *)
(***************************************************************************)
FifaMoves(f, from, to) ==
  /\ fifa[f] = from /\ fifa' = [fifa EXCEPT ![f] = to]
  /\ UNCHANGED <<inbox, dirOpen, taken, ppc, hand, signalFlag, childs, given, wrong>>

\* loadIPC up to the wait for the signal.
FifaSendsPid(f) == FifaMoves(f, "starts", "waits")

\* loadCountriesTable, the answer and closeIPC.
FifaAnswers(f) == given[f] > 0 /\ FifaMoves(f, "loads", "draws")

\* The draw itself is in Fifa: it ends, in one way or another, unless it hangs.
FifaEnds(f) == FifaMoves(f, "draws", "ended")

FifaStep(f) == FifaSendsPid(f) \/ FifaAnswers(f) \/ FifaEnds(f)

FifaGoesWrong(f, from, to) ==
  /\ ParallelMayFail /\ ~ wrong /\ wrong' = TRUE
  /\ fifa[f] = from /\ fifa' = [fifa EXCEPT ![f] = to]
  /\ UNCHANGED <<inbox, dirOpen, taken, ppc, hand, signalFlag, childs, given>>

\* loadIPC fails and fifa returns, or the table does not fit in memory or is not
\* read whole and fifa says so.
FifaRefuses(f) ==
  \/ FifaGoesWrong(f, "starts", "dead")
  \/ given[f] > 0 /\ FifaGoesWrong(f, "loads", "failed")

\* fifa waits for ever: after a silent select for grouph that wait for its answer,
\* in synchronize for the pid of a grouph that was not started or has died, or in
\* a read for what a dead grouph had still to say.  Its other grouph keep the
\* pipes open.
FifaHangs(f) == FifaGoesWrong(f, "draws", "hangs")

\* fifa keeps the default action for SIGINT, and before exec has parallel's.
FifaInterrupted(f) ==
  /\ \/ fifa' = [fifa EXCEPT ![f] = IF @ \in FifaOver THEN @
                                   ELSE IF @ \in HasAnswered THEN "stopped" ELSE "dead"]
     \/ fifa[f] = "starts" /\ UNCHANGED fifa
  /\ UNCHANGED <<inbox, dirOpen, taken, ppc, hand, signalFlag, childs, given, wrong>>
=============================================================================
