------------------------------- MODULE Server -------------------------------
(***************************************************************************)
(* The whole server: main starts parallel and pipe, waits for both and     *)
(* passes on the SIGINT that ends it.  All the processes are one group, to *)
(* which the terminal sends its own.                                       *)
(***************************************************************************)
EXTENDS Parallel, Pipe

CONSTANTS
  Interrupts,  \* who gets the SIGINT: "group" by Ctrl-C, "main" by kill
  Workloads    \* bound: the files of one run are among those of one of these

ASSUME WorkloadsAssumption == Workloads \subseteq SUBSET (CountryFiles \cup CircuitFiles)
ASSUME InterruptsAssumption == Interrupts \subseteq {"group", "main"}

Programs == {"main", "parallel", "pipe", "gates"}
ASSUME ProgramsAssumption == Programs \cap CountryFiles = {}

VARIABLES
  mpc,       \* where main is: forking, waiting for each child, or ended
  pid1, pid2,\* the pids are known: before that they are 0
  pending,   \* the processes with a SIGINT that they have not taken yet
  sent,      \* who the user has sent it to, "nobody" before
  early      \* it has come before both programs listened

mainVars == <<mpc, pid1, pid2>>
signalVars == <<pending, sent, early>>
vars == <<parallelVars, pipeVars, mainVars, signalVars>>

\* A fifa goes by the name of its file.
Processes == Programs \cup CountryFiles

Init ==
  /\ ParallelInit /\ PipeInit
  /\ mpc = "fork1" /\ pid1 = FALSE /\ pid2 = FALSE
  /\ pending = {} /\ sent = "nobody" /\ early = FALSE

Alive(p) ==
  CASE p = "main" -> mpc # "ended"
    [] p = "parallel" -> ppc \notin Over \cup {"unborn"}
    [] p = "pipe" -> qpc \notin PipeOver \cup {"unborn"}
    [] p = "gates" -> gates \notin GatesOver
    [] OTHER -> fifa[p] \notin FifaOver \cup {"none"}

Group == {p \in Processes : Alive(p)}

-----------------------------------------------------------------------------
(***************************************************************************)
(* main                                                                    *)
(***************************************************************************)
Fork1 ==
  /\ mpc = "fork1" /\ "main" \notin pending
  /\ ppc' = "forked" /\ pid1' = TRUE /\ mpc' = "fork2"
  /\ UNCHANGED <<inbox, dirOpen, taken, hand, signalFlag, childs, fifa, given, wrong>>
  /\ UNCHANGED <<pipeVars, pid2, signalVars>>

Fork2 ==
  /\ mpc = "fork2" /\ "main" \notin pending
  /\ qpc' = "forked" /\ pid2' = TRUE /\ mpc' = "wait1"
  /\ UNCHANGED <<others, qinbox, qtaken, listing, table, gates, qgiven, total, reported, broken>>
  /\ UNCHANGED <<parallelVars, pid1, signalVars>>

\* A child that has not taken a signal yet runs its program.
ExecParallel ==
  /\ ppc = "forked" /\ "parallel" \notin pending
  /\ ppc' = "start"
  /\ UNCHANGED <<inbox, dirOpen, taken, hand, signalFlag, childs, fifa, given, wrong>>
  /\ UNCHANGED <<pipeVars, mainVars, signalVars>>

ExecPipe ==
  /\ qpc = "forked" /\ "pipe" \notin pending
  /\ qpc' = "start"
  /\ UNCHANGED <<others, qinbox, qtaken, listing, table, gates, qgiven, total, reported, broken>>
  /\ UNCHANGED <<parallelVars, mainVars, signalVars>>

ParallelGone == ppc \in Over
PipeGone == qpc \in PipeOver

\* wait, twice: whichever of them ends first.
Wait ==
  /\ "main" \notin pending
  /\ \/ mpc = "wait1" /\ (ParallelGone \/ PipeGone) /\ mpc' = "wait2"
     \/ mpc = "wait2" /\ ParallelGone /\ PipeGone /\ mpc' = "ended"
  /\ UNCHANGED <<parallelVars, pipeVars, pid1, pid2, signalVars>>

\* Mutant: only the first child is told.
ReachedByHandlerFirst == IF ~ pid1 THEN Group ELSE {"parallel"}

\* kill of both pids; a pid that is 0 yet stands for the whole group, with the
\* caller in it.
ReachedByHandler == IF ~ pid1 \/ ~ pid2 THEN Group ELSE {"parallel", "pipe"}

Handler ==
  /\ "main" \in pending /\ mpc # "ended"
  /\ pending' = (pending \ {"main"}) \cup (ReachedByHandler \cap Group)
  /\ UNCHANGED <<parallelVars, pipeVars, mainVars, sent, early>>

\* A child that is still a copy of main has its handler and a pid that is 0.
CopyHandles(p) ==
  /\ p \in pending
  /\ (p = "parallel" /\ ppc = "forked") \/ (p = "pipe" /\ qpc = "forked")
  /\ pending' = pending \cup Group
  /\ UNCHANGED <<parallelVars, pipeVars, mainVars, sent, early>>

MainStep == Fork1 \/ Fork2 \/ Wait \/ Handler

-----------------------------------------------------------------------------
(***************************************************************************)
(* The signals and the programs.                                           *)
(***************************************************************************)
\* The user ends the server, once; parallel and pipe may not be ready for it.
Interrupt(to) ==
  /\ sent = "nobody" /\ to \in Interrupts /\ mpc # "ended"
  /\ sent' = to
  /\ pending' = IF to = "group" THEN Group ELSE {"main"}
  /\ early' = (ppc \in {"unborn", "forked", "start"} \/ qpc \in {"unborn", "forked", "start"})
  /\ UNCHANGED <<parallelVars, pipeVars, mainVars>>

Taken(p) == p \in pending /\ pending' = pending \ {p} /\ UNCHANGED <<sent, early>>

TakeSignal(p) ==
  /\ Taken(p) /\ UNCHANGED mainVars
  /\ \/ p = "parallel" /\ ppc # "forked" /\ ParallelInterrupted /\ UNCHANGED pipeVars
     \/ p = "pipe" /\ qpc \notin {"forked", "handler"} /\ PipeInterrupted /\ UNCHANGED parallelVars
     \/ p = "gates" /\ GatesInterrupted /\ UNCHANGED parallelVars
     \/ p \in CountryFiles /\ FifaInterrupted(p) /\ UNCHANGED pipeVars

\* A process takes its signal before anything else.
Ready(p) == p \notin pending

ParallelRuns ==
  /\ Ready("parallel") /\ ParallelStep
  /\ UNCHANGED <<pipeVars, mainVars, signalVars>>
FifaRuns(f) == Ready(f) /\ FifaStep(f) /\ UNCHANGED <<pipeVars, mainVars, signalVars>>
PipeRuns == Ready("pipe") /\ PipeStep /\ UNCHANGED <<parallelVars, mainVars, signalVars>>
HandlerRuns == HandlerExits /\ UNCHANGED <<parallelVars, mainVars, signalVars>>
GatesRuns == Ready("gates") /\ GatesStep /\ UNCHANGED <<parallelVars, mainVars, signalVars>>

Seen == inbox \cup taken \cup qinbox \cup qtaken
MayCome(f) == \E w \in Workloads : Seen \cup {f} \subseteq w

Arrives ==
  \/ /\ \E f \in CountryFiles : MayCome(f) /\ CountryFileArrives(f)
     /\ UNCHANGED <<pipeVars, mainVars, signalVars>>
  \/ /\ \E f \in CircuitFiles : MayCome(f) /\ CircuitFileArrives(f)
     /\ UNCHANGED <<parallelVars, mainVars, signalVars>>

GoesWrong ==
  \/ /\ \/ FileDoesNotOpen \/ FileDoesNotMove
        \/ \E f \in CountryFiles : EmptyTableFails(f) \/ FifaRefuses(f) \/ FifaHangs(f)
     /\ UNCHANGED <<pipeVars, mainVars, signalVars>>
  \/ /\ FileIsBad \/ GatesFails \/ GatesHangs
     /\ UNCHANGED <<parallelVars, mainVars, signalVars>>

Next ==
  \/ MainStep \/ ExecParallel \/ ExecPipe
  \/ ParallelRuns \/ PipeRuns \/ HandlerRuns \/ GatesRuns
  \/ (\E f \in CountryFiles : FifaRuns(f))
  \/ Arrives \/ GoesWrong
  \/ (\E to \in Interrupts : Interrupt(to))
  \/ \E p \in Processes : TakeSignal(p) \/ CopyHandles(p)

Spec == Init /\ [][Next]_vars

\* All are processes of the system, and the signals sent are taken.  Nothing
\* makes a file come, a program fail or the user interrupt.
FairSpec ==
  /\ Spec
  /\ WF_vars(MainStep) /\ WF_vars(ExecParallel) /\ WF_vars(ExecPipe)
  /\ WF_vars(ParallelRuns) /\ WF_vars(PipeRuns) /\ WF_vars(HandlerRuns)
  /\ WF_vars(GatesRuns) /\ \A f \in CountryFiles : WF_vars(FifaRuns(f))
  /\ \A p \in Processes : WF_vars(TakeSignal(p) \/ CopyHandles(p))
=============================================================================
