----------------------------- MODULE ServerProof -----------------------------
(***************************************************************************)
(* Theorems about the server, for any files, finite or not, any number of  *)
(* arrivals and every moment a signal may come.                            *)
(***************************************************************************)
EXTENDS ServerProperties, FiniteSetTheorems, TLAPS

-----------------------------------------------------------------------------
(***************************************************************************)
(* The inductive invariant: parallel, pipe, and main.                      *)
(***************************************************************************)
ParallelPlaces ==
  {"unborn", "forked", "start", "test", "look", "fork", "sync", "send", "ack", "reap"} \cup Over
Holding == {"fork", "sync", "send", "ack"}
Fruitless == {"failed", "killed"}
FifaStates == {"none", "starts", "waits", "loads", "draws", "hangs"} \cup FifaOver

ParallelTypes ==
  /\ inbox \subseteq CountryFiles /\ taken \subseteq CountryFiles
  /\ ppc \in ParallelPlaces /\ hand \in CountryFiles \cup {NoFile}
  /\ childs \in Nat
  /\ fifa \in [CountryFiles -> FifaStates]
  /\ given \in [CountryFiles -> {0, 1}]

Started == {f \in CountryFiles : fifa[f] # "none"}

(* Every file with countries that has been moved has a fifa, but for the one
   whose fifa is about to be started; and that fifa has its table, but for the
   one that parallel still holds. *)
EachHasAFifa ==
  /\ inbox \cap taken = {}
  /\ Started \subseteq taken \ Empty
  /\ ppc \in Holding => hand \in taken \ Empty
  /\ \A f \in taken \ Empty : f \in Started \/ (ppc = "fork" /\ hand = f)
  /\ \A f \in CountryFiles : given[f] = 1 => f \in Started
  /\ ppc = "fork" => hand \notin Started
  /\ ppc \in {"sync", "send"} => given[hand] = 0
  /\ \A f \in Started :
       given[f] = 1 \/ (ppc \in {"sync", "send"} /\ hand = f) \/ ppc \in Fruitless

(* childs is the number of fifas started. *)
EachFifaCounts ==
  /\ IsFiniteSet(Started)
  /\ ppc # "killed" => childs = Cardinality(Started)

ReturnedIsDone == ppc = "returned" => Started = {f \in CountryFiles : fifa[f] \in FifaOver}

ParallelInv == ParallelTypes /\ EachHasAFifa /\ EachFifaCounts /\ ReturnedIsDone

PipePlaces ==
  {"unborn", "forked", "start", "fork", "sync", "listen", "read", "send", "count", "wait",
   "handler"} \cup PipeOver
GatesStates == {"none", "starts", "waits", "loads", "works", "hangs", "ended", "dead"}

PipeTypes ==
  /\ qinbox \subseteq CircuitFiles /\ qtaken \subseteq CircuitFiles
  /\ listing \subseteq qinbox
  /\ qinbox \cap qtaken = {}
  /\ qpc \in PipePlaces /\ gates \in GatesStates
  /\ table \in Seq(CircuitFiles)
  /\ qgiven \in [CircuitFiles -> {0, 1}]
  /\ total \in Nat

NoCircuitTwice ==
  \A i, k \in 1 .. Len(table) : table[i] = table[k] => i = k

(* The batch in the table has not been sent, and what was sent is counted. *)
BatchIsUnsent ==
  /\ qtaken \ SentCircuits = InTable
  /\ total = Cardinality(SentCircuits)

(* The batch in the table has been sent, and is not counted yet. *)
BatchIsSent ==
  /\ qtaken = SentCircuits /\ InTable \subseteq SentCircuits
  /\ total + Len(table) = Cardinality(SentCircuits)

BatchIsKnown ==
  /\ IsFiniteSet(SentCircuits) /\ SentCircuits \subseteq qtaken
  /\ CASE qpc = "count" -> BatchIsSent
       [] qpc \in {"handler"} \cup PipeOver -> BatchIsUnsent \/ BatchIsSent
       [] OTHER -> BatchIsUnsent

ReportIsTotal == reported # NotReported => qpc = "exited" /\ reported = total

GatesIsWaitedFor == qpc = "exited" => gates \in GatesOver

PipeInv == PipeTypes /\ NoCircuitTwice /\ BatchIsKnown /\ ReportIsTotal /\ GatesIsWaitedFor

MainInv ==
  /\ mpc \in {"fork1", "fork2", "wait1", "wait2", "ended"}
  /\ mpc = "fork1" => ppc = "unborn"
  /\ mpc \in {"fork1", "fork2"} => qpc = "unborn"
  /\ mpc = "ended" => ParallelGone /\ PipeGone

\* A signal finds no fifa that has not been started.
SignalsInv == pending \cap CountryFiles \subseteq Started

IInv == ParallelInv /\ PipeInv /\ MainInv /\ SignalsInv

-----------------------------------------------------------------------------
(***************************************************************************)
(* Each step is seen by parallel as one of its own, by pipe as one of its  *)
(* own, and by main likewise.                                              *)
(***************************************************************************)
ParallelMoves ==
  \/ UNCHANGED parallelVars
  \/ Fork1 \/ ExecParallel \/ ParallelStep
  \/ (\E f \in CountryFiles :
        \/ FifaStep(f) \/ CountryFileArrives(f) \/ EmptyTableFails(f)
        \/ FifaRefuses(f) \/ FifaHangs(f)
        \/ (f \in pending /\ FifaInterrupted(f)))
  \/ FileDoesNotOpen \/ FileDoesNotMove
  \/ (ppc # "forked" /\ ParallelInterrupted)

PipeMoves ==
  \/ UNCHANGED pipeVars
  \/ Fork2 \/ ExecPipe \/ PipeStep \/ HandlerExits \/ GatesStep
  \/ (\E f \in CircuitFiles : CircuitFileArrives(f))
  \/ FileIsBad \/ GatesFails \/ GatesHangs \/ PipeInterrupted \/ GatesInterrupted

LEMMA NextMoves == Next => ParallelMoves /\ PipeMoves
<1>. SUFFICES ASSUME Next PROVE ParallelMoves /\ PipeMoves
  OBVIOUS
<1>1. CASE MainStep
  BY <1>1 DEF MainStep, Fork1, Fork2, Wait, Handler, ParallelMoves, PipeMoves, parallelVars, pipeVars
<1>2. CASE ExecParallel \/ ExecPipe
  BY <1>2 DEF ExecParallel, ExecPipe, ParallelMoves, PipeMoves, parallelVars, pipeVars
<1>3. CASE ParallelRuns \/ PipeRuns \/ HandlerRuns \/ GatesRuns
  BY <1>3, Zenon DEF ParallelRuns, PipeRuns, HandlerRuns, GatesRuns, ParallelMoves, PipeMoves
<1>4. CASE \E f \in CountryFiles : FifaRuns(f)
  BY <1>4, Zenon DEF FifaRuns, ParallelMoves, PipeMoves
<1>5. CASE Arrives
  BY <1>5, Zenon DEF Arrives, ParallelMoves, PipeMoves
<1>6. CASE GoesWrong
  BY <1>6, Zenon DEF GoesWrong, ParallelMoves, PipeMoves
<1>7. CASE \E to \in Interrupts : Interrupt(to)
  BY <1>7, Zenon DEF Interrupt, ParallelMoves, PipeMoves
<1>8. CASE \E p \in Processes : TakeSignal(p) \/ CopyHandles(p)
  <2>1. PICK p \in Processes : TakeSignal(p) \/ CopyHandles(p)
    BY <1>8
  <2>2. CASE CopyHandles(p)
    BY <2>2, Zenon DEF CopyHandles, ParallelMoves, PipeMoves
  <2>3. CASE TakeSignal(p)
    <3>1. \/ ppc # "forked" /\ ParallelInterrupted /\ UNCHANGED pipeVars
          \/ PipeInterrupted /\ UNCHANGED parallelVars
          \/ GatesInterrupted /\ UNCHANGED parallelVars
          \/ p \in CountryFiles /\ p \in pending /\ FifaInterrupted(p) /\ UNCHANGED pipeVars
      BY <2>3, Zenon DEF TakeSignal, Taken
    <3>. QED BY <3>1, Zenon DEF ParallelMoves, PipeMoves
  <2>. QED BY <2>1, <2>2, <2>3
<1>. QED BY <1>1, <1>2, <1>3, <1>4, <1>5, <1>6, <1>7, <1>8 DEF Next

-----------------------------------------------------------------------------
(***************************************************************************)
(* parallel and its fifas                                                  *)
(***************************************************************************)
LEMMA ParallelStarts == ParallelInit => ParallelInv
<1>. SUFFICES ASSUME ParallelInit PROVE ParallelInv
  OBVIOUS
<1>. USE DEF ParallelInit
<1>1. ParallelTypes
  BY DEF ParallelTypes, ParallelPlaces, FifaStates
<1>2. Started = {}
  BY DEF Started
<1>3. EachHasAFifa
  BY <1>2 DEF EachHasAFifa, Holding
<1>4. EachFifaCounts
  BY <1>2, FS_EmptySet DEF EachFifaCounts
<1>. QED BY <1>1, <1>3, <1>4 DEF ParallelInv, ReturnedIsDone

(* An action that starts no fifa and moves none to or from its end. *)
LEMMA NoneStarts ==
  ASSUME ParallelInv, fifa' = fifa, childs' = childs, ppc' # "returned" \/ ppc = "returned",
         ppc = "killed" => ppc' = "killed"
  PROVE  Started' = Started /\ EachFifaCounts' /\ ReturnedIsDone'
BY DEF ParallelInv, Started, EachFifaCounts, ReturnedIsDone

LEMMA FifaGoesOn ==
  ASSUME ParallelInv, NEW f \in CountryFiles, NEW to \in FifaStates \ {"none"},
         fifa[f] # "none", fifa' = [fifa EXCEPT ![f] = to],
         fifa[f] \notin FifaOver \/ fifa[f] = to,
         UNCHANGED <<taken, ppc, hand, childs, given>>,
         inbox' = inbox
  PROVE  ParallelInv'
<1>. USE DEF ParallelInv
<1>1. ParallelTypes'
  BY DEF ParallelTypes
<1>2. Started' = Started
  BY DEF Started, ParallelTypes
<1>3. EachHasAFifa'
  BY <1>2 DEF EachHasAFifa
<1>4. EachFifaCounts'
  BY <1>2 DEF EachFifaCounts
<1>5. ReturnedIsDone'
  <2>. SUFFICES ASSUME ppc = "returned" PROVE Started' = {g \in CountryFiles : fifa'[g] \in FifaOver}
    BY DEF ReturnedIsDone
  <2>1. fifa[f] \in FifaOver
    BY DEF ReturnedIsDone, Started
  <2>2. fifa' = fifa
    BY <2>1 DEF ParallelTypes
  <2>. QED BY <2>2, <1>2 DEF ReturnedIsDone
<1>. QED BY <1>1, <1>3, <1>4, <1>5

LEMMA ParallelStepInv == IInv /\ ParallelMoves => ParallelInv'
<1>. SUFFICES ASSUME IInv, ParallelMoves PROVE ParallelInv'
  OBVIOUS
<1>. ParallelInv /\ MainInv /\ SignalsInv
  BY DEF IInv
<1>. USE DEF ParallelInv
<1>1. CASE UNCHANGED parallelVars
  BY <1>1 DEF parallelVars, ParallelTypes, EachHasAFifa, EachFifaCounts, ReturnedIsDone, Started
<1>2. CASE Fork1 \/ ExecParallel \/ Listen \/ TestSignal \/ NoFiles \/ (ppc # "forked" /\ ParallelInterrupted)
  <2>1. /\ UNCHANGED <<inbox, taken, hand, childs, fifa, given>>
        /\ \/ ppc = "unborn" /\ ppc' = "forked"
           \/ ppc = "forked" /\ ppc' = "start"
           \/ ppc = "start" /\ ppc' \in {"test", "killed"}
           \/ ppc = "test" /\ ppc' \in {"look", "reap"}
           \/ ppc = "look" /\ ppc' = "test"
           \/ ppc' = ppc
    BY <1>2 DEF Fork1, ExecParallel, Listen, TestSignal, NoFiles, ParallelInterrupted, MainInv
  <2>2. Started' = Started /\ EachFifaCounts' /\ ReturnedIsDone'
    BY <2>1, NoneStarts
  <2>3. ParallelTypes'
    BY <2>1 DEF ParallelTypes, ParallelPlaces, Over
  <2>4. EachHasAFifa'
    BY <2>1, <2>2 DEF EachHasAFifa, Holding, Fruitless
  <2>. QED BY <2>2, <2>3, <2>4
<1>3. ASSUME NEW f \in CountryFiles, ProcessFile(f) PROVE ParallelInv'
  <2>. USE <1>3 DEF ProcessFile
  <2>1. Started' = Started /\ EachFifaCounts' /\ ReturnedIsDone'
    BY NoneStarts
  <2>2. ParallelTypes'
    BY DEF ParallelTypes, ParallelPlaces
  <2>3. f \notin taken /\ f \notin Started
    BY DEF EachHasAFifa
  <2>4. EachHasAFifa'
    BY <2>1, <2>3 DEF EachHasAFifa, Holding, Fruitless
  <2>. QED BY <2>1, <2>2, <2>4
<1>4. CASE StartFifa
  <2>. USE <1>4 DEF StartFifa
  <2>1. hand \in taken \ Empty /\ hand \in CountryFiles /\ hand \notin Started
    BY DEF EachHasAFifa, Holding, ParallelTypes
  <2>2. Started' = Started \cup {hand}
    BY <2>1 DEF Started, ParallelTypes
  <2>3. ParallelTypes'
    BY <2>1 DEF ParallelTypes, ParallelPlaces, FifaStates
  <2>4. EachHasAFifa'
    <3>1. given[hand] = 0
      BY <2>1 DEF EachHasAFifa, ParallelTypes
    <3>. QED BY <2>1, <2>2, <3>1 DEF EachHasAFifa, Holding, Fruitless
  <2>5. EachFifaCounts'
    BY <2>1, <2>2, FS_AddElement DEF EachFifaCounts
  <2>. QED BY <2>3, <2>4, <2>5 DEF ReturnedIsDone
<1>5. CASE Synchronize
  <2>. USE <1>5 DEF Synchronize
  <2>1. hand \in taken \ Empty /\ hand \in CountryFiles
    BY DEF EachHasAFifa, Holding, ParallelTypes
  <2>2. Started' = Started
    BY <2>1 DEF Started, ParallelTypes
  <2>3. ParallelTypes'
    BY DEF ParallelTypes, ParallelPlaces, FifaStates
  <2>4. EachHasAFifa'
    BY <2>1, <2>2 DEF EachHasAFifa, Holding, Fruitless
  <2>5. EachFifaCounts'
    BY <2>2 DEF EachFifaCounts
  <2>. QED BY <2>3, <2>4, <2>5 DEF ReturnedIsDone
<1>6. CASE SendTable
  <2>. USE <1>6 DEF SendTable
  <2>1. hand \in taken \ Empty /\ hand \in CountryFiles /\ given[hand] = 0
    BY DEF EachHasAFifa, Holding, ParallelTypes
  <2>2. Started' = Started /\ EachFifaCounts' /\ ReturnedIsDone'
    BY NoneStarts
  <2>3. ParallelTypes'
    BY <2>1 DEF ParallelTypes, ParallelPlaces
  <2>4. hand \in Started
    BY <2>1 DEF Started
  <2>5. given'[hand] = 1 /\ \A f \in CountryFiles : f # hand => given'[f] = given[f]
    BY <2>1 DEF ParallelTypes
  <2>6. EachHasAFifa'
    BY <2>1, <2>2, <2>4, <2>5 DEF EachHasAFifa, Holding, Fruitless, ParallelTypes
  <2>. QED BY <2>2, <2>3, <2>6
<1>7. CASE ReadAck \/ FifaIsMissed
  <2>1. /\ ppc \in {"sync", "send", "ack"} /\ hand' = NoFile
        /\ ppc' \in Fruitless \/ (ppc = "ack" /\ ppc' = "test")
        /\ UNCHANGED <<inbox, taken, childs, fifa, given>>
    BY <1>7 DEF ReadAck, FifaIsMissed, Fruitless
  <2>2. Started' = Started /\ EachFifaCounts' /\ ReturnedIsDone'
    BY <2>1, NoneStarts DEF Fruitless
  <2>3. ParallelTypes'
    BY <2>1 DEF ParallelTypes, ParallelPlaces, Fruitless, Over
  <2>4. EachHasAFifa'
    BY <2>1, <2>2 DEF EachHasAFifa, Holding, Fruitless
  <2>. QED BY <2>2, <2>3, <2>4
<1>8. CASE WaitForFifas
  <2>. USE <1>8 DEF WaitForFifas
  <2>. DEFINE Ended == {f \in CountryFiles : fifa[f] \in FifaOver}
  <2>1. Ended \subseteq Started
    BY DEF Started, FifaOver
  <2>2. Ended = Started
    BY <2>1, FS_Subset, FS_CardinalityType DEF EachFifaCounts
  <2>3. Started' = Started /\ Ended' = Ended
    BY DEF Started
  <2>4. ParallelTypes'
    BY DEF ParallelTypes, ParallelPlaces, Over
  <2>5. EachHasAFifa'
    BY <2>3 DEF EachHasAFifa, Holding, Fruitless
  <2>6. EachFifaCounts'
    BY <2>3 DEF EachFifaCounts
  <2>. QED BY <2>2, <2>3, <2>4, <2>5, <2>6 DEF ReturnedIsDone
<1>9. ASSUME NEW f \in CountryFiles, FifaStep(f) \/ FifaRefuses(f) \/ FifaHangs(f) PROVE ParallelInv'
  <2>1. \E to \in FifaStates \ {"none"} :
          /\ fifa[f] # "none" /\ fifa[f] \notin FifaOver /\ fifa' = [fifa EXCEPT ![f] = to]
          /\ UNCHANGED <<inbox, taken, ppc, hand, childs, given>>
    BY <1>9 DEF FifaStep, FifaSendsPid, FifaAnswers, FifaEnds, FifaMoves, FifaRefuses, FifaHangs,
                  FifaGoesWrong, FifaStates, FifaOver
  <2>. QED BY <2>1, FifaGoesOn
<1>10. ASSUME NEW f \in CountryFiles, CountryFileArrives(f) PROVE ParallelInv'
  <2>. USE <1>10 DEF CountryFileArrives
  <2>1. Started' = Started /\ EachFifaCounts' /\ ReturnedIsDone'
    BY NoneStarts
  <2>. QED BY <2>1 DEF ParallelTypes, EachHasAFifa
<1>11. ASSUME NEW f \in CountryFiles, EmptyTableFails(f) PROVE ParallelInv'
  <2>. USE <1>11 DEF EmptyTableFails
  <2>1. Started' = Started /\ EachFifaCounts' /\ ReturnedIsDone'
    BY NoneStarts
  <2>2. EachHasAFifa'
    BY <2>1 DEF EachHasAFifa, Holding, Fruitless
  <2>. QED BY <2>1, <2>2 DEF ParallelTypes, ParallelPlaces, Over
<1>12. ASSUME NEW f \in CountryFiles, f \in pending, FifaInterrupted(f) PROVE ParallelInv'
  <2>0. fifa[f] # "none" /\ fifa[f] \in FifaStates
    BY <1>12 DEF SignalsInv, Started, ParallelTypes
  <2>1. UNCHANGED <<inbox, taken, ppc, hand, childs, given>>
    BY <1>12 DEF FifaInterrupted
  <2>2. CASE UNCHANGED fifa
    BY <2>1, <2>2 DEF ParallelTypes, EachHasAFifa, EachFifaCounts, ReturnedIsDone, Started
  <2>3. CASE fifa' = [fifa EXCEPT ![f] = IF @ \in FifaOver THEN @
                                         ELSE IF @ \in HasAnswered THEN "stopped" ELSE "dead"]
    <3>1. CASE fifa[f] \in FifaOver
      BY <2>0, <2>1, <2>3, <3>1, FifaGoesOn
    <3>2. CASE fifa[f] \notin FifaOver
      BY <2>0, <2>1, <2>3, <3>2, FifaGoesOn DEF FifaStates, FifaOver
    <3>. QED BY <3>1, <3>2
  <2>. QED BY <1>12, <2>2, <2>3 DEF FifaInterrupted
<1>13. CASE FileDoesNotOpen
  BY <1>13 DEF FileDoesNotOpen, ParallelTypes, ParallelPlaces, Over, EachHasAFifa, Holding,
               Fruitless, EachFifaCounts, ReturnedIsDone, Started
<1>14. CASE FileDoesNotMove
  <2>. USE <1>14 DEF FileDoesNotMove
  <2>1. Started' = Started /\ EachFifaCounts' /\ ReturnedIsDone'
    BY NoneStarts
  <2>2. EachHasAFifa'
    BY <2>1 DEF EachHasAFifa, Holding, Fruitless
  <2>. QED BY <2>1, <2>2 DEF ParallelTypes, ParallelPlaces, Over
<1>. QED
  BY <1>1, <1>2, <1>3, <1>4, <1>5, <1>6, <1>7, <1>8, <1>9, <1>10, <1>11, <1>12, <1>13, <1>14
  DEF ParallelMoves, ParallelStep

-----------------------------------------------------------------------------
(***************************************************************************)
(* pipe and its gates                                                      *)
(***************************************************************************)
LEMMA PipeStarts == PipeInit => PipeInv
<1>. SUFFICES ASSUME PipeInit PROVE PipeInv
  OBVIOUS
<1>. USE DEF PipeInit
<1>1. SentCircuits = {} /\ InTable = {}
  BY DEF SentCircuits, InTable
<1>2. BatchIsUnsent
  BY <1>1, FS_EmptySet DEF BatchIsUnsent
<1>3. PipeTypes
  BY DEF PipeTypes, PipePlaces, GatesStates
<1>. QED BY <1>1, <1>2, <1>3, FS_EmptySet
  DEF PipeInv, BatchIsKnown, NoCircuitTwice, ReportIsTotal, GatesIsWaitedFor, NotReported, PipeOver

(* The files of the table are as many as its length. *)
LEMMA TableIsASet ==
  ASSUME table \in Seq(CircuitFiles), NoCircuitTwice
  PROVE  IsFiniteSet(InTable) /\ Cardinality(InTable) = Len(table)
<1>1. table \in [1 .. Len(table) -> InTable] /\ Len(table) \in Nat
  BY DEF InTable
<1>2. table \in Bijection(1 .. Len(table), InTable)
  <2>1. table \in Injection(1 .. Len(table), InTable)
    BY <1>1 DEF Injection, IsInjective, NoCircuitTwice
  <2>2. \A f \in InTable : \E k \in 1 .. Len(table) : table[k] = f
    BY DEF InTable
  <2>3. table \in Surjection(1 .. Len(table), InTable)
    BY <1>1, <2>2 DEF Surjection
  <2>. QED BY <2>1, <2>3 DEF Bijection
<1>3. ExistsBijection(1 .. Len(table), InTable)
  BY <1>2 DEF ExistsBijection
<1>. QED BY <1>1, <1>3, FS_Interval, FS_Bijection, FS_CountingElements

\* What a step that leaves the circuits where they are keeps.
LEMMA BatchStays ==
  ASSUME PipeInv, UNCHANGED <<qtaken, table, qgiven, total>>
  PROVE  /\ BatchIsUnsent' <=> BatchIsUnsent
         /\ BatchIsSent' <=> BatchIsSent
         /\ NoCircuitTwice' /\ SentCircuits' = SentCircuits
         /\ IsFiniteSet(SentCircuits') /\ SentCircuits' \subseteq qtaken'
BY DEF PipeInv, BatchIsUnsent, BatchIsSent, InTable, SentCircuits, NoCircuitTwice, BatchIsKnown

LEMMA PipeStepInv == IInv /\ PipeMoves => PipeInv'
<1>. SUFFICES ASSUME IInv, PipeMoves PROVE PipeInv'
  OBVIOUS
<1>. PipeInv /\ MainInv
  BY DEF IInv
<1>. USE DEF PipeInv
<1>1. CASE UNCHANGED pipeVars
  <2>1. BatchIsKnown' /\ NoCircuitTwice'
    BY <1>1, BatchStays DEF pipeVars, BatchIsKnown
  <2>. QED BY <1>1, <2>1 DEF pipeVars, PipeTypes, ReportIsTotal, GatesIsWaitedFor
<1>2. CASE Fork2 \/ ExecPipe \/ PipeListens \/ StartGates \/ SynchronizeGates \/ FilesSeen
           \/ EndOfDirectory \/ WaitForGates \/ GatesIsMissed \/ FileIsBad \/ GatesFails
           \/ GatesHangs \/ PipeInterrupted
           \/ GatesStep \/ GatesInterrupted \/ HandlerExits
  <2>1. /\ UNCHANGED <<qinbox, qtaken, table, qgiven, total>>
        /\ listing' = listing \/ listing' = qinbox
    BY <1>2 DEF Fork2, ExecPipe, PipeListens, StartGates, SynchronizeGates, FilesSeen, EndOfDirectory,
                WaitForGates, GatesIsMissed, FileIsBad,
                GatesFails, GatesHangs, GatesGoesWrong, PipeInterrupted, GatesStep, GatesSendsPid, GatesEnds,
                GatesLosesPipe, GatesMoves, GatesInterrupted, HandlerExits
  <2>2. /\ qpc' \in PipePlaces /\ gates' \in GatesStates
        /\ \/ qpc' = qpc
           \/ qpc' \in {"handler"} \cup PipeOver
           \/ qpc \notin {"count", "handler"} \cup PipeOver /\ qpc' \notin {"count", "handler"} \cup PipeOver
    BY <1>2 DEF Fork2, ExecPipe, PipeListens, StartGates, SynchronizeGates, FilesSeen, EndOfDirectory,
                WaitForGates, GatesIsMissed, FileIsBad,
                GatesFails, GatesHangs, GatesGoesWrong, PipeInterrupted, GatesStep, GatesSendsPid, GatesEnds,
                GatesLosesPipe, GatesMoves, GatesInterrupted, HandlerExits, PipeTypes, PipePlaces, GatesStates,
                PipeOver, MainInv
  <2>3. BatchIsKnown' /\ NoCircuitTwice'
    BY <2>1, <2>2, BatchStays DEF BatchIsKnown
  <2>4. PipeTypes'
    BY <2>1, <2>2 DEF PipeTypes
  <2>5. ReportIsTotal' /\ GatesIsWaitedFor'
    BY <1>2 DEF Fork2, ExecPipe, PipeListens, StartGates, SynchronizeGates, FilesSeen, EndOfDirectory,
                WaitForGates, GatesIsMissed, FileIsBad,
                GatesFails, GatesHangs, GatesGoesWrong, PipeInterrupted, GatesStep, GatesSendsPid, GatesEnds,
                GatesLosesPipe, GatesMoves, GatesInterrupted, HandlerExits, PipeOver, MainInv, GatesOver,
                ReportIsTotal, GatesIsWaitedFor
  <2>. QED BY <2>3, <2>4, <2>5
<1>3. ASSUME NEW f \in CircuitFiles, CircuitFileArrives(f) PROVE PipeInv'
  <2>. USE <1>3 DEF CircuitFileArrives
  <2>1. BatchIsKnown' /\ NoCircuitTwice'
    BY BatchStays DEF BatchIsKnown
  <2>. QED BY <2>1 DEF PipeTypes, ReportIsTotal, GatesIsWaitedFor
<1>4. ASSUME NEW f \in CircuitFiles, Collect(f) PROVE PipeInv'
  <2>. USE <1>4 DEF Collect
  <2>1. f \in qinbox /\ f \notin qtaken /\ f \notin SentCircuits /\ f \notin InTable
    BY DEF PipeTypes, BatchIsKnown, BatchIsUnsent, PipeOver
  <2>2. /\ table' \in Seq(CircuitFiles) /\ Len(table') = Len(table) + 1 /\ Len(table) \in Nat
        /\ \A k \in 1 .. Len(table) : table'[k] = table[k]
        /\ table'[Len(table) + 1] = f
    BY DEF PipeTypes
  <2>3. InTable' = InTable \cup {f}
    <3>1. DOMAIN table' = 1 .. Len(table) + 1 /\ DOMAIN table = 1 .. Len(table)
      BY <2>2 DEF PipeTypes
    <3>2. \A g : g \in InTable' <=> \E k \in 1 .. Len(table) + 1 : table'[k] = g
      BY <3>1 DEF InTable
    <3>3. \A g : g \in InTable <=> \E k \in 1 .. Len(table) : table[k] = g
      BY <3>1 DEF InTable
    <3>4. \A k \in 1 .. Len(table) + 1 : k \in 1 .. Len(table) \/ k = Len(table) + 1
      BY <2>2
    <3>5. Len(table) + 1 \in 1 .. Len(table) + 1 /\ 1 .. Len(table) \subseteq 1 .. Len(table) + 1
      BY <2>2
    <3>. QED BY <2>2, <3>2, <3>3, <3>4, <3>5
  <2>4. PipeTypes'
    BY <2>1, <2>2 DEF PipeTypes
  <2>5. NoCircuitTwice'
    BY <2>1, <2>2 DEF NoCircuitTwice, InTable, PipeTypes
  <2>6. SentCircuits' = SentCircuits
    BY DEF SentCircuits
  <2>7. BatchIsKnown'
    BY <2>1, <2>3, <2>6 DEF BatchIsKnown, BatchIsUnsent, PipeOver
  <2>. QED BY <2>4, <2>5, <2>7 DEF ReportIsTotal, GatesIsWaitedFor
<1>5. CASE SendTableToGates
  <2>. USE <1>5 DEF SendTableToGates
  <2>1. BatchIsUnsent /\ IsFiniteSet(SentCircuits) /\ SentCircuits \subseteq qtaken
    BY DEF BatchIsKnown, PipeOver
  <2>2. InTable' = InTable /\ NoCircuitTwice'
    BY DEF InTable, NoCircuitTwice
  <2>3. \A f \in InTable : f \in CircuitFiles /\ qgiven[f] = 0
    BY <2>1 DEF BatchIsUnsent, SentCircuits, PipeTypes
  <2>4. PipeTypes'
    BY <2>3 DEF PipeTypes, PipePlaces, GatesStates
  <2>5. SentCircuits' = SentCircuits \cup InTable
    BY <2>3 DEF SentCircuits, PipeTypes
  <2>6. SentCircuits \cap InTable = {} /\ qtaken = SentCircuits \cup InTable
    BY <2>1 DEF BatchIsUnsent
  <2>7. IsFiniteSet(InTable) /\ Cardinality(InTable) = Len(table)
    BY TableIsASet DEF PipeTypes
  <2>8. /\ IsFiniteSet(SentCircuits')
        /\ Cardinality(SentCircuits') = Cardinality(SentCircuits) + Cardinality(InTable)
    <3>1. Cardinality(SentCircuits \cap InTable) = 0
      BY <2>6, FS_EmptySet
    <3>2. Cardinality(SentCircuits) \in Nat /\ Cardinality(InTable) \in Nat
      BY <2>1, <2>7, FS_CardinalityType
    <3>3. /\ IsFiniteSet(SentCircuits \cup InTable)
          /\ Cardinality(SentCircuits \cup InTable)
               = Cardinality(SentCircuits) + Cardinality(InTable) - Cardinality(SentCircuits \cap InTable)
      BY <2>1, <2>7, FS_Union
    <3>. QED BY <2>5, <3>1, <3>2, <3>3
  <2>9. BatchIsSent'
    BY <2>1, <2>2, <2>5, <2>6, <2>7, <2>8 DEF BatchIsSent, BatchIsUnsent
  <2>10. BatchIsKnown'
    BY <2>5, <2>6, <2>8, <2>9 DEF BatchIsKnown
  <2>. QED BY <2>2, <2>4, <2>10 DEF ReportIsTotal, GatesIsWaitedFor
<1>6. CASE CountFiles
  <2>. USE <1>6 DEF CountFiles
  <2>1. BatchIsSent
    BY DEF BatchIsKnown, PipeOver
  <2>2. InTable' = {} /\ SentCircuits' = SentCircuits
    BY DEF InTable, SentCircuits
  <2>3. BatchIsKnown'
    BY <2>1, <2>2 DEF BatchIsKnown, BatchIsSent, BatchIsUnsent, PipeOver
  <2>4. PipeTypes'
    BY DEF PipeTypes, PipePlaces
  <2>. QED BY <2>3, <2>4 DEF ReportIsTotal, GatesIsWaitedFor, NoCircuitTwice
<1>. QED BY <1>1, <1>2, <1>3, <1>4, <1>5, <1>6 DEF PipeMoves, PipeStep

-----------------------------------------------------------------------------
(***************************************************************************)
(* main and the signals                                                    *)
(***************************************************************************)
LEMMA ParallelStays ==
  ASSUME IInv, ParallelMoves
  PROVE  /\ Started \subseteq Started'
         /\ ParallelGone => ParallelGone'
         /\ ppc = "unborn" => ppc' = "unborn" \/ Fork1
<1>1. Started \subseteq Started'
  <2>1. fifa \in [CountryFiles -> FifaStates]
    BY DEF IInv, ParallelInv, ParallelTypes
  <2>2. CASE UNCHANGED fifa
    BY <2>2 DEF Started
  <2>3. ASSUME NEW f \in CountryFiles, NEW to, to # "none", fifa' = [fifa EXCEPT ![f] = to]
        PROVE  Started \subseteq Started'
    BY <2>1, <2>3 DEF Started
  <2>4. CASE ppc = "fork" /\ fifa' = [fifa EXCEPT ![hand] = "starts"]
    <3>1. hand \in CountryFiles
      BY <2>4 DEF IInv, ParallelInv, ParallelTypes, EachHasAFifa, Holding
    <3>. QED BY <2>3, <2>4, <3>1
  <2>5. CASE ppc = "sync" /\ fifa' = [fifa EXCEPT ![hand] = "loads"]
    <3>1. hand \in CountryFiles
      BY <2>5 DEF IInv, ParallelInv, ParallelTypes, EachHasAFifa, Holding
    <3>. QED BY <2>3, <2>5, <3>1
  <2>6. ASSUME NEW f \in CountryFiles, FifaStep(f) \/ FifaRefuses(f) \/ FifaHangs(f) PROVE Started \subseteq Started'
    <3>1. \E to : to # "none" /\ fifa' = [fifa EXCEPT ![f] = to]
      BY <2>6 DEF FifaStep, FifaSendsPid, FifaAnswers, FifaEnds, FifaMoves, FifaRefuses,
                    FifaHangs, FifaGoesWrong
    <3>. QED BY <2>3, <3>1
  <2>7. ASSUME NEW f \in CountryFiles, FifaInterrupted(f) PROVE Started \subseteq Started'
    BY <2>1, <2>7 DEF FifaInterrupted, Started
  <2>. QED
    BY <2>2, <2>4, <2>5, <2>6, <2>7
    DEF ParallelMoves, parallelVars, Fork1, ExecParallel, ParallelStep, Listen, TestSignal, NoFiles, ProcessFile,
        StartFifa, Synchronize, SendTable, ReadAck, FifaIsMissed, WaitForFifas, CountryFileArrives,
        EmptyTableFails, FileDoesNotOpen, FileDoesNotMove, ParallelInterrupted
<1>2. ParallelGone => ParallelGone'
  BY DEF IInv, MainInv, ParallelGone, Over, ParallelMoves, parallelVars, Fork1, ExecParallel, ParallelStep,
         Listen, TestSignal, NoFiles, ProcessFile, StartFifa, Synchronize, SendTable, ReadAck, FifaIsMissed,
         WaitForFifas, CountryFileArrives, EmptyTableFails, FileDoesNotOpen, FileDoesNotMove,
         ParallelInterrupted, FifaStep, FifaSendsPid, FifaAnswers, FifaEnds, FifaMoves, FifaRefuses,
         FifaHangs, FifaGoesWrong, FifaInterrupted
<1>3. ppc = "unborn" => ppc' = "unborn" \/ Fork1
  BY DEF ParallelMoves, parallelVars, ExecParallel, ParallelStep,
         Listen, TestSignal, NoFiles, ProcessFile, StartFifa, Synchronize, SendTable, ReadAck, FifaIsMissed,
         WaitForFifas, CountryFileArrives, EmptyTableFails, FileDoesNotOpen, FileDoesNotMove,
         ParallelInterrupted, FifaStep, FifaSendsPid, FifaAnswers, FifaEnds, FifaMoves, FifaRefuses,
         FifaHangs, FifaGoesWrong, FifaInterrupted
<1>. QED BY <1>1, <1>2, <1>3

LEMMA PipeStays ==
  ASSUME IInv, PipeMoves
  PROVE  /\ PipeGone => PipeGone'
         /\ qpc = "unborn" => qpc' = "unborn" \/ Fork2
BY DEF IInv, MainInv, PipeGone, PipeOver, PipeMoves, pipeVars, Fork2, ExecPipe, PipeStep, PipeListens,
       StartGates, SynchronizeGates, FilesSeen, Collect, EndOfDirectory, SendTableToGates, CountFiles, WaitForGates,
       GatesIsMissed, FileIsBad,
       GatesFails, GatesHangs, GatesGoesWrong, PipeInterrupted, GatesStep, GatesSendsPid, GatesEnds, GatesLosesPipe, GatesMoves,
       GatesInterrupted, HandlerExits, CircuitFileArrives

LEMMA MainStepInv == IInv /\ Next => MainInv'
<1>. SUFFICES ASSUME IInv, Next PROVE MainInv'
  OBVIOUS
<1>1. MainInv
  BY DEF IInv
<1>2. ParallelMoves /\ PipeMoves
  BY NextMoves
<1>3. /\ ParallelGone => ParallelGone'
      /\ ppc = "unborn" => ppc' = "unborn" \/ Fork1
      /\ PipeGone => PipeGone'
      /\ qpc = "unborn" => qpc' = "unborn" \/ Fork2
  BY <1>2, ParallelStays, PipeStays
<1>4. CASE Fork1
  BY <1>1, <1>4 DEF MainInv, Fork1, pipeVars
<1>5. CASE Fork2
  BY <1>1, <1>5 DEF MainInv, Fork2
<1>6. CASE Wait
  BY <1>1, <1>3, <1>6 DEF MainInv, Wait, ParallelGone, PipeGone, parallelVars, pipeVars
<1>7. CASE UNCHANGED mainVars
  BY <1>1, <1>3, <1>7 DEF MainInv, mainVars, Fork1, Fork2
<1>8. Fork1 \/ Fork2 \/ Wait \/ UNCHANGED mainVars
  BY DEF Next, MainStep, Handler, ExecParallel, ExecPipe, ParallelRuns, PipeRuns, HandlerRuns, GatesRuns,
         FifaRuns, Arrives, GoesWrong, Interrupt, TakeSignal, CopyHandles
<1>. QED BY <1>4, <1>5, <1>6, <1>7, <1>8

LEMMA SignalsStepInv == IInv /\ Next => SignalsInv'
<1>. SUFFICES ASSUME IInv, Next PROVE SignalsInv'
  OBVIOUS
<1>1. Started \subseteq Started'
  BY NextMoves, ParallelStays
<1>2. Group \cap CountryFiles \subseteq Started
  BY ProgramsAssumption DEF Group, Alive, Programs, Started
<1>3. \/ pending' \subseteq pending \cup Group
      \/ pending' = {"main"}
  BY Zenon DEF Next, MainStep, Handler, Fork1, Fork2, Wait, ExecParallel, ExecPipe, ParallelRuns, PipeRuns,
         HandlerRuns, GatesRuns, FifaRuns, Arrives, GoesWrong, Interrupt, TakeSignal, Taken, CopyHandles, signalVars
<1>4. "main" \notin CountryFiles
  BY ProgramsAssumption DEF Programs
<1>. QED BY <1>1, <1>2, <1>3, <1>4 DEF IInv, SignalsInv

-----------------------------------------------------------------------------
(* The invariant of parallel, of pipe and of main holds in every state. *)
THEOREM ServerInductive == Spec => []IInv
<1>1. Init => IInv
  BY ParallelStarts, PipeStarts DEF Init, IInv, MainInv, SignalsInv, ParallelInit, PipeInit
<1>2. IInv /\ [Next]_vars => IInv'
  <2>1. CASE UNCHANGED vars
    <3>1. ParallelMoves /\ PipeMoves
      BY <2>1 DEF vars, ParallelMoves, PipeMoves
    <3>2. IInv => MainInv' /\ SignalsInv'
      BY <2>1 DEF IInv, MainInv, SignalsInv, Started, vars, parallelVars, pipeVars, mainVars, signalVars,
                  ParallelGone, PipeGone
    <3>. QED BY <3>1, <3>2, ParallelStepInv, PipeStepInv DEF IInv
  <2>. QED BY <2>1, NextMoves, ParallelStepInv, PipeStepInv, MainStepInv, SignalsStepInv DEF IInv
<1>. QED BY <1>1, <1>2, PTL DEF Spec

(* A parallel that returns has nothing half done. *)
THEOREM ParallelFinishes == Spec => []NothingHalfDone
<1>1. IInv => NothingHalfDone
  BY DEF IInv, ParallelInv, ParallelTypes, EachHasAFifa, ReturnedIsDone, NothingHalfDone, Started, Holding,
         Fruitless, Over
<1>. QED BY <1>1, ServerInductive, PTL

(* An interruption loses no more circuits than the batch it falls on. *)
THEOREM BatchAtRisk == Spec => []OnlyTheBatchIsLost
<1>1. IInv => OnlyTheBatchIsLost
  BY DEF IInv, PipeInv, PipeTypes, BatchIsKnown, BatchIsUnsent, BatchIsSent, OnlyTheBatchIsLost
<1>. QED BY <1>1, ServerInductive, PTL

(* The count that pipe prints is that of the circuits sent, but for the last batch. *)
THEOREM CountIsHonest == Spec => []ReportIsHonest
<1>1. IInv => ReportIsHonest
  <2>. SUFFICES ASSUME IInv, reported # NotReported PROVE ReportIsHonest
    BY DEF ReportIsHonest
  <2>. USE DEF IInv, PipeInv
  <2>1. qpc = "exited" /\ reported = total /\ total \in Nat /\ Len(table) \in Nat
    BY DEF ReportIsTotal, PipeTypes
  <2>2. BatchIsUnsent \/ BatchIsSent
    BY <2>1 DEF BatchIsKnown, PipeOver
  <2>. QED BY <2>1, <2>2 DEF BatchIsUnsent, BatchIsSent, ReportIsHonest
<1>. QED BY <1>1, ServerInductive, PTL

(* main outlives parallel and pipe, and an interrupted pipe its gates. *)
THEOREM ChildrenEndFirst == Spec => []ParentsEndLast
<1>1. IInv => ParentsEndLast
  BY DEF IInv, PipeInv, MainInv, GatesIsWaitedFor, ParentsEndLast
<1>. QED BY <1>1, ServerInductive, PTL

-----------------------------------------------------------------------------
(***************************************************************************)
(* Both directories are served as FileServer promises.                     *)
(***************************************************************************)
LEMMA CountriesStep == IInv /\ ParallelMoves => [CountriesServed!Next]_(CountriesServed!fvars)
<1>. SUFFICES ASSUME IInv, ParallelMoves, ~ UNCHANGED CountriesServed!fvars PROVE CountriesServed!Next
  OBVIOUS
<1>. USE DEF CountriesServed!fvars
<1>1. ParallelInv
  BY DEF IInv
<1>2. CASE \E f \in CountryFiles : CountryFileArrives(f)
  BY <1>2 DEF CountryFileArrives, CountriesServed!Next, CountriesServed!Arrive
<1>3. CASE \E f \in CountryFiles : ProcessFile(f)
  BY <1>3 DEF ProcessFile, CountriesServed!Next, CountriesServed!Take
<1>4. CASE SendTable
  <2>1. hand \in taken /\ hand \in CountryFiles /\ given[hand] = 0
    BY <1>1, <1>4 DEF SendTable, ParallelInv, ParallelTypes, EachHasAFifa, Holding
  <2>2. given' = [f \in CountryFiles |-> given[f] + (IF f \in {hand} THEN 1 ELSE 0)]
    <3>1. \A f \in CountryFiles : given'[f] = given[f] + (IF f \in {hand} THEN 1 ELSE 0)
      BY <1>1, <1>4, <2>1 DEF SendTable, ParallelInv, ParallelTypes
    <3>2. given' = [f \in CountryFiles |-> given'[f]]
      BY <1>1, <1>4 DEF SendTable, ParallelInv, ParallelTypes
    <3>. QED BY <3>1, <3>2
  <2>3. CountriesServed!Give({hand})
    BY <1>4, <2>1, <2>2 DEF SendTable, CountriesServed!Give
  <2>. QED BY <2>1, <2>3 DEF CountriesServed!Next
<1>. QED
  BY <1>2, <1>3, <1>4
  DEF ParallelMoves, parallelVars, Fork1, ExecParallel, ParallelStep, Listen, TestSignal, NoFiles,
      StartFifa, Synchronize, ReadAck, FifaIsMissed, WaitForFifas, EmptyTableFails,
      FileDoesNotOpen, FileDoesNotMove, ParallelInterrupted, FifaStep, FifaSendsPid, FifaAnswers, FifaEnds,
      FifaMoves, FifaRefuses, FifaHangs, FifaGoesWrong, FifaInterrupted

LEMMA CircuitsStep == IInv /\ PipeMoves => [CircuitsServed!Next]_(CircuitsServed!fvars)
<1>. SUFFICES ASSUME IInv, PipeMoves, ~ UNCHANGED CircuitsServed!fvars PROVE CircuitsServed!Next
  OBVIOUS
<1>. USE DEF CircuitsServed!fvars
<1>1. PipeInv
  BY DEF IInv
<1>2. CASE \E f \in CircuitFiles : CircuitFileArrives(f)
  BY <1>2 DEF CircuitFileArrives, CircuitsServed!Next, CircuitsServed!Arrive
<1>3. CASE \E f \in CircuitFiles : Collect(f)
  BY <1>1, <1>3 DEF Collect, PipeInv, PipeTypes, CircuitsServed!Next, CircuitsServed!Take
<1>4. CASE SendTableToGates
  <2>1. BatchIsUnsent /\ qtaken \subseteq CircuitFiles /\ qgiven \in [CircuitFiles -> {0, 1}]
    BY <1>1, <1>4 DEF SendTableToGates, PipeInv, PipeTypes, BatchIsKnown, PipeOver
  <2>2. InTable \subseteq qtaken /\ \A f \in InTable : qgiven[f] = 0
    BY <2>1 DEF BatchIsUnsent, SentCircuits
  <2>3. CircuitsServed!Give(InTable)
    BY <1>4, <2>2 DEF SendTableToGates, CircuitsServed!Give
  <2>. QED BY <2>2, <2>3 DEF CircuitsServed!Next
<1>. QED
  BY <1>2, <1>3, <1>4
  DEF PipeMoves, pipeVars, Fork2, ExecPipe, PipeStep, PipeListens, StartGates, SynchronizeGates, FilesSeen,
      EndOfDirectory, CountFiles, WaitForGates, GatesIsMissed, FileIsBad,
      GatesFails, GatesHangs, GatesGoesWrong, PipeInterrupted, GatesStep,
      GatesSendsPid, GatesEnds, GatesLosesPipe, GatesMoves, GatesInterrupted, HandlerExits

(* No file of countries and no circuit is given to two workers, nor to one before
   it has left the directory in which it would be found again. *)
THEOREM FilesAreGivenOnce == Spec => ServedSpec
<1>1. Init => CountriesServed!Init /\ CircuitsServed!Init
  BY DEF Init, ParallelInit, PipeInit, CountriesServed!Init, CircuitsServed!Init
<1>2. IInv /\ [Next]_vars
      => /\ [CountriesServed!Next]_(CountriesServed!fvars)
         /\ [CircuitsServed!Next]_(CircuitsServed!fvars)
  <2>1. [Next]_vars => ParallelMoves /\ PipeMoves
    BY NextMoves DEF vars, ParallelMoves, PipeMoves
  <2>. QED BY <2>1, CountriesStep, CircuitsStep
<1>. QED
  BY <1>1, <1>2, ServerInductive, PTL DEF Spec, ServedSpec, CountriesServed!Spec, CircuitsServed!Spec
=============================================================================
