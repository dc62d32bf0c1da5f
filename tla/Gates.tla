------------------------------- MODULE Gates -------------------------------
(***************************************************************************)
(* One gates process and its levels children (gates.c, levels.c) over the  *)
(* default transport, pipes.                                               *)
(*                                                                         *)
(* gates solves a batch of circuits in rounds.  In round r file f is at    *)
(* level r - f: every file that is at one of its levels gets a child of    *)
(* its own, which is sent that level and the one before, evaluates it and  *)
(* sends it back, gate by gate, into the table.  A file is saved in the    *)
(* round of its last level.  How father and children meet in each round    *)
(* (setupIPC ... synchronize) is the subject of Handshake.             *)
(***************************************************************************)
EXTENDS Levels, FiniteSets

CONSTANTS
  QtyFiles,    \* qtyFiles
  Batches,     \* the tables of circuits that may come from pipe
  MaxFaults    \* bound: children that die, selects that find every child slow

Files == 0 .. QtyFiles - 1
Circuit == Seq(Seq(Gate))

ASSUME FilesAssumption == QtyFiles \in Nat \ {0}
ASSUME BatchesAssumption ==
  \A b \in Batches :
    /\ b \in [Files -> Circuit]
    /\ \A f \in Files : b[f] # <<>> /\ \A k \in DOMAIN b[f] : b[f][k] # <<>>
ASSUME FaultAssumption == MaxFaults \in Nat

VARIABLES
  \* gates
  table,      \* table[f][k + 1] is level k of file f
  level,      \* levels[]
  gpc,        \* where gates is
  i,          \* the index of its loops
  pid,        \* childPids[f]: "none" is -1, "read" a pid made negative
  ready,      \* the channels the last select found readable
  left,       \* levelsAmm
  cur, row,   \* the file and level being received, and its next gate
  saved,      \* what has been written for each file
  status,     \* how gates ends: "open" until it does
  \* the children, and the pipes
  cpc,        \* where the child of each file is
  job,        \* what it has been sent
  todo,       \* what it still has to send
  up,         \* what it has sent and gates has not read
  faults

gatesVars == <<table, level, gpc, i, pid, ready, left, cur, row, saved, status>>
childVars == <<cpc, job, todo, up>>
vars == <<gatesVars, childVars, faults>>

MaxLevel(f) == Len(table[f])
Active(f) == level[f] >= 0 /\ level[f] < MaxLevel(f)
AllFilesWereProcessed == \A f \in Files : level[f] >= MaxLevel(f)
CurrentPipeFiles == Cardinality({f \in Files : Active(f)})

Alive(f) == cpc[f] \in {"job", "answer"}

\* Children inherit the pipes of their siblings: data end, and nobody is left
\* to read, only when all are gone.
AllGone == \A f \in Files : ~ Alive(f)
Readable(f) == up[f] # <<>> \/ (pid[f] # "none" /\ AllGone)

NoJob == [cur |-> <<>>, prev |-> <<>>, notFirst |-> FALSE, at |-> <<0, 0>>]

\* Mutant: the files begin two rounds apart.
InitLevelsApart == [f \in Files |-> -2 * f]

\* initLevels
InitLevels == [f \in Files |-> - f]

\* addMoreFiles has read the batch.
Init ==
  /\ table \in Batches
  /\ level = InitLevels
  /\ gpc = "round" /\ i = 0
  /\ pid = [f \in Files |-> "none"]
  /\ ready = {} /\ left = 0
  /\ cur = <<0, 0>> /\ row = 1
  /\ saved = [f \in Files |-> <<>>]
  /\ status = "open"
  /\ cpc = [f \in Files |-> "none"]
  /\ job = [f \in Files |-> NoJob]
  /\ todo = [f \in Files |-> <<>>]
  /\ up = [f \in Files |-> <<>>]
  /\ faults = 0

-----------------------------------------------------------------------------
(***************************************************************************)
(* startCircuitsPipeline                                                   *)
(***************************************************************************)
\* A child for each file that is at one of its levels.
StartRound ==
  /\ gpc = "round" /\ ~ AllFilesWereProcessed
  /\ pid' = [f \in Files |-> IF Active(f) THEN "unread" ELSE "none"]
  /\ cpc' = [f \in Files |-> IF Active(f) THEN "job" ELSE "none"]
  /\ gpc' = "send" /\ i' = 0
  /\ UNCHANGED <<table, level, ready, left, cur, row, saved, status, job, todo, up, faults>>

\* The level and, unless it is the first, the one before.
JobOf(f) ==
  LET k == level[f] + 1
  IN  [cur |-> table[f][k],
       prev |-> IF level[f] = 0 THEN <<>> ELSE table[f][k - 1],
       notFirst |-> level[f] # 0,
       at |-> <<f, level[f]>>]

SendJob ==
  /\ gpc = "send"
  /\ IF i = QtyFiles
     THEN /\ gpc' = "listen" /\ left' = CurrentPipeFiles
          /\ UNCHANGED <<i, job, status>>
     ELSE IF ~ Active(i) THEN i' = i + 1 /\ UNCHANGED <<gpc, left, job, status>>
     ELSE IF AllGone THEN gpc' = "end" /\ status' = "killed" /\ UNCHANGED <<i, left, job>>
     ELSE i' = i + 1 /\ job' = [job EXCEPT ![i] = JobOf(i)] /\ UNCHANGED <<gpc, left, status>>
  /\ UNCHANGED <<table, level, pid, ready, cur, row, saved, cpc, todo, up, faults>>

-----------------------------------------------------------------------------
(***************************************************************************)
(* listenToMyChildren                                                      *)
(***************************************************************************)
Select ==
  /\ gpc = "listen" /\ left > 0
  /\ \E f \in Files : Readable(f)
  /\ ready' = {f \in Files : Readable(f)}
  /\ gpc' = "scan" /\ i' = 0
  /\ UNCHANGED <<table, level, pid, left, cur, row, saved, status, childVars, faults>>

\* Nothing more to wait for: the loop ends.
StopListening ==
  /\ gpc = "listen"
  /\ left = 0
  /\ gpc' = "save" /\ i' = 0
  /\ UNCHANGED <<table, level, pid, ready, left, cur, row, saved, status, childVars, faults>>

\* Nothing for two seconds: the loop ends as well, and the caller is told that
\* all went well.
SelectTimesOut ==
  /\ gpc = "listen" /\ left > 0
  /\ \A f \in Files : ~ Readable(f)
  /\ faults < MaxFaults
  /\ faults' = faults + 1
  /\ gpc' = "save" /\ i' = 0
  /\ UNCHANGED <<table, level, pid, ready, left, cur, row, saved, status, childVars>>

Serving == gpc = "scan" /\ i < QtyFiles /\ pid[i] = "unread" /\ i \in ready

Skip ==
  /\ gpc = "scan" /\ ~ Serving
  /\ IF i < QtyFiles THEN i' = i + 1 /\ UNCHANGED gpc
                     ELSE gpc' = "listen" /\ UNCHANGED i
  /\ UNCHANGED <<table, level, pid, ready, left, cur, row, saved, status, childVars, faults>>

ReadCur ==
  /\ Serving
  /\ up[i] # <<>>
  /\ cur' = Head(up[i]) /\ row' = 1
  /\ up' = [up EXCEPT ![i] = Tail(@)]
  /\ gpc' = "rows"
  /\ UNCHANGED <<table, level, i, pid, ready, left, saved, status, cpc, job, todo, faults>>

\* One gate of the level goes into the table; after the last, the child has
\* been read, and the last child ends the listening.
ReadGate ==
  /\ gpc = "rows"
  /\ up[i] # <<>>
  /\ up' = [up EXCEPT ![i] = Tail(@)]
  /\ table' = [table EXCEPT ![cur[1]][cur[2] + 1][row] = Head(up[i])]
  /\ IF row < Len(table[cur[1]][cur[2] + 1])
     THEN row' = row + 1 /\ UNCHANGED <<gpc, i, pid, left>>
     ELSE /\ left' = left - 1
          /\ IF left' = 0
             THEN gpc' = "listen" /\ UNCHANGED <<i, pid>>
             ELSE gpc' = "scan" /\ i' = i + 1 /\ pid' = [pid EXCEPT ![i] = "read"]
          /\ UNCHANGED row
  /\ UNCHANGED <<level, ready, cur, saved, status, cpc, job, todo, faults>>

\* Mutant: the end of the data is taken for nothing to read yet.
ReadFailsIgnored ==
  /\ Serving \/ gpc = "rows"
  /\ up[i] = <<>> /\ AllGone
  /\ gpc' = "scan" /\ i' = i + 1
  /\ UNCHANGED <<table, level, pid, ready, left, cur, row, saved, status, childVars, faults>>

\* The data end before the answer does.  The end of the data does not set
\* errno, which listenToMyChildren returns: 0, its value until some call
\* fails, makes gates go on as if the round were complete.
ReadFails ==
  /\ Serving \/ gpc = "rows"
  /\ up[i] = <<>> /\ AllGone
  /\ \/ gpc' = "save" /\ i' = 0 /\ UNCHANGED status
     \/ gpc' = "end" /\ status' = "error" /\ UNCHANGED i
  /\ UNCHANGED <<table, level, pid, ready, left, cur, row, saved, childVars, faults>>

-----------------------------------------------------------------------------
(***************************************************************************)
(* gateInitializer                                                         *)
(***************************************************************************)
\* Mutant: the level after the last is waited for.
SaveTooLate ==
  /\ gpc = "save" /\ i < QtyFiles
  /\ saved' = IF level[i] = MaxLevel(i) THEN [saved EXCEPT ![i] = Append(@, table[i])]
                                        ELSE saved
  /\ gpc' = "reap"
  /\ UNCHANGED <<table, level, i, pid, ready, left, cur, row, status, childVars, faults>>

\* Mutant: a file is saved from its last level but one on.
SaveTooSoon ==
  /\ gpc = "save" /\ i < QtyFiles
  /\ saved' = IF Active(i) /\ level[i] >= MaxLevel(i) - 2
              THEN [saved EXCEPT ![i] = Append(@, table[i])] ELSE saved
  /\ gpc' = "reap"
  /\ UNCHANGED <<table, level, i, pid, ready, left, cur, row, status, childVars, faults>>

Save ==
  /\ gpc = "save" /\ i < QtyFiles
  /\ saved' = IF level[i] = MaxLevel(i) - 1 THEN [saved EXCEPT ![i] = Append(@, table[i])]
                                            ELSE saved
  /\ gpc' = "reap"
  /\ UNCHANGED <<table, level, i, pid, ready, left, cur, row, status, childVars, faults>>

\* wait() returns for any child, so the n-th needs n of them to have ended.
Reap ==
  /\ gpc = "reap"
  /\ Active(i) => Cardinality({f \in Files : Active(f) /\ ~ Alive(f)})
                    >= Cardinality({f \in 0 .. i : Active(f)})
  /\ gpc' = "save" /\ i' = i + 1
  /\ UNCHANGED <<table, level, pid, ready, left, cur, row, saved, status, childVars, faults>>

\* childPids is reset, incLevels, finalizeIPC.
EndRound ==
  /\ gpc = "save" /\ i = QtyFiles
  /\ level' = [f \in Files |-> level[f] + 1]
  /\ pid' = [f \in Files |-> "none"]
  /\ cpc' = [f \in Files |-> "none"]
  /\ job' = [f \in Files |-> NoJob]
  /\ todo' = [f \in Files |-> <<>>]
  /\ up' = [f \in Files |-> <<>>]
  /\ gpc' = "round" /\ i' = 0
  /\ UNCHANGED <<table, ready, left, cur, row, saved, status, faults>>

Finish ==
  /\ gpc = "round" /\ AllFilesWereProcessed
  /\ gpc' = "end" /\ status' = "ok"
  /\ UNCHANGED <<table, level, i, pid, ready, left, cur, row, saved, childVars, faults>>

-----------------------------------------------------------------------------
(***************************************************************************)
(* levels                                                                  *)
(***************************************************************************)
\* proccessLevel reads its level and evaluates it.
Evaluate(f) ==
  /\ cpc[f] = "job" /\ job[f] # NoJob
  /\ todo' = [todo EXCEPT ![f] =
                <<job[f].at>> \o EvaluateLevel(job[f].prev, job[f].cur, job[f].notFirst)]
  /\ cpc' = [cpc EXCEPT ![f] = "answer"]
  /\ UNCHANGED <<gatesVars, job, up, faults>>

\* It writes where the level goes and its gates, and exits.
Answer(f) ==
  /\ cpc[f] = "answer"
  /\ up' = [up EXCEPT ![f] = Append(@, Head(todo[f]))]
  /\ todo' = [todo EXCEPT ![f] = Tail(@)]
  /\ cpc' = [cpc EXCEPT ![f] = IF Len(todo[f]) = 1 THEN "exit" ELSE "answer"]
  /\ UNCHANGED <<gatesVars, job, faults>>

Crash(f) ==
  /\ faults < MaxFaults
  /\ Alive(f) /\ gpc # "end"
  /\ cpc' = [cpc EXCEPT ![f] = "dead"]
  /\ faults' = faults + 1
  /\ UNCHANGED <<gatesVars, job, todo, up>>

-----------------------------------------------------------------------------
GatesStep ==
  \/ StartRound \/ SendJob
  \/ Select \/ StopListening \/ Skip \/ ReadCur \/ ReadGate \/ ReadFails
  \/ Save \/ Reap \/ EndRound \/ Finish

LevelsStep(f) == Evaluate(f) \/ Answer(f)

Ended == gpc = "end" /\ UNCHANGED vars

Next == GatesStep \/ SelectTimesOut \/ (\E f \in Files : LevelsStep(f) \/ Crash(f)) \/ Ended

Spec == Init /\ [][Next]_vars

\* gates and its children are processes of the system, which runs them all.
\* Children that are slow or die are not owed.
FairSpec == Spec /\ WF_vars(GatesStep) /\ \A f \in Files : WF_vars(LevelsStep(f))
=============================================================================
