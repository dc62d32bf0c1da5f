-------------------------------- MODULE Fifa --------------------------------
(***************************************************************************)
(* One fifa process and its grouph children (fifa.c, grouph.c) over the    *)
(* default transport, pipes.                                               *)
(*                                                                         *)
(* fifa marks the heads, forks a grouph per group, sends each the table    *)
(* and its head, and then serves them: a grouph asks for a country, fifa   *)
(* answers whether it is still free, and a grouph ends by sending its      *)
(* group or an error.  What travels on a channel is what the code writes:  *)
(* an integer, which is a country asked for, a country of a finished       *)
(* group, or one of the codes -1 (a group follows), -2 and -3.  The length *)
(* sent before each country is left out: it never changes who waits.       *)
(***************************************************************************)
EXTENDS Conditions, Sequences

CONSTANTS
  N,           \* countriesTableEntriesAmm
  GroupSize,   \* countries of a group, the head included: 4 in the code
  Tables,      \* the tables a file may hold
  MayTimeOut,  \* whether a select of two seconds may find every grouph slow
  MaxFaults    \* bound: grouph processes that die or run out of memory

ASSUME SizeAssumption == /\ N \in Nat /\ GroupSize \in Nat
                         /\ GroupSize >= 2 /\ N >= GroupSize
ASSUME TablesAssumption == Tables \subseteq [0 .. N - 1 -> Country]
ASSUME FaultAssumption == MaxFaults \in Nat /\ MayTimeOut \in BOOLEAN

GroupsAmm == N \div GroupSize
Groups == 0 .. GroupsAmm - 1
Countries == 0 .. N - 1
Places == GroupSize - 1

VARIABLES
  table,      \* countriesTable, without its "used" flags
  \* fifa
  fpc,        \* where fifa is
  used,       \* the countries whose "used" flag is set in fifa's table
  sent,       \* how many grouph have been sent the table and their head
  j,          \* the channel childsListener looks at
  ready,      \* the channels the last select found readable
  finished,   \* finished[]
  headsAmm,   \* groups still to be received
  fixture,    \* fixture[][]: the countries received from each grouph
  reaped,     \* the children wait() has returned for
  outcome,    \* what fifa reports: "open" until it does
  \* the grouph processes
  cpc,        \* where each grouph is
  cused,      \* the "used" flags of its copy of the table
  req,        \* reqCountry
  drawn,      \* the countries of its group after the head
  out,        \* what it still has to write before it exits
  \* the pipes
  up,         \* from each grouph to fifa
  down,       \* from fifa to each grouph
  faults      \* how many faults and slow selects have happened

fifaVars == <<fpc, used, sent, j, ready, finished, headsAmm, fixture, reaped, outcome>>
grouphVars == <<cpc, cused, req, drawn, out>>
vars == <<table, fifaVars, grouphVars, up, down, faults>>

IsHead(c) == table[c].isHead

\* The heads that startChildProcesses marks: its first loop counts j for
\* every entry, so it only looks at the first GroupsAmm of them.
MarkedHeads == {c \in Groups : IsHead(c)}

Alive(i) == cpc[i] \notin {"none", "exit", "crash"}

\* Every grouph inherits both ends of every pipe of its siblings, so a read
\* finds the end of the data, and a write nobody to read it, only when no
\* grouph is left.
AllGone == \A i \in Groups : ~ Alive(i)

Readable(i) == up[i] # <<>> \/ AllGone

Init ==
  /\ table \in Tables
  /\ fpc = "start"
  /\ used = {}
  /\ sent = 0
  /\ j = 0
  /\ ready = {}
  /\ finished = {}
  /\ headsAmm = GroupsAmm
  /\ fixture = [i \in Groups |-> <<>>]
  /\ reaped = {}
  /\ outcome = "open"
  /\ cpc = [i \in Groups |-> "none"]
  /\ cused = [i \in Groups |-> {}]
  /\ req = [i \in Groups |-> -1]
  /\ drawn = [i \in Groups |-> <<>>]
  /\ out = [i \in Groups |-> <<>>]
  /\ up = [i \in Groups |-> <<>>]
  /\ down = [i \in Groups |-> <<>>]
  /\ faults = 0

-----------------------------------------------------------------------------
(***************************************************************************)
(* startChildProcesses                                                     *)
(***************************************************************************)

\* Mutant: the heads stay in the pot.
StartChildrenUnmarked ==
  /\ fpc = "start"
  /\ fpc' = "sync"
  /\ used' = {}
  /\ cpc' = [i \in Groups |->
               IF Cardinality({c \in Countries : IsHead(c)}) > i
               THEN "load" ELSE "none"]
  /\ UNCHANGED <<table, sent, j, ready, finished, headsAmm, fixture, reaped, outcome,
                 cused, req, drawn, out, up, down, faults>>

\* Mark the heads and fork: the k-th head found, wherever it is, makes the
\* k-th grouph.
StartChildren ==
  /\ fpc = "start"
  /\ fpc' = "sync"
  /\ used' = MarkedHeads
  /\ cpc' = [i \in Groups |->
               IF Cardinality({c \in Countries : IsHead(c)}) > i
               THEN "load" ELSE "none"]
  /\ UNCHANGED <<table, sent, j, ready, finished, headsAmm, fixture, reaped, outcome,
                 cused, req, drawn, out, up, down, faults>>

\* synchronize waits for as many children as there are channels.
Synchronize ==
  /\ fpc = "sync"
  /\ \A i \in Groups : cpc[i] # "none"
  /\ fpc' = "send"
  /\ UNCHANGED <<table, used, sent, j, ready, finished, headsAmm, fixture, reaped, outcome,
                 grouphVars, up, down, faults>>

\* The table and, as the head, entry i of it.  cused[i] is the copy that
\* travels in the pipe until grouph i has read it.
SendTable ==
  /\ fpc = "send"
  /\ IF AllGone
     THEN /\ fpc' = "done" /\ outcome' = "killed"
          /\ UNCHANGED <<sent, cused>>
     ELSE /\ cused' = [cused EXCEPT ![sent] = used]
          /\ sent' = sent + 1
          /\ fpc' = IF sent' = GroupsAmm THEN "listen" ELSE "send"
          /\ UNCHANGED outcome
  /\ UNCHANGED <<table, used, j, ready, finished, headsAmm, fixture, reaped,
                 cpc, req, drawn, out, up, down, faults>>

-----------------------------------------------------------------------------
(***************************************************************************)
(* childsListener                                                          *)
(***************************************************************************)

\* selectIPC(2) finds something: a scan of the channels begins.
Select ==
  /\ fpc = "listen"
  /\ \E i \in Groups : Readable(i)
  /\ ready' = {i \in Groups : Readable(i)}
  /\ j' = 0
  /\ fpc' = "scan"
  /\ UNCHANGED <<table, used, sent, finished, headsAmm, fixture, reaped, outcome,
                 grouphVars, up, down, faults>>

\* selectIPC(2) finds nothing for two seconds, which counts as a fault: the
\* loop ends.
SelectTimesOut ==
  /\ MayTimeOut
  /\ fpc = "listen"
  /\ \A i \in Groups : ~ Readable(i)
  /\ fpc' = "wait"
  /\ faults' = faults + 1
  /\ UNCHANGED <<table, used, sent, j, ready, finished, headsAmm, fixture, reaped, outcome,
                 grouphVars, up, down>>

Serving == fpc = "scan" /\ j < GroupsAmm /\ j \notin finished /\ j \in ready

\* Mutant: a channel that is passed over is looked at again.
SkipStays ==
  /\ fpc = "scan"
  /\ ~ Serving
  /\ j' = j
  /\ fpc' = IF j < GroupsAmm THEN "scan" ELSE "listen"
  /\ UNCHANGED <<table, used, sent, ready, finished, headsAmm, fixture, reaped, outcome,
                 grouphVars, up, down, faults>>

\* The for loop passes over a channel that is finished or was not readable,
\* and ends after the last one.
Skip ==
  /\ fpc = "scan"
  /\ ~ Serving
  /\ IF j < GroupsAmm THEN j' = j + 1 /\ fpc' = "scan"
                      ELSE j' = j /\ fpc' = "listen"
  /\ UNCHANGED <<table, used, sent, ready, finished, headsAmm, fixture, reaped, outcome,
                 grouphVars, up, down, faults>>

\* readIPC meets the end of the data: childsListener returns -1 at once.
ReadFails ==
  /\ Serving \/ fpc = "receive"
  /\ up[j] = <<>> /\ AllGone
  /\ fpc' = "done"
  /\ outcome' = "error"
  /\ UNCHANGED <<table, used, sent, j, ready, finished, headsAmm, fixture, reaped,
                 grouphVars, up, down, faults>>

\* Mutant: a country that is given out is not marked.
AnswerUnmarked ==
  /\ Serving
  /\ up[j] # <<>> /\ Head(up[j]) >= 0
  /\ down' = [down EXCEPT ![j] = Append(@, Head(up[j]) \notin used)]
  /\ j' = j + 1
  /\ up' = [up EXCEPT ![j] = Tail(@)]
  /\ UNCHANGED <<table, used, fpc, outcome, sent, ready, finished, headsAmm, fixture, reaped,
                 grouphVars, faults>>

\* Mutant: a country that is taken is not answered.
AnswerOnlyFree ==
  /\ Serving
  /\ up[j] # <<>> /\ Head(up[j]) >= 0
  /\ used' = used \cup {Head(up[j])}
  /\ down' = [down EXCEPT ![j] = IF Head(up[j]) \in used THEN @ ELSE Append(@, TRUE)]
  /\ j' = j + 1
  /\ up' = [up EXCEPT ![j] = Tail(@)]
  /\ UNCHANGED <<table, fpc, outcome, sent, ready, finished, headsAmm, fixture, reaped,
                 grouphVars, faults>>

\* A country is asked for.
Answer ==
  /\ Serving
  /\ up[j] # <<>> /\ Head(up[j]) >= 0
  /\ LET c == Head(up[j]) IN
     /\ used' = used \cup {c}
     /\ IF AllGone
        THEN /\ fpc' = "done" /\ outcome' = "killed"
             /\ UNCHANGED <<j, down>>
        ELSE /\ down' = [down EXCEPT ![j] = Append(@, c \notin used)]
             /\ j' = j + 1
             /\ UNCHANGED <<fpc, outcome>>
  /\ up' = [up EXCEPT ![j] = Tail(@)]
  /\ UNCHANGED <<table, sent, ready, finished, headsAmm, fixture, reaped, grouphVars, faults>>

\* -1: the four countries of the group are read next, without select.
GroupFollows ==
  /\ Serving
  /\ up[j] # <<>> /\ Head(up[j]) = -1
  /\ up' = [up EXCEPT ![j] = Tail(@)]
  /\ fpc' = "receive"
  /\ UNCHANGED <<table, used, sent, j, ready, finished, headsAmm, fixture, reaped, outcome,
                 grouphVars, down, faults>>

ReceiveCountry ==
  /\ fpc = "receive"
  /\ up[j] # <<>>
  /\ up' = [up EXCEPT ![j] = Tail(@)]
  /\ fixture' = [fixture EXCEPT ![j] = Append(@, Head(up[j]))]
  /\ IF Len(fixture'[j]) < Places + 1
     THEN UNCHANGED <<fpc, j, finished, headsAmm>>
     ELSE /\ finished' = finished \cup {j}
          /\ headsAmm' = headsAmm - 1
          /\ IF headsAmm' = 0 \/ finished' = Groups
             THEN fpc' = "wait" /\ j' = j
             ELSE fpc' = "scan" /\ j' = j + 1
  /\ UNCHANGED <<table, used, sent, ready, reaped, outcome, grouphVars, down, faults>>

\* -2 and -3: the group will not come; either way the for loop is left.
GroupFails ==
  /\ Serving
  /\ up[j] # <<>> /\ Head(up[j]) \in {-2, -3}
  /\ up' = [up EXCEPT ![j] = Tail(@)]
  /\ finished' = finished \cup {j}
  /\ fpc' = IF finished' = Groups THEN "wait" ELSE "listen"
  /\ UNCHANGED <<table, used, sent, j, ready, headsAmm, fixture, reaped, outcome,
                 grouphVars, down, faults>>

\* wait(), once per group.  An exit status is never below 0, so the test
\* that should set errorStat is never met.
Reap ==
  /\ fpc = "wait"
  /\ \E i \in Groups \ reaped : ~ Alive(i) /\ reaped' = reaped \cup {i}
  /\ UNCHANGED <<table, fpc, used, sent, j, ready, finished, headsAmm, fixture, outcome,
                 grouphVars, up, down, faults>>

Report ==
  /\ fpc = "wait"
  /\ reaped = Groups
  /\ fpc' = "done"
  /\ outcome' = IF finished # Groups THEN "error"
                ELSE IF headsAmm # 0 THEN "no solution" ELSE "solution"
  /\ UNCHANGED <<table, used, sent, j, ready, finished, headsAmm, fixture, reaped,
                 grouphVars, up, down, faults>>

-----------------------------------------------------------------------------
(***************************************************************************)
(* grouph                                                                  *)
(***************************************************************************)

\* loadHeadAndCountriesTable, checkConditions, buildCondArgs, prepareGroup.
Load(i) ==
  /\ cpc[i] = "load" /\ i < sent
  /\ cpc' = [cpc EXCEPT ![i] = "draw"]
  /\ UNCHANGED <<table, fifaVars, cused, req, drawn, out, up, down, faults>>

Drawing(i) == cpc[i] = "draw" /\ ~ Dies(table, i, cused[i])

Ask(i) ==
  /\ Drawing(i)
  /\ \E c \in Candidates(table, i, cused[i]) :
       /\ req' = [req EXCEPT ![i] = c]
       /\ up' = [up EXCEPT ![i] = Append(@, c)]
  /\ cpc' = [cpc EXCEPT ![i] = "ask"]
  /\ UNCHANGED <<table, fifaVars, cused, drawn, out, down, faults>>

NoCandidate(i) ==
  /\ Drawing(i)
  /\ Candidates(table, i, cused[i]) = {}
  /\ out' = [out EXCEPT ![i] = <<-2>>]
  /\ cpc' = [cpc EXCEPT ![i] = "send"]
  /\ UNCHANGED <<table, fifaVars, cused, req, drawn, up, down, faults>>

\* A slot that is dereferenced holds NULL, or noCondition finds nothing free.
Die(i) ==
  /\ cpc[i] = "draw" /\ Dies(table, i, cused[i])
  /\ cpc' = [cpc EXCEPT ![i] = "crash"]
  /\ UNCHANGED <<table, fifaVars, cused, req, drawn, out, up, down, faults>>

\* Mutant: the head is not sent with its group.
ReadAnswerWithoutHead(i) ==
  /\ cpc[i] = "ask"
  /\ down[i] # <<>>
  /\ down' = [down EXCEPT ![i] = Tail(@)]
  /\ cused' = [cused EXCEPT ![i] = @ \cup {req[i]}]
  /\ drawn' = [drawn EXCEPT ![i] = IF Head(down[i]) THEN Append(@, req[i]) ELSE @]
  /\ IF Len(drawn'[i]) = Places
     THEN /\ cpc' = [cpc EXCEPT ![i] = "send"]
          /\ out' = [out EXCEPT ![i] = <<-1>> \o drawn'[i]]
     ELSE /\ cpc' = [cpc EXCEPT ![i] = "draw"]
          /\ UNCHANGED out
  /\ UNCHANGED <<table, fifaVars, req, up, faults>>

\* Mutant: the test of the answer is inverted.
ReadAnswerInverted(i) ==
  /\ cpc[i] = "ask"
  /\ down[i] # <<>>
  /\ down' = [down EXCEPT ![i] = Tail(@)]
  /\ cused' = [cused EXCEPT ![i] = @ \cup {req[i]}]
  /\ drawn' = [drawn EXCEPT ![i] = IF Head(down[i]) THEN @ ELSE Append(@, req[i])]
  /\ IF Len(drawn'[i]) = Places
     THEN /\ cpc' = [cpc EXCEPT ![i] = "send"]
          /\ out' = [out EXCEPT ![i] = <<-1, i>> \o drawn'[i]]
     ELSE /\ cpc' = [cpc EXCEPT ![i] = "draw"]
          /\ UNCHANGED out
  /\ UNCHANGED <<table, fifaVars, req, up, faults>>

\* The answer to the request: taken, or the country joins the group.  The
\* fourth country of the group makes it ready to be sent.
ReadAnswer(i) ==
  /\ cpc[i] = "ask"
  /\ down[i] # <<>>
  /\ down' = [down EXCEPT ![i] = Tail(@)]
  /\ cused' = [cused EXCEPT ![i] = @ \cup {req[i]}]
  /\ drawn' = [drawn EXCEPT ![i] = IF Head(down[i]) THEN Append(@, req[i]) ELSE @]
  /\ IF Len(drawn'[i]) = Places
     THEN /\ cpc' = [cpc EXCEPT ![i] = "send"]
          /\ out' = [out EXCEPT ![i] = <<-1, i>> \o drawn'[i]]
     ELSE /\ cpc' = [cpc EXCEPT ![i] = "draw"]
          /\ UNCHANGED out
  /\ UNCHANGED <<table, fifaVars, req, up, faults>>

\* One write of sendSubfixture or sendErrorToParent.
Send(i) ==
  /\ cpc[i] = "send" /\ out[i] # <<>>
  /\ up' = [up EXCEPT ![i] = Append(@, Head(out[i]))]
  /\ out' = [out EXCEPT ![i] = Tail(@)]
  /\ UNCHANGED <<table, fifaVars, cpc, cused, req, drawn, down, faults>>

Exit(i) ==
  /\ cpc[i] = "send" /\ out[i] = <<>>
  /\ cpc' = [cpc EXCEPT ![i] = "exit"]
  /\ UNCHANGED <<table, fifaVars, cused, req, drawn, out, up, down, faults>>

\* A failed malloc that grouph handles: -3 before the group is begun and when
\* its only condition fails, but -2 when the array of threads is refused.
OutOfMemory(i) ==
  /\ faults < MaxFaults
  /\ \/ cpc[i] = "load" /\ i < sent /\ out' = [out EXCEPT ![i] = <<-3>>]
     \/ cpc[i] = "draw" /\ drawn[i] = <<>> /\ out' = [out EXCEPT ![i] = <<-2>>]
     \/ cpc[i] = "draw" /\ CondAmm(table, i) = 1 /\ out' = [out EXCEPT ![i] = <<-3>>]
  /\ cpc' = [cpc EXCEPT ![i] = "send"]
  /\ faults' = faults + 1
  /\ UNCHANGED <<table, fifaVars, cused, req, drawn, up, down>>

\* The process is killed, or dies of a failed malloc it does not handle.
Crash(i) ==
  /\ faults < MaxFaults
  /\ fpc \notin {"start", "sync"}
  /\ Alive(i)
  /\ cpc' = [cpc EXCEPT ![i] = "crash"]
  /\ faults' = faults + 1
  /\ UNCHANGED <<table, fifaVars, cused, req, drawn, out, up, down>>

-----------------------------------------------------------------------------
FifaStep ==
  \/ StartChildren \/ Synchronize \/ SendTable
  \/ Select \/ Skip \/ ReadFails \/ Answer
  \/ GroupFollows \/ ReceiveCountry \/ GroupFails
  \/ Reap \/ Report

GrouphStep(i) ==
  \/ Load(i) \/ Ask(i) \/ NoCandidate(i) \/ Die(i)
  \/ ReadAnswer(i) \/ Send(i) \/ Exit(i)

\* The process tree has ended; nothing more happens.
Ended ==
  /\ fpc = "done" /\ AllGone
  /\ UNCHANGED vars

Next ==
  \/ FifaStep
  \/ SelectTimesOut
  \/ \E i \in Groups : GrouphStep(i) \/ OutOfMemory(i) \/ Crash(i)
  \/ Ended

Spec == Init /\ [][Next]_vars

\* Every process is a separate process of the operating system, which runs
\* each one that can run.  Slow selects, crashes and failures are not owed.
FairSpec == Spec /\ WF_vars(FifaStep) /\ \A i \in Groups : WF_vars(GrouphStep(i))
=============================================================================
