--------------------------- MODULE FifaProperties ---------------------------
(***************************************************************************)
(* What is expected of fifa and its grouph children.                       *)
(***************************************************************************)
EXTENDS Fifa

FifaPlaces == {"start", "sync", "send", "listen", "scan", "receive", "wait", "done"}
GrouphPlaces == {"none", "load", "draw", "ask", "send", "exit", "crash"}
Outcomes == {"open", "solution", "no solution", "error", "killed"}
Codes == {-1, -2, -3}

DrawnSet(i) == {drawn[i][k] : k \in DOMAIN drawn[i]}

\* A country granted to grouph i in an answer it has not read yet.
Owed(i) == IF down[i] # <<>> /\ Head(down[i]) THEN {req[i]} ELSE {}

Given(i) == DrawnSet(i) \cup Owed(i)

Group(i) == <<i>> \o drawn[i]

\* The countries that satisfy the restrictions of the head of group i that do
\* not depend on what is already taken.
Eligible(i) ==
  {c \in Countries :
     /\ "same"  \in table[i].conds => table[c].continent # table[i].continent
     /\ "death" \in table[i].conds => table[c].weight > WeakLimit
     /\ "weak"  \in table[i].conds => table[c].weight <= WeakLimit}

\* As the files that come with the program are: the first N/4 countries are
\* the heads.
HeadsFirst == \A i \in Groups : IsHead(i)

GaveUp(i) == cpc[i] \in {"send", "exit"} /\ Len(drawn[i]) < Places

-----------------------------------------------------------------------------
FifaTypeOK ==
  /\ table \in Tables
  /\ fpc \in FifaPlaces
  /\ used \subseteq Countries
  /\ sent \in 0 .. GroupsAmm
  /\ j \in 0 .. GroupsAmm
  /\ ready \subseteq Groups
  /\ finished \subseteq Groups
  /\ headsAmm \in Int
  /\ reaped \subseteq Groups
  /\ outcome \in Outcomes
  /\ faults \in Nat

GrouphTypeOK ==
  /\ cpc \in [Groups -> GrouphPlaces]
  /\ cused \in [Groups -> SUBSET Countries]
  /\ req \in [Groups -> Countries \cup {-1}]
  /\ drawn \in [Groups -> Seq(Countries)]
  /\ out \in [Groups -> Seq(Countries \cup Codes)]

PipesTypeOK ==
  /\ fixture \in [Groups -> Seq(Countries \cup Codes)]
  /\ up \in [Groups -> Seq(Countries \cup Codes)]
  /\ down \in [Groups -> Seq(BOOLEAN)]

(* The type invariant: what the variables of fifa, of the grouph processes
   and of the pipes between them may hold. *)
TypeOK == FifaTypeOK /\ GrouphTypeOK /\ PipesTypeOK

(* No country is in two groups, nor twice in one: fifa's "used" flags make
   every request of every grouph compete for the same pot, also across the
   moment between fifa's answer and its being read.  (startChildProcesses
   gives country i to group i, and keeps it out of the pot only when it is
   marked as a head; with the heads elsewhere the heads themselves collide.) *)
GroupsDisjoint ==
  /\ \A i \in Groups : \A k \in Groups \ {i} :
        /\ Given(i) \cap Given(k) = {}
        /\ HeadsFirst => k \notin Given(i)
  /\ \A i \in Groups :
        /\ HeadsFirst => i \notin Given(i)
        /\ \A p, q \in DOMAIN drawn[i] : drawn[i][p] = drawn[i][q] => p = q

(* A grouph asks from a copy of the table that grows stale as its siblings
   are served; it may only err on the side of asking in vain: what it takes
   for used really is used in fifa's table. *)
StaleCopiesAreSafe == \A i \in Groups : cused[i] \subseteq used

(* A grouph that says it has no solution, although its copy of the table is
   stale and nothing failed, is right: no free country of fifa's table
   satisfies its restrictions.  (Not so with champGroup, whose set grows when
   the last champion is taken.) *)
NoSolutionIsHonest ==
  faults = 0 =>
    \A i \in Groups :
      GaveUp(i) /\ "champ" \notin table[i].conds => Eligible(i) \subseteq used

(* buildSubfixture never runs noCondition on an empty set of free countries,
   where it would use an uninitialised pointer: three quarters of the table
   are always enough for the groups that are still open. *)
FreeCountryRemains ==
  \A i \in Groups :
    cpc[i] = "draw" /\ table[i].conds = {} => Free(table, cused[i]) # {}

(* What fifa has received of a group is always the beginning of what that
   grouph has built, so no request, answer or code is ever taken for a
   country of a group; and a finished group that came, came whole. *)
FixtureIsTheGroup ==
  \A i \in Groups :
    /\ Len(fixture[i]) <= Len(Group(i))
    /\ \A p \in DOMAIN fixture[i] : fixture[i][p] = Group(i)[p]
    /\ i \in finished /\ fixture[i] # <<>> => Len(fixture[i]) = Places + 1

(* Request and answer alternate on the two pipes of a grouph: while it waits
   there is its request or fifa's answer to it, never both and never two,
   and none of either is left when it draws again. *)
Lockstep ==
  \A i \in Groups :
    /\ cpc[i] = "ask" => \/ up[i] = <<req[i]>> /\ down[i] = <<>>
                         \/ up[i] = <<>> /\ Len(down[i]) = 1
    /\ cpc[i] \in {"load", "draw"} => up[i] = <<>> /\ down[i] = <<>>

-----------------------------------------------------------------------------
(***************************************************************************)
(* The inductive invariant behind GroupsDisjoint, StaleCopiesAreSafe and   *)
(* Lockstep: in which stage of its conversation with fifa each grouph is,  *)
(* and how the "used" flags account for what was given.  A process that    *)
(* crashed stays in the stage it was in.                                   *)
(***************************************************************************)
Idle(i) == up[i] = <<>> /\ down[i] = <<>> /\ out[i] = <<>>

Requesting(i) ==
  /\ up[i] = <<req[i]>> /\ down[i] = <<>> /\ out[i] = <<>>
  /\ req[i] \in Countries \ cused[i]

Answered(i) ==
  /\ up[i] = <<>> /\ down[i] \in {<<TRUE>>, <<FALSE>>} /\ out[i] = <<>>
  /\ req[i] \in used \ cused[i]

\* fifa has passed the code of i, or reads no more.
Receiving(i) == (fpc = "receive" /\ j = i) \/ fpc = "done"

\* The code that tells what follows is the first thing fifa will read.
Telling(i) ==
  /\ down[i] = <<>>
  /\ \/ i \in finished
     \/ Receiving(i)
     \/ up[i] = <<>> /\ out[i] # <<>> /\ Head(out[i]) \in Codes
     \/ up[i] # <<>> /\ Head(up[i]) \in Codes

StageOf(i) ==
  /\ cpc[i] \in {"none", "load", "draw"} => Idle(i)
  /\ cpc[i] = "ask" => Requesting(i) \/ Answered(i)
  /\ cpc[i] \in {"send", "exit"} => Telling(i)
  /\ cpc[i] = "crash" => Idle(i) \/ Requesting(i) \/ Answered(i) \/ Telling(i)
  /\ i >= sent => Idle(i) /\ drawn[i] = <<>> /\ cpc[i] \in {"none", "load", "crash"}

Stages == \A i \in Groups : StageOf(i)

FifaStages ==
  /\ fpc = "start" => used = {}
  /\ fpc \in {"start", "sync"} => sent = 0
  /\ fpc = "send" => sent < GroupsAmm
  /\ fpc = "receive" => /\ j < GroupsAmm /\ j \notin finished
                        /\ cpc[j] \in {"send", "exit", "crash"} /\ down[j] = <<>>

\* What was given out is marked in both tables, is no head, and is drawn once.
Account(i) ==
  /\ DrawnSet(i) \subseteq cused[i]
  /\ cused[i] \subseteq used
  /\ Given(i) \subseteq used \ MarkedHeads
  /\ \A p, q \in DOMAIN drawn[i] : drawn[i][p] = drawn[i][q] => p = q

Ledger ==
  /\ fpc # "start" => MarkedHeads \subseteq used
  /\ \A i \in Groups : Account(i)
  /\ \A i \in Groups : \A k \in Groups \ {i} : Given(i) \cap Given(k) = {}

IInv == TypeOK /\ Stages /\ FifaStages /\ Ledger

-----------------------------------------------------------------------------
(* The draw refines its abstract specification. *)
PotNow == Countries \ (MarkedHeads \cup used)
AllowedNow == [i \in Groups |-> Eligible(i)]
GivenNow == [i \in Groups |-> Given(i)]
AnnouncedNow ==
  [i \in Groups |-> IF outcome = "solution"
                    THEN {fixture[i][p] : p \in DOMAIN fixture[i] \ {1}} ELSE {}]

TheDraw == INSTANCE Draw WITH pot <- PotNow, allowed <- AllowedNow,
                              given <- GivenNow, announced <- AnnouncedNow

(* What fifa and the grouph processes do together is a draw: each country
   leaves the pot once and for a group whose restrictions it satisfies, and
   childsListener ends in a solution only with every group complete and with
   exactly the countries that were given out. *)
DrawSpec == TheDraw!Spec

Reported == fpc = "done" /\ AllGone

\* fifa has something to do beside waiting, be it for a select to time out.
FifaCanGo ==
  \/ fpc \in {"start", "send"}
  \/ fpc = "sync" /\ \A i \in Groups : cpc[i] # "none"
  \/ fpc = "listen" /\ \E i \in Groups : Readable(i)
  \/ fpc = "scan" /\ (Serving => Readable(j))
  \/ fpc = "receive" /\ Readable(j)
  \/ fpc = "wait" /\ (reaped = Groups \/ \E i \in Groups \ reaped : ~ Alive(i))

GrouphCanGo(i) ==
  \/ cpc[i] = "load" /\ i < sent
  \/ cpc[i] \in {"draw", "send"}
  \/ cpc[i] = "ask" /\ down[i] # <<>>

HeadsFound == Cardinality({c \in Countries : IsHead(c)})

\* startChildProcesses makes fewer grouph than synchronize waits for.
HeadsMissing == fpc = "sync" /\ HeadsFound < GroupsAmm

(* While nothing fails fifa and its grouph never all wait: not for an answer, not
   for the rest of a group, not for a process to end, unless the file has fewer
   heads than groups. *)
NobodyIsLeftWaiting ==
  faults = 0 /\ ~ Reported => FifaCanGo \/ (\E i \in Groups : GrouphCanGo(i)) \/ HeadsMissing

(* While nothing fails and no head is missing fifa ends, having said whether there
   is a solution, and every grouph has ended by then: the requests, the answers and the waits
   never hold one another up. *)
Reports == [](faults = 0 /\ ~ HeadsMissing) => <>[]Reported

(* fifa says whether there is a solution, however slow its grouph are. *)
SlowReports == <>Reported
=============================================================================
