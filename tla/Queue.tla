------------------------------- MODULE Queue -------------------------------
(***************************************************************************)
(* The message queue between a father and its children (msqIPC.c): one     *)
(* queue of the system for all of them, in which a message is known by its *)
(* type, an odd one from each child and the even one after it to it.       *)
(*                                                                         *)
(* To see whether a child has said something getIPCStatus takes the        *)
(* message out of the queue and keeps it in msLastRead, where the next     *)
(* readIPC finds it.  The father does what gates and fifa do: it sends     *)
(* each child its work, and then listens, asking first, reading an answer  *)
(* to its end and replying if the child waits for it.                      *)
(***************************************************************************)
EXTENDS Integers, Sequences

CONSTANTS
  N,           \* how many children
  Dialogues,   \* who speaks in turn, message by message: "f" father, "c" child
  Rooms,       \* how many messages the queue may hold
  MaxFaults    \* bound on the children that die

ASSUME NAssumption == N \in Nat \ {0}
ASSUME DialoguesAssumption == Dialogues \subseteq Seq({"f", "c"})
ASSUME RoomsAssumption == Rooms \subseteq Nat \ {0}
ASSUME FaultsAssumption == MaxFaults \in Nat

Children == 1 .. N
None == <<>>

VARIABLES
  room, dialogue,  \* of the queue, and of each child: they do not change
  queue,           \* sequence of [mtype, mtext]
  msLastRead,      \* the message a status has taken, or None
  pc, j,           \* where the father is, and with which child
  spoken,          \* how far in its dialogue the father is with each child
  child,           \* each child: "runs", "ended" or "dead"
  done,            \* how far in its dialogue each child is
  said, heard,     \* for each type, what was written and read as such
  faults

plan == <<room, dialogue>>
fatherVars == <<msLastRead, pc, j, spoken>>
childVars == <<child, done>>
vars == <<plan, queue, fatherVars, childVars, said, heard, faults>>

Types == 1 .. 2 * N

\* Mutant: the identity that addClient writes is the index, with no gap for the
\* other direction.
ChildIdsNear(c) == [sends |-> c, receives |-> c + 1]

\* addClient writes 2 * index + 1 and loadIPC adds 1 for the other direction.
ChildIds(c) == [sends |-> 2 * (c - 1) + 1, receives |-> 2 * (c - 1) + 2]

\* synchronize counts from 1 in steps of 2.
FatherIds(c) == [receives |-> 2 * c - 1, sends |-> 2 * c]

Turn(who, c, n) == n <= Len(dialogue[c]) /\ dialogue[c][n] = who
FatherSpeaks(c) == Turn("f", c, spoken[c])
FatherListens(c) == Turn("c", c, spoken[c])
Finished(c) == spoken[c] > Len(dialogue[c])

\* setupIPC; the pids that the children sent first have been read.
Init ==
  /\ room \in Rooms
  /\ dialogue \in [Children -> Dialogues]
  /\ queue = <<>>
  /\ msLastRead = None
  /\ pc = "send" /\ j = 1
  /\ spoken = [c \in Children |-> 1]
  /\ child = [c \in Children |-> "runs"]
  /\ done = [c \in Children |-> 1]
  /\ said = [t \in Types |-> <<>>]
  /\ heard = [t \in Types |-> <<>>]
  /\ faults = 0

-----------------------------------------------------------------------------
(***************************************************************************)
(* The queue of the system.                                                *)
(***************************************************************************)
\* Mutant: one message less than the queue has room for.
HasRoomLess == Len(queue) < room - 1

HasRoom == Len(queue) < room

\* msgsnd waits while the queue is full.  A message says who wrote it and its
\* number, so that none is taken for another.
Msgsnd(t, line) ==
  LET text == <<line, Len(said[line]) + 1>> IN
  /\ HasRoom
  /\ queue' = Append(queue, [mtype |-> t, mtext |-> text])
  /\ said' = [said EXCEPT ![line] = Append(@, text)]

OfType(t) == {k \in DOMAIN queue : queue[k].mtype = t}
First(t) == CHOOSE k \in OfType(t) : \A o \in OfType(t) : k <= o
Without(k) == SubSeq(queue, 1, k - 1) \o SubSeq(queue, k + 1, Len(queue))

Hear(line, text) == heard' = [heard EXCEPT ![line] = Append(@, text)]

-----------------------------------------------------------------------------
(***************************************************************************)
(* The father.                                                             *)
(***************************************************************************)
\* writeIPC, when its work is sent to each child or as a reply.
FatherWrites ==
  /\ pc \in {"send", "reply"} /\ FatherSpeaks(j)
  /\ Msgsnd(FatherIds(j).sends, 2 * j)
  /\ spoken' = [spoken EXCEPT ![j] = @ + 1]
  /\ UNCHANGED <<plan, msLastRead, pc, j, childVars, heard, faults>>

\* Mutant: one child too many is given work.
NextChildPast ==
  /\ pc = "send" /\ ~ FatherSpeaks(j)
  /\ IF j <= N THEN j' = j + 1 /\ pc' = pc ELSE j' = 1 /\ pc' = "select"
  /\ UNCHANGED <<plan, queue, msLastRead, spoken, childVars, said, heard, faults>>

\* The work of the next child, or the first select.
NextChild ==
  /\ pc = "send" /\ ~ FatherSpeaks(j)
  /\ IF j < N THEN j' = j + 1 /\ pc' = pc ELSE j' = 1 /\ pc' = "select"
  /\ UNCHANGED <<plan, queue, msLastRead, spoken, childVars, said, heard, faults>>

\* selectIPC: there is a message in the queue, be it for the father or not.
SelectIPC ==
  /\ pc = "select" /\ \E c \in Children : ~ Finished(c)
  /\ queue # <<>>
  /\ pc' = "poll" /\ j' = 1
  /\ UNCHANGED <<plan, queue, msLastRead, spoken, childVars, said, heard, faults>>

\* Two seconds have gone by with an empty queue: the father stops listening.
SelectTimesOut ==
  /\ pc = "select" /\ \E c \in Children : ~ Finished(c)
  /\ queue = <<>>
  /\ pc' = "wait" /\ faults' = faults + 1
  /\ UNCHANGED <<plan, queue, msLastRead, j, spoken, childVars, said, heard>>

ListeningEnds ==
  /\ pc \in {"select", "poll"} /\ \A c \in Children : Finished(c)
  /\ pc' = "wait"
  /\ UNCHANGED <<plan, queue, msLastRead, j, spoken, childVars, said, heard, faults>>

\* Mutant: the round stops before the last child.
AdvanceShort == IF j < N - 1 THEN j' = j + 1 /\ pc' = "poll" ELSE j' = 1 /\ pc' = "select"

\* The next child of the round, or another select.
Advance == IF j < N THEN j' = j + 1 /\ pc' = "poll" ELSE j' = 1 /\ pc' = "select"

\* Mutant: all the children are asked before one is read.
GetIPCStatusOfAll ==
  LET t == FatherIds(j).receives IN
  /\ pc = "poll" /\ ~ Finished(j) /\ OfType(t) # {}
  /\ msLastRead' = queue[First(t)]
  /\ queue' = Without(First(t))
  /\ IF j < N THEN pc' = pc /\ j' = j + 1 ELSE pc' = "read" /\ j' = j
  /\ UNCHANGED <<plan, spoken, childVars, said, heard, faults>>

\* getIPCStatus takes a message of the child without waiting and keeps it.
GetIPCStatus ==
  LET t == FatherIds(j).receives IN
  /\ pc = "poll" /\ ~ Finished(j) /\ OfType(t) # {}
  /\ msLastRead' = queue[First(t)]
  /\ queue' = Without(First(t))
  /\ pc' = "read"
  /\ UNCHANGED <<plan, j, spoken, childVars, said, heard, faults>>

\* It has said nothing, or the father has heard it all.
NothingFromChild ==
  /\ pc = "poll" /\ \E c \in Children : ~ Finished(c)
  /\ Finished(j) \/ OfType(FatherIds(j).receives) = {}
  /\ Advance
  /\ UNCHANGED <<plan, queue, msLastRead, spoken, childVars, said, heard, faults>>

\* readIPC when there is a message kept: it is given if it is of the child, and
\* if it is not, 0 is returned and the buffer left as it was.
ReadKept ==
  LET t == FatherIds(j).receives IN
  /\ pc = "read" /\ FatherListens(j) /\ msLastRead # None
  /\ IF msLastRead.mtype = t
     THEN Hear(t, msLastRead.mtext) /\ msLastRead' = None
     ELSE Hear(t, <<0, 0>>) /\ UNCHANGED msLastRead
  /\ spoken' = [spoken EXCEPT ![j] = @ + 1]
  /\ UNCHANGED <<plan, queue, pc, j, childVars, said, faults>>

\* readIPC when there is none: msgrcv waits for one.
FatherReads ==
  LET t == FatherIds(j).receives IN
  /\ pc = "read" /\ FatherListens(j) /\ msLastRead = None /\ OfType(t) # {}
  /\ Hear(t, queue[First(t)].mtext)
  /\ queue' = Without(First(t))
  /\ spoken' = [spoken EXCEPT ![j] = @ + 1]
  /\ UNCHANGED <<plan, msLastRead, pc, j, childVars, said, faults>>

\* The answer has been read: the child waits for a reply, or not.
AnswerRead ==
  /\ pc = "read" /\ ~ FatherListens(j)
  /\ IF FatherSpeaks(j) THEN pc' = "reply" /\ j' = j ELSE Advance
  /\ UNCHANGED <<plan, queue, msLastRead, spoken, childVars, said, heard, faults>>

Replied ==
  /\ pc = "reply" /\ ~ FatherSpeaks(j)
  /\ Advance
  /\ UNCHANGED <<plan, queue, msLastRead, spoken, childVars, said, heard, faults>>

\* wait for each child, and finalizeIPC: the queue is no more.
FinalizeIPC ==
  /\ pc = "wait" /\ \A c \in Children : child[c] # "runs"
  /\ pc' = "over" /\ queue' = <<>> /\ msLastRead' = None
  /\ UNCHANGED <<plan, j, spoken, childVars, said, heard, faults>>

Father ==
  \/ FatherWrites \/ NextChild \/ SelectIPC \/ SelectTimesOut \/ ListeningEnds
  \/ GetIPCStatus \/ NothingFromChild \/ ReadKept \/ FatherReads
  \/ AnswerRead \/ Replied \/ FinalizeIPC

-----------------------------------------------------------------------------
(***************************************************************************)
(* A child, which never asks for a status: its msLastRead is always NULL.  *)
(***************************************************************************)
ChildReads(c) ==
  LET t == ChildIds(c).receives IN
  /\ child[c] = "runs" /\ Turn("f", c, done[c]) /\ OfType(t) # {}
  /\ Hear(2 * c, queue[First(t)].mtext)
  /\ queue' = Without(First(t))
  /\ done' = [done EXCEPT ![c] = @ + 1]
  /\ UNCHANGED <<plan, fatherVars, child, said, faults>>

ChildWrites(c) ==
  /\ child[c] = "runs" /\ Turn("c", c, done[c])
  /\ Msgsnd(ChildIds(c).sends, 2 * c - 1)
  /\ done' = [done EXCEPT ![c] = @ + 1]
  /\ UNCHANGED <<plan, fatherVars, child, heard, faults>>

\* closeIPC
ChildEnds(c) ==
  /\ child[c] = "runs" /\ done[c] > Len(dialogue[c])
  /\ child' = [child EXCEPT ![c] = "ended"]
  /\ UNCHANGED <<plan, queue, fatherVars, done, said, heard, faults>>

ChildDies(c) ==
  /\ child[c] = "runs" /\ faults < MaxFaults
  /\ child' = [child EXCEPT ![c] = "dead"]
  /\ faults' = faults + 1
  /\ UNCHANGED <<plan, queue, fatherVars, done, said, heard>>

Child(c) == ChildReads(c) \/ ChildWrites(c) \/ ChildEnds(c)

Next == Father \/ \E c \in Children : Child(c) \/ ChildDies(c)

Spec == Init /\ [][Next]_vars

\* All are processes of the system; a select ends by itself.
FairSpec == Spec /\ WF_vars(Father) /\ \A c \in Children : WF_vars(Child(c))
=============================================================================
