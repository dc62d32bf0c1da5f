-------------------------- MODULE QueueProperties --------------------------
(***************************************************************************)
(* What is expected of the message queue.                                  *)
(***************************************************************************)
EXTENDS Queue, FiniteSets

(* The type invariant of the queue, the father and the children; the queue
   never holds more than it has room for. *)
TypeOK ==
  /\ room \in Rooms /\ dialogue \in [Children -> Dialogues]
  /\ queue \in Seq([mtype : Types, mtext : Types \X Nat]) /\ Len(queue) <= room
  /\ msLastRead \in [mtype : Types, mtext : Types \X Nat] \cup {None}
  /\ pc \in {"send", "select", "poll", "read", "reply", "wait", "over"}
  /\ j \in Children
  /\ \A c \in Children :
       /\ spoken[c] \in 1 .. Len(dialogue[c]) + 1
       /\ done[c] \in 1 .. Len(dialogue[c]) + 1
  /\ child \in [Children -> {"runs", "ended", "dead"}]
  /\ said \in [Types -> Seq(Types \X Nat)]
  /\ heard \in [Types -> Seq(Nat \X Nat)]
  /\ faults \in Nat

(* The father's look ahead neither loses a message nor moves it: on each line
   what was read is the beginning of what was written, and the rest is still
   there, once and in that order: the message that getIPCStatus has taken, and
   then those of the line in the shared queue. *)
NothingIsLost ==
  pc # "over" =>
    LET ahead == (IF msLastRead = None THEN <<>> ELSE <<msLastRead>>) \o queue IN
    \A t \in Types :
      LET rest == {k \in DOMAIN ahead : ahead[k].mtype = t} IN
      /\ heard[t] = SubSeq(said[t], 1, Len(heard[t]))
      /\ Len(said[t]) = Len(heard[t]) + Cardinality(rest)
      /\ \A k \in rest :
           ahead[k].mtext = said[t][Len(heard[t]) + Cardinality({o \in rest : o <= k})]

-----------------------------------------------------------------------------
TheChannel == INSTANCE Channel WITH Lines <- Types, Messages <- Types \X Nat

(* Although all share one queue, every line is a channel: what is heard on it is
   what was said on it, once and in order. *)
ChannelSpec == TheChannel!Spec

-----------------------------------------------------------------------------
\* The messages that the children but c leave in the queue while nobody reads
\* them, each by its child and its number.
Answers(c) == Cardinality({k \in DOMAIN dialogue[c] : dialogue[c][k] = "c"})
OtherAnswers(c) == UNION {{d} \X (1 .. Answers(d)) : d \in Children \ {c}}

\* The queue has a place left when all the others have answered.
AnswersFit == \A c \in Children : Cardinality(OtherAnswers(c)) < room

\* The father has something to do beside waiting and giving up.
FatherCanGo ==
  \/ pc \in {"send", "reply"} /\ (FatherSpeaks(j) => HasRoom)
  \/ pc = "select" /\ (queue # <<>> \/ \A c \in Children : Finished(c))
  \/ pc = "poll"
  \/ pc = "read" /\ (FatherListens(j) /\ msLastRead = None => OfType(FatherIds(j).receives) # {})
  \/ pc = "wait" /\ \A c \in Children : child[c] # "runs"

ChildCanGo(c) ==
  /\ child[c] = "runs"
  /\ Turn("f", c, done[c]) => OfType(ChildIds(c).receives) # {}
  /\ Turn("c", c, done[c]) => HasRoom

(* Father and children never all wait for each other: until the queue is
   removed one of them can send, read, or go on, as long as no child has died, no
   select has given up and the answers of the others leave a place free. *)
NoDeadlock ==
  AnswersFit /\ faults = 0 /\ pc # "over" => FatherCanGo \/ \E c \in Children : ChildCanGo(c)

(* Father and children do not wait for each other: if no child dies, the father
   does not stop listening, and the answers of the others leave a place in the
   queue, all work is sent, all answers are read and the queue is removed. *)
AllEnds == (AnswersFit /\ [](faults = 0)) => <>(pc = "over")
=============================================================================
