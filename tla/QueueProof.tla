----------------------------- MODULE QueueProof -----------------------------
(***************************************************************************)
(* Theorems about the shared message queue, for every number of children,  *)
(* every room in the queue and all the dialogues.                          *)
(***************************************************************************)
EXTENDS QueueProperties, FiniteSetTheorems, FunctionTheorems, SequenceTheorems, TLAPS

-----------------------------------------------------------------------------
(***************************************************************************)
(* The inductive invariant.                                                *)
(***************************************************************************)
\* The number of the last message of a line that has left the queue.
Due(t) == Len(heard[t]) + (IF msLastRead # None /\ msLastRead.mtype = t THEN 1 ELSE 0)

Places == spoken \in [Children -> Nat] /\ done \in [Children -> Nat]

(* What a status has taken is the next message of the child that the father is
   listening to, who reads it before it does anything else. *)
Ahead ==
  msLastRead # None =>
    /\ pc = "read" /\ FatherListens(j)
    /\ msLastRead.mtype = 2 * j - 1
    /\ msLastRead.mtext = <<2 * j - 1, Len(heard[2 * j - 1]) + 1>>

\* The messages of a line are numbered as they are written, and read in order.
NumberedAs(t) ==
  /\ \A n \in 1 .. Len(said[t]) : said[t][n] = <<t, n>>
  /\ \A n \in 1 .. Len(heard[t]) : heard[t][n] = <<t, n>>
  /\ Due(t) <= Len(said[t])
Numbered == \A t \in Types : NumberedAs(t)

\* Those that have not left the queue are in it, once and in order.
QueuedAs(t) ==
  /\ \A k \in OfType(t) : /\ queue[k].mtext[1] = t
                          /\ queue[k].mtext[2] \in Due(t) + 1 .. Len(said[t])
  /\ \A k, l \in OfType(t) : k < l => queue[k].mtext[2] < queue[l].mtext[2]
  /\ \A n \in Due(t) + 1 .. Len(said[t]) : \E k \in OfType(t) : queue[k].mtext[2] = n
Queued == pc # "over" => \A t \in Types : QueuedAs(t)

\* The queue is removed when no child runs any more.
Removed == pc = "over" => \A c \in Children : child[c] # "runs"

\* Both ends of a dialogue have said and heard what it tells them to.
Count(turns, who, n) == Cardinality({k \in 1 .. n - 1 : turns[k] = who})
CountedAs(c) ==
  /\ Len(said[2 * c - 1]) = Count(dialogue[c], "c", done[c])
  /\ Len(heard[2 * c - 1]) = Count(dialogue[c], "c", spoken[c])
  /\ Len(said[2 * c]) = Count(dialogue[c], "f", spoken[c])
  /\ Len(heard[2 * c]) = Count(dialogue[c], "f", done[c])
Counted == \A c \in Children : CountedAs(c)

QueueInv == TypeOK /\ Places /\ Ahead /\ Numbered /\ Queued /\ Removed /\ Counted

-----------------------------------------------------------------------------
(***************************************************************************)
(* Lines, places in the queue and the counting of turns.                   *)
(***************************************************************************)
LEMMA LineFacts ==
  ASSUME NEW c \in Children
  PROVE  /\ 2 * c - 1 \in Types /\ 2 * c \in Types
         /\ FatherIds(c).receives = 2 * c - 1 /\ FatherIds(c).sends = 2 * c
         /\ ChildIds(c).sends = 2 * c - 1 /\ ChildIds(c).receives = 2 * c
         /\ \A d \in Children : /\ 2 * c - 1 # 2 * d /\ 2 * c # 2 * d - 1
                               /\ d # c => 2 * c - 1 # 2 * d - 1 /\ 2 * c # 2 * d
BY NAssumption DEF Children, Types, FatherIds, ChildIds

LEMMA LeastNat ==
  ASSUME NEW S \in SUBSET Nat, S # {}
  PROVE  \E m \in S : \A k \in S : m <= k
<1>. DEFINE Below(n) == 1 .. n
            T == {Below(n) : n \in S}
<1>1. ASSUME NEW n \in S PROVE Below(n) \in FiniteSubsetsOf(Nat)
  <2>1. n \in Int /\ 1 \in Int /\ Below(n) \subseteq Nat
    OBVIOUS
  <2>2. IsFiniteSet(1 .. n)
    BY <2>1, FS_Interval
  <2>. QED BY <2>1, <2>2 DEF FiniteSubsetsOf
<1>2. T \subseteq FiniteSubsetsOf(Nat) /\ T # {}
  BY <1>1
<1>3. \E x \in T : \A y \in T : ~ (<<y, x>> \in StrictSubsetOrdering(Nat))
  <2>. HIDE DEF T
  <2>. QED BY <1>2, WFMin, FS_StrictSubsetOrderingWellFounded
<1>4. PICK m \in S : \A k \in S : ~ (<<Below(k), Below(m)>> \in StrictSubsetOrdering(Nat))
  BY <1>3
<1>5. ASSUME NEW k \in S, k < m PROVE FALSE
  <2>1. Below(k) \subseteq Below(m) /\ m \in Below(m) /\ m \notin Below(k)
    BY <1>5
  <2>2. Below(k) \in SUBSET Nat /\ Below(m) \in SUBSET Nat
    OBVIOUS
  <2>. QED BY <1>4, <2>1, <2>2 DEF StrictSubsetOrdering
<1>. QED BY <1>5

Message == [mtype : Types, mtext : Types \X Nat]

LEMMA QueueTypes ==
  ASSUME TypeOK
  PROVE  /\ queue \in Seq(Message) /\ Len(queue) \in Nat /\ DOMAIN queue = 1 .. Len(queue)
         /\ \A k \in 1 .. Len(queue) : queue[k] \in Message
         /\ Len(queue) <= room /\ room \in Nat
<1>1. queue \in Seq(Message) /\ Len(queue) <= room /\ room \in Nat
  BY RoomsAssumption DEF TypeOK, Message
<1>. QED BY <1>1, LenProperties, ElementOfSeq

LEMMA DialogueFacts ==
  ASSUME TypeOK, NEW c \in Children
  PROVE  /\ Len(dialogue[c]) \in Nat
         /\ \A k \in 1 .. Len(dialogue[c]) : dialogue[c][k] \in {"f", "c"}
<1>1. dialogue[c] \in Seq({"f", "c"})
  BY DialoguesAssumption DEF TypeOK
<1>. QED BY <1>1, ElementOfSeq

LEMMA FirstFacts ==
  ASSUME TypeOK, NEW t \in Types, OfType(t) # {}
  PROVE  First(t) \in OfType(t) /\ \A k \in OfType(t) : First(t) <= k
<1>1. OfType(t) \subseteq Nat
  BY QueueTypes DEF OfType
<1>. QED BY <1>1, LeastNat DEF First

LEMMA WithoutFacts ==
  ASSUME NEW S, queue \in Seq(S), NEW k \in 1 .. Len(queue)
  PROVE  /\ Without(k) \in Seq(S) /\ Len(Without(k)) = Len(queue) - 1
         /\ \A i \in 1 .. Len(queue) - 1 :
              Without(k)[i] = IF i < k THEN queue[i] ELSE queue[i + 1]
<1>. DEFINE a == SubSeq(queue, 1, k - 1)
            b == SubSeq(queue, k + 1, Len(queue))
<1>0. Len(queue) \in Nat /\ \A i \in 1 .. Len(queue) : queue[i] \in S
  BY ElementOfSeq
<1>1. /\ a \in Seq(S) /\ Len(a) = k - 1 /\ \A i \in 1 .. k - 1 : a[i] = queue[i]
  <2>1. \A i \in 1 .. k - 1 : queue[i] \in S
    BY <1>0
  <2>. QED BY <1>0, <2>1, SubSeqProperties
<1>2. /\ b \in Seq(S) /\ Len(b) = Len(queue) - k
      /\ \A i \in 1 .. Len(queue) - k : b[i] = queue[k + i]
  <2>1. \A i \in k + 1 .. Len(queue) : queue[i] \in S
    BY <1>0
  <2>. QED BY <1>0, <2>1, SubSeqProperties
<1>. HIDE DEF a, b
<1>3. /\ a \o b \in Seq(S) /\ Len(a \o b) = Len(queue) - 1
      /\ \A i \in 1 .. Len(queue) - 1 :
           (a \o b)[i] = IF i <= k - 1 THEN a[i] ELSE b[i - (k - 1)]
  BY <1>0, <1>1, <1>2, ConcatProperties
<1>4. ASSUME NEW i \in 1 .. Len(queue) - 1
      PROVE  (a \o b)[i] = IF i < k THEN queue[i] ELSE queue[i + 1]
  <2>1. CASE i < k
    BY <1>0, <1>1, <1>3, <2>1
  <2>2. CASE ~ (i < k)
    <3>1. i - (k - 1) \in 1 .. Len(queue) - k /\ k + (i - (k - 1)) = i + 1 /\ ~ (i <= k - 1)
      BY <1>0, <2>2
    <3>. QED BY <1>2, <1>3, <2>2, <3>1
  <2>. QED BY <2>1, <2>2
<1>. QED BY <1>3, <1>4 DEF a, b, Without

LEMMA CountFacts ==
  ASSUME NEW turns, NEW who, NEW n \in Nat \ {0}
  PROVE  /\ Count(turns, who, n) \in Nat
         /\ Count(turns, who, n + 1) = Count(turns, who, n) + (IF turns[n] = who THEN 1 ELSE 0)
         /\ \A m \in 1 .. n : Count(turns, who, m) <= Count(turns, who, n)
<1>. DEFINE Up(m) == {k \in 1 .. m - 1 : turns[k] = who}
<1>1. ASSUME NEW m \in Nat \ {0} PROVE IsFiniteSet(Up(m)) /\ Cardinality(Up(m)) \in Nat
  <2>1. IsFiniteSet(1 .. m - 1)
    BY FS_Interval
  <2>2. Up(m) \in SUBSET (1 .. m - 1)
    OBVIOUS
  <2>. QED BY <2>1, <2>2, FS_Subset, FS_CardinalityType
<1>2. n \notin Up(n) /\ Up(n + 1) = IF turns[n] = who THEN Up(n) \cup {n} ELSE Up(n)
  OBVIOUS
<1>3. Cardinality(Up(n + 1)) = Cardinality(Up(n)) + (IF turns[n] = who THEN 1 ELSE 0)
  <2>. HIDE DEF Up
  <2>1. CASE turns[n] = who
    <3>1. Cardinality(Up(n) \cup {n}) = Cardinality(Up(n)) + 1
      BY <1>1, <1>2, FS_AddElement
    <3>. QED BY <1>2, <2>1, <3>1
  <2>2. CASE turns[n] # who
    BY <1>1, <1>2, <2>2
  <2>. QED BY <2>1, <2>2
<1>4. ASSUME NEW m \in 1 .. n PROVE Cardinality(Up(m)) <= Cardinality(Up(n))
  <2>1. Up(m) \in SUBSET Up(n)
    OBVIOUS
  <2>. HIDE DEF Up
  <2>. QED BY <1>1, <2>1, FS_Subset
<1>. QED BY <1>1, <1>3, <1>4 DEF Count

-----------------------------------------------------------------------------
LEMMA InitInv == Init => QueueInv
<1>. SUFFICES ASSUME Init PROVE QueueInv
  OBVIOUS
<1>. USE DEF Init
<1>1. TypeOK
  <2>1. \A c \in Children : Len(dialogue[c]) \in Nat
    BY DialoguesAssumption
  <2>2. room \in Nat /\ 1 \in Children
    BY RoomsAssumption, NAssumption DEF Children
  <2>. QED BY <2>1, <2>2 DEF TypeOK
<1>2. Places /\ Ahead /\ Removed
  BY DEF Places, Ahead, Removed
<1>3. \A t \in Types : Due(t) = 0 /\ Len(said[t]) = 0 /\ Len(heard[t]) = 0 /\ OfType(t) = {}
  BY DEF Due, OfType
<1>4. Numbered /\ Queued
  BY <1>3 DEF Numbered, NumberedAs, Queued, QueuedAs
<1>5. Counted
  <2>1. \A c \in Children, who \in {"f", "c"} : Count(dialogue[c], who, 1) = 0
    BY FS_EmptySet DEF Count
  <2>. QED BY <1>3, <2>1, LineFacts DEF Counted, CountedAs
<1>. QED BY <1>1, <1>2, <1>4, <1>5 DEF QueueInv

(***************************************************************************)
(* The types                                                               *)
(***************************************************************************)
LEMMA TakenTypes ==
  ASSUME TypeOK, NEW t \in Types, OfType(t) # {}
  PROVE  /\ Without(First(t)) \in Seq(Message) /\ Len(Without(First(t))) <= room
         /\ First(t) \in 1 .. Len(queue) /\ queue[First(t)] \in Message /\ queue[First(t)].mtype = t
<1>1. First(t) \in 1 .. Len(queue) /\ queue[First(t)].mtype = t
  BY QueueTypes, FirstFacts DEF OfType
<1>2. Without(First(t)) \in Seq(Message) /\ Len(Without(First(t))) = Len(queue) - 1
  BY <1>1, QueueTypes, WithoutFacts
<1>. QED BY <1>1, <1>2, QueueTypes

LEMMA SentTypes ==
  ASSUME TypeOK, NEW t \in Types, Msgsnd(t, t)
  PROVE  /\ queue' \in Seq(Message) /\ Len(queue') <= room
         /\ said' \in [Types -> Seq(Types \X Nat)]
<1>1. said \in [Types -> Seq(Types \X Nat)] /\ said[t] \in Seq(Types \X Nat)
  BY DEF TypeOK
<1>2. <<t, Len(said[t]) + 1>> \in Types \X Nat
  BY <1>1
<1>3. [mtype |-> t, mtext |-> <<t, Len(said[t]) + 1>>] \in Message
  BY <1>2 DEF Message
<1>4. queue' \in Seq(Message) /\ Len(queue') = Len(queue) + 1 /\ Len(queue) < room
  BY <1>3, QueueTypes, AppendProperties DEF Msgsnd, HasRoom
<1>5. said' = [said EXCEPT ![t] = Append(said[t], <<t, Len(said[t]) + 1>>)]
  BY DEF Msgsnd
<1>6. Append(said[t], <<t, Len(said[t]) + 1>>) \in Seq(Types \X Nat)
  BY <1>1, <1>2, AppendProperties
<1>. QED BY <1>1, <1>4, <1>5, <1>6, QueueTypes

LEMMA HeardTypes ==
  ASSUME TypeOK, NEW t \in Types, NEW text \in Nat \X Nat, Hear(t, text)
  PROVE  heard' \in [Types -> Seq(Nat \X Nat)]
<1>1. heard \in [Types -> Seq(Nat \X Nat)] /\ heard[t] \in Seq(Nat \X Nat)
  BY DEF TypeOK
<1>2. Append(heard[t], text) \in Seq(Nat \X Nat)
  BY <1>1, AppendProperties
<1>. QED BY <1>1, <1>2 DEF Hear

LEMMA TextTypes == ASSUME NEW m \in Message PROVE m.mtext \in Nat \X Nat
BY DEF Message, Types

\* A turn is one of the dialogue, and there is one more to come after the last.
LEMMA TurnFacts ==
  ASSUME TypeOK, NEW c \in Children, NEW who, NEW n \in 1 .. Len(dialogue[c]) + 1, Turn(who, c, n)
  PROVE  n + 1 \in 1 .. Len(dialogue[c]) + 1
BY DialogueFacts DEF Turn

LEMMA TypeStep == QueueInv /\ [Next]_vars => TypeOK' /\ Places'
<1>. SUFFICES ASSUME QueueInv, [Next]_vars PROVE TypeOK' /\ Places'
  OBVIOUS
<1>0. /\ TypeOK /\ j \in Children /\ N \in Nat \ {0}
      /\ spoken \in [Children -> Nat] /\ done \in [Children -> Nat]
  BY NAssumption DEF QueueInv, TypeOK, Places
<1>1. /\ 2 * j - 1 \in Types /\ FatherIds(j).receives = 2 * j - 1
      /\ 2 * j \in Types /\ FatherIds(j).sends = 2 * j
  BY <1>0, LineFacts
<1>2. Advance => j' \in Children /\ pc' \in {"poll", "select"}
  BY <1>0 DEF Advance, Children
<1>3. CASE FatherWrites
  <2>1. spoken[j] + 1 \in 1 .. Len(dialogue[j]) + 1 /\ spoken' = [spoken EXCEPT ![j] = spoken[j] + 1]
    BY <1>0, <1>3, TurnFacts DEF TypeOK, FatherWrites, FatherSpeaks
  <2>2. \A c \in Children : spoken'[c] \in 1 .. Len(dialogue[c]) + 1 /\ spoken' \in [Children -> Nat]
    BY <1>0, <2>1 DEF TypeOK
  <2>3. Msgsnd(2 * j, 2 * j)
    BY <1>1, <1>3 DEF FatherWrites
  <2>4. queue' \in Seq(Message) /\ Len(queue') <= room /\ said' \in [Types -> Seq(Types \X Nat)]
    BY <1>0, <1>1, <2>3, SentTypes
  <2>. QED BY <1>0, <1>3, <2>2, <2>4 DEF FatherWrites, TypeOK, Places, plan, childVars, Message
<1>4. CASE NextChild \/ SelectIPC \/ SelectTimesOut \/ ListeningEnds
  <2>1. CASE NextChild
    <3>1. j' \in Children /\ pc' \in {"send", "select"}
      BY <1>0, <2>1 DEF NextChild, Children
    <3>. QED BY <1>0, <2>1, <3>1 DEF NextChild, TypeOK, Places, plan, childVars
  <2>2. CASE SelectIPC
    <3>1. 1 \in Children
      BY <1>0 DEF Children
    <3>. QED BY <1>0, <2>2, <3>1 DEF SelectIPC, TypeOK, Places, plan, childVars
  <2>3. CASE SelectTimesOut
    BY <1>0, <2>3 DEF SelectTimesOut, TypeOK, Places, plan, childVars
  <2>4. CASE ListeningEnds
    BY <1>0, <2>4 DEF ListeningEnds, TypeOK, Places, plan, childVars
  <2>. QED BY <1>4, <2>1, <2>2, <2>3, <2>4
<1>5. CASE NothingFromChild \/ AnswerRead \/ Replied
  BY <1>0, <1>2, <1>5 DEF NothingFromChild, AnswerRead, Replied, TypeOK, Places, plan, childVars
<1>6. CASE GetIPCStatus
  <2>1. OfType(2 * j - 1) # {} /\ queue' = Without(First(2 * j - 1)) /\ msLastRead' = queue[First(2 * j - 1)]
    BY <1>1, <1>6 DEF GetIPCStatus
  <2>2. queue' \in Seq(Message) /\ Len(queue') <= room /\ msLastRead' \in Message
    BY <1>0, <1>1, <2>1, TakenTypes
  <2>. QED BY <1>0, <1>6, <2>2 DEF GetIPCStatus, TypeOK, Places, plan, childVars, Message
<1>7. CASE ReadKept
  <2>1. spoken[j] + 1 \in 1 .. Len(dialogue[j]) + 1 /\ spoken' = [spoken EXCEPT ![j] = spoken[j] + 1]
    BY <1>0, <1>7, TurnFacts DEF TypeOK, ReadKept, FatherListens
  <2>2. \A c \in Children : spoken'[c] \in 1 .. Len(dialogue[c]) + 1 /\ spoken' \in [Children -> Nat]
    BY <1>0, <2>1 DEF TypeOK
  <2>3. PICK text \in Nat \X Nat : Hear(2 * j - 1, text) /\ msLastRead' \in {None, msLastRead}
    <3>1. msLastRead \in Message /\ <<0, 0>> \in Nat \X Nat
      BY <1>0, <1>7 DEF TypeOK, ReadKept, Message
    <3>2. msLastRead.mtext \in Nat \X Nat
      BY <3>1, TextTypes
    <3>. QED BY <1>1, <1>7, <3>1, <3>2 DEF ReadKept
  <2>4. heard' \in [Types -> Seq(Nat \X Nat)]
    BY <1>0, <1>1, <2>3, HeardTypes
  <2>. QED BY <1>0, <1>7, <2>2, <2>3, <2>4 DEF ReadKept, TypeOK, Places, plan, childVars
<1>8. CASE FatherReads
  <2>1. spoken[j] + 1 \in 1 .. Len(dialogue[j]) + 1 /\ spoken' = [spoken EXCEPT ![j] = spoken[j] + 1]
    BY <1>0, <1>8, TurnFacts DEF TypeOK, FatherReads, FatherListens
  <2>2. \A c \in Children : spoken'[c] \in 1 .. Len(dialogue[c]) + 1 /\ spoken' \in [Children -> Nat]
    BY <1>0, <2>1 DEF TypeOK
  <2>3. OfType(2 * j - 1) # {} /\ queue' = Without(First(2 * j - 1)) /\ Hear(2 * j - 1, queue[First(2 * j - 1)].mtext)
    BY <1>1, <1>8 DEF FatherReads
  <2>4. queue' \in Seq(Message) /\ Len(queue') <= room /\ queue[First(2 * j - 1)].mtext \in Nat \X Nat
    BY <1>0, <1>1, <2>3, TakenTypes, TextTypes
  <2>5. heard' \in [Types -> Seq(Nat \X Nat)]
    BY <1>0, <1>1, <2>3, <2>4, HeardTypes
  <2>. QED BY <1>0, <1>8, <2>2, <2>4, <2>5 DEF FatherReads, TypeOK, Places, plan, childVars, Message
<1>9. CASE FinalizeIPC
  <2>1. <<>> \in Seq(Message) /\ Len(<<>>) = 0 /\ room \in Nat
    BY <1>0, EmptySeq, QueueTypes
  <2>. QED BY <1>0, <1>9, <2>1 DEF FinalizeIPC, TypeOK, Places, plan, childVars, Message
<1>10. ASSUME NEW c \in Children, ChildReads(c) PROVE TypeOK' /\ Places'
  <2>0. 2 * c \in Types /\ ChildIds(c).receives = 2 * c
    BY LineFacts
  <2>1. done[c] + 1 \in 1 .. Len(dialogue[c]) + 1 /\ done' = [done EXCEPT ![c] = done[c] + 1]
    BY <1>0, <1>10, TurnFacts DEF TypeOK, ChildReads
  <2>2. \A d \in Children : done'[d] \in 1 .. Len(dialogue[d]) + 1 /\ done' \in [Children -> Nat]
    BY <1>0, <2>1 DEF TypeOK
  <2>3. OfType(2 * c) # {} /\ queue' = Without(First(2 * c)) /\ Hear(2 * c, queue[First(2 * c)].mtext)
    BY <1>10, <2>0 DEF ChildReads
  <2>4. queue' \in Seq(Message) /\ Len(queue') <= room /\ queue[First(2 * c)].mtext \in Nat \X Nat
    BY <1>0, <2>0, <2>3, TakenTypes, TextTypes
  <2>5. heard' \in [Types -> Seq(Nat \X Nat)]
    BY <1>0, <2>0, <2>3, <2>4, HeardTypes
  <2>. QED BY <1>0, <1>10, <2>2, <2>4, <2>5 DEF ChildReads, TypeOK, Places, plan, fatherVars, Message
<1>11. ASSUME NEW c \in Children, ChildWrites(c) PROVE TypeOK' /\ Places'
  <2>0. 2 * c - 1 \in Types /\ ChildIds(c).sends = 2 * c - 1
    BY LineFacts
  <2>1. done[c] + 1 \in 1 .. Len(dialogue[c]) + 1 /\ done' = [done EXCEPT ![c] = done[c] + 1]
    BY <1>0, <1>11, TurnFacts DEF TypeOK, ChildWrites
  <2>2. \A d \in Children : done'[d] \in 1 .. Len(dialogue[d]) + 1 /\ done' \in [Children -> Nat]
    BY <1>0, <2>1 DEF TypeOK
  <2>3. queue' \in Seq(Message) /\ Len(queue') <= room /\ said' \in [Types -> Seq(Types \X Nat)]
    BY <1>0, <1>11, <2>0, SentTypes DEF ChildWrites
  <2>. QED BY <1>0, <1>11, <2>2, <2>3 DEF ChildWrites, TypeOK, Places, plan, fatherVars, Message
<1>12. ASSUME NEW c \in Children, ChildEnds(c) \/ ChildDies(c) PROVE TypeOK' /\ Places'
  <2>1. CASE ChildEnds(c)
    BY <1>0, <2>1 DEF ChildEnds, TypeOK, Places, plan, fatherVars
  <2>2. CASE ChildDies(c)
    BY <1>0, <2>2 DEF ChildDies, TypeOK, Places, plan, fatherVars
  <2>. QED BY <1>12, <2>1, <2>2
<1>13. CASE UNCHANGED vars
  BY <1>0, <1>13 DEF vars, TypeOK, Places, plan, fatherVars, childVars
<1>. QED BY <1>3, <1>4, <1>5, <1>6, <1>7, <1>8, <1>9, <1>10, <1>11, <1>12, <1>13 DEF Next, Father, Child

-----------------------------------------------------------------------------
(***************************************************************************)
(* The queue                                                               *)
(***************************************************************************)
LEMMA LineTypes ==
  ASSUME TypeOK, NEW t \in Types
  PROVE  /\ Len(said[t]) \in Nat /\ Len(heard[t]) \in Nat /\ Due(t) \in Nat
         /\ Len(heard[t]) <= Due(t) /\ Due(t) <= Len(heard[t]) + 1
         /\ said[t] \in Seq(Types \X Nat) /\ heard[t] \in Seq(Nat \X Nat)
<1>1. said[t] \in Seq(Types \X Nat) /\ heard[t] \in Seq(Nat \X Nat)
  BY DEF TypeOK
<1>2. Len(said[t]) \in Nat /\ Len(heard[t]) \in Nat
  BY <1>1
<1>3. Due(t) = Len(heard[t]) \/ Due(t) = Len(heard[t]) + 1
  <2>1. CASE msLastRead # None /\ msLastRead.mtype = t
    BY <1>2, <2>1 DEF Due
  <2>2. CASE ~ (msLastRead # None /\ msLastRead.mtype = t)
    <3>1. Due(t) = Len(heard[t]) + 0
      BY <2>2 DEF Due
    <3>. QED BY <1>2, <3>1
  <2>. QED BY <2>1, <2>2
<1>. QED BY <1>1, <1>2, <1>3

LEMMA SentSaid ==
  ASSUME TypeOK, NEW t \in Types, NumberedAs(t), Msgsnd(t, t)
  PROVE  /\ Len(said'[t]) = Len(said[t]) + 1
         /\ \A n \in 1 .. Len(said'[t]) : said'[t][n] = <<t, n>>
         /\ \A u \in Types \ {t} : said'[u] = said[u]
         /\ said' = [said EXCEPT ![t] = Append(said[t], <<t, Len(said[t]) + 1>>)]
<1>. DEFINE text == <<t, Len(said[t]) + 1>>
<1>1. /\ said \in [Types -> Seq(Types \X Nat)] /\ said[t] \in Seq(Types \X Nat)
      /\ Len(said[t]) \in Nat /\ text \in Types \X Nat
  BY LineTypes DEF TypeOK
<1>2. said' = [said EXCEPT ![t] = Append(said[t], text)]
  BY DEF Msgsnd
<1>3. said'[t] = Append(said[t], text) /\ \A u \in Types \ {t} : said'[u] = said[u]
  BY <1>1, <1>2
<1>4. /\ Len(said'[t]) = Len(said[t]) + 1 /\ said'[t][Len(said[t]) + 1] = text
      /\ \A n \in 1 .. Len(said[t]) : said'[t][n] = said[t][n]
  BY <1>1, <1>3, AppendProperties
<1>5. \A n \in 1 .. Len(said[t]) + 1 : n \in 1 .. Len(said[t]) \/ n = Len(said[t]) + 1
  BY <1>1
<1>. QED BY <1>2, <1>3, <1>4, <1>5 DEF NumberedAs

LEMMA SentQueue ==
  ASSUME TypeOK, NEW t \in Types, NumberedAs(t), QueuedAs(t), Msgsnd(t, t), Due(t)' = Due(t)
  PROVE  QueuedAs(t)'
<1>. DEFINE last == Len(queue) + 1
<1>1. /\ Len(queue') = last /\ DOMAIN queue' = 1 .. last /\ Len(queue) \in Nat
      /\ \A k \in 1 .. Len(queue) : queue'[k] = queue[k]
      /\ queue'[last].mtype = t /\ queue'[last].mtext = <<t, Len(said[t]) + 1>>
  <2>1. [mtype |-> t, mtext |-> <<t, Len(said[t]) + 1>>] \in Message
    BY LineTypes DEF Message
  <2>2. queue' = Append(queue, [mtype |-> t, mtext |-> <<t, Len(said[t]) + 1>>])
    BY DEF Msgsnd
  <2>3. queue' \in Seq(Message) /\ queue'[last] = [mtype |-> t, mtext |-> <<t, Len(said[t]) + 1>>]
    BY <2>1, <2>2, QueueTypes, AppendProperties
  <2>4. Len(queue') = last /\ \A k \in 1 .. Len(queue) : queue'[k] = queue[k]
    BY <2>1, <2>2, QueueTypes, AppendProperties
  <2>. QED BY <2>3, <2>4, QueueTypes, LenProperties
<1>2. OfType(t)' = OfType(t) \cup {last} /\ OfType(t) \subseteq 1 .. Len(queue)
  BY <1>1, QueueTypes DEF OfType
<1>3. /\ Len(said'[t]) = Len(said[t]) + 1 /\ Len(said[t]) \in Nat /\ Due(t) \in Nat
      /\ Due(t) <= Len(said[t])
  BY SentSaid, LineTypes DEF NumberedAs
<1>4. \A k \in OfType(t) : queue'[k] = queue[k] /\ k < last /\ k \in Nat
  BY <1>1, <1>2
<1>5. /\ queue'[last].mtext[1] = t /\ queue'[last].mtext[2] = Len(said[t]) + 1
  BY <1>1
<1>6. ASSUME NEW k \in OfType(t)'
      PROVE  queue'[k].mtext[1] = t /\ queue'[k].mtext[2] \in Due(t) + 1 .. Len(said[t]) + 1
  <2>1. CASE k = last
    BY <1>3, <1>5, <2>1
  <2>2. CASE k \in OfType(t)
    <3>1. queue[k].mtext[1] = t /\ queue[k].mtext[2] \in Due(t) + 1 .. Len(said[t])
      BY <2>2 DEF QueuedAs
    <3>. QED BY <1>3, <1>4, <2>2, <3>1
  <2>. QED BY <1>2, <2>1, <2>2
<1>7. ASSUME NEW k \in OfType(t)', NEW l \in OfType(t)', k < l
      PROVE  queue'[k].mtext[2] < queue'[l].mtext[2]
  <2>1. k \in OfType(t)
    BY <1>1, <1>2, <1>7
  <2>2. queue[k].mtext[2] \in Due(t) + 1 .. Len(said[t]) /\ queue'[k] = queue[k]
    BY <1>4, <2>1 DEF QueuedAs
  <2>3. CASE l = last
    BY <1>3, <1>5, <2>2, <2>3
  <2>4. CASE l \in OfType(t)
    BY <1>4, <1>7, <2>1, <2>4 DEF QueuedAs
  <2>. QED BY <1>2, <2>3, <2>4
<1>8. ASSUME NEW n \in Due(t) + 1 .. Len(said[t]) + 1
      PROVE  \E k \in OfType(t)' : queue'[k].mtext[2] = n
  <2>1. CASE n = Len(said[t]) + 1
    BY <1>2, <1>5, <2>1
  <2>2. CASE n # Len(said[t]) + 1
    <3>1. n \in Due(t) + 1 .. Len(said[t])
      BY <1>3, <2>2
    <3>2. PICK k \in OfType(t) : queue[k].mtext[2] = n
      BY <3>1 DEF QueuedAs
    <3>. QED BY <1>2, <1>4, <3>2
  <2>. QED BY <2>1, <2>2
<1>. QED BY <1>3, <1>6, <1>7, <1>8 DEF QueuedAs

\* The other lines of the queue do not change.
LEMMA SentBeside ==
  ASSUME TypeOK, NEW t \in Types, Msgsnd(t, t), NEW u \in Types \ {t}, QueuedAs(u),
         said'[u] = said[u], Due(u)' = Due(u)
  PROVE  QueuedAs(u)'
<1>. DEFINE m == [mtype |-> t, mtext |-> <<t, Len(said[t]) + 1>>]
<1>1. m \in Message /\ m.mtype = t
  BY LineTypes DEF Message
<1>2. queue' = Append(queue, m)
  BY DEF Msgsnd
<1>. HIDE DEF m
<1>3. /\ queue' \in Seq(Message) /\ Len(queue') = Len(queue) + 1 /\ Len(queue) \in Nat
      /\ \A k \in 1 .. Len(queue) : queue'[k] = queue[k]
      /\ queue'[Len(queue) + 1].mtype = t
  BY <1>1, <1>2, QueueTypes, AppendProperties
<1>4. DOMAIN queue' = 1 .. Len(queue) + 1
  BY <1>3, LenProperties
<1>5. OfType(u)' = OfType(u) /\ \A k \in OfType(u) : queue'[k] = queue[k]
  BY <1>3, <1>4, QueueTypes DEF OfType
<1>. QED BY <1>5 DEF QueuedAs

LEMMA TakenText ==
  ASSUME TypeOK, NEW t \in Types, QueuedAs(t), OfType(t) # {}
  PROVE  /\ queue[First(t)].mtext = <<t, Due(t) + 1>> /\ Due(t) + 1 <= Len(said[t])
         /\ \A k \in OfType(t) : k # First(t) => queue[k].mtext[2] \in Due(t) + 2 .. Len(said[t])
<1>. DEFINE f == First(t)
<1>1. f \in OfType(t) /\ \A k \in OfType(t) : f <= k
  BY FirstFacts
<1>2. queue[f].mtext[1] = t /\ queue[f].mtext[2] \in Due(t) + 1 .. Len(said[t])
  BY <1>1 DEF QueuedAs
<1>3. Due(t) \in Nat /\ Len(said[t]) \in Nat /\ OfType(t) \subseteq Nat
  BY LineTypes, QueueTypes DEF OfType
<1>4. Due(t) + 1 \in Due(t) + 1 .. Len(said[t])
  BY <1>2, <1>3
<1>5. PICK k \in OfType(t) : queue[k].mtext[2] = Due(t) + 1
  BY <1>4 DEF QueuedAs
<1>. HIDE DEF f
<1>6. f = k
  <2>1. f < k \/ f = k
    BY <1>1, <1>3
  <2>2. f < k => queue[f].mtext[2] < Due(t) + 1
    BY <1>1, <1>5 DEF QueuedAs
  <2>. QED BY <1>2, <1>3, <2>1, <2>2
<1>7. queue[f].mtext \in Types \X Nat
  BY QueueTypes, <1>1 DEF OfType, Message
<1>8. queue[f].mtext = <<t, Due(t) + 1>>
  BY <1>2, <1>5, <1>6, <1>7
<1>9. ASSUME NEW l \in OfType(t), l # f PROVE queue[l].mtext[2] \in Due(t) + 2 .. Len(said[t])
  <2>1. f < l
    BY <1>1, <1>3, <1>9
  <2>2. queue[f].mtext[2] < queue[l].mtext[2] /\ queue[l].mtext[2] \in Due(t) + 1 .. Len(said[t])
    BY <1>1, <2>1 DEF QueuedAs
  <2>. QED BY <1>3, <1>5, <1>6, <2>2
<1>. QED BY <1>3, <1>4, <1>8, <1>9 DEF f

LEMMA TakenQueue ==
  ASSUME TypeOK, NEW t \in Types, QueuedAs(t), OfType(t) # {}, queue' = Without(First(t)),
         NEW u \in Types, QueuedAs(u), said'[u] = said[u],
         Due(u)' = IF u = t THEN Due(u) + 1 ELSE Due(u)
  PROVE  QueuedAs(u)'
<1>. DEFINE f == First(t)
            Old(i) == IF i < f THEN i ELSE i + 1
<1>1. f \in OfType(t) /\ f \in 1 .. Len(queue) /\ Len(queue) \in Nat /\ queue[f].mtype = t
  BY FirstFacts, QueueTypes DEF OfType
<1>2. /\ queue' \in Seq(Message) /\ Len(queue') = Len(queue) - 1
      /\ \A i \in 1 .. Len(queue) - 1 : queue'[i] = queue[Old(i)]
  BY <1>1, QueueTypes, WithoutFacts
<1>3. DOMAIN queue' = 1 .. Len(queue) - 1 /\ DOMAIN queue = 1 .. Len(queue)
  BY <1>2, LenProperties, QueueTypes
<1>4. \A k \in OfType(t) : k # f => queue[k].mtext[2] \in Due(t) + 2 .. Len(said[t])
  BY TakenText
<1>5. Due(u) \in Nat /\ Len(said[u]) \in Nat
  BY LineTypes
<1>6. /\ \A i \in 1 .. Len(queue) - 1 : Old(i) \in 1 .. Len(queue) /\ Old(i) # f
      /\ \A i, l \in 1 .. Len(queue) - 1 : i < l => Old(i) < Old(l)
  BY <1>1
<1>7. ASSUME NEW k \in 1 .. Len(queue), k # f PROVE \E i \in 1 .. Len(queue) - 1 : Old(i) = k
  <2>1. CASE k < f
    BY <1>1, <2>1
  <2>2. CASE k > f
    <3>1. k - 1 \in 1 .. Len(queue) - 1 /\ Old(k - 1) = k
      BY <1>1, <2>2
    <3>. QED BY <3>1
  <2>. QED BY <1>1, <1>7, <2>1, <2>2
<1>. HIDE DEF f, Old
<1>8. \A i \in OfType(u)' : /\ i \in 1 .. Len(queue) - 1 /\ Old(i) \in OfType(u)
                            /\ Old(i) # f /\ queue'[i] = queue[Old(i)]
  BY <1>2, <1>3, <1>6 DEF OfType
<1>9. \A k \in OfType(u) : k # f => \E i \in OfType(u)' : Old(i) = k
  BY <1>2, <1>3, <1>7 DEF OfType
<1>10. ASSUME NEW i \in OfType(u)'
       PROVE  queue'[i].mtext[1] = u /\ queue'[i].mtext[2] \in Due(u)' + 1 .. Len(said[u])
  <2>1. queue[Old(i)].mtext[1] = u /\ queue[Old(i)].mtext[2] \in Due(u) + 1 .. Len(said[u])
    BY <1>8 DEF QueuedAs
  <2>2. CASE u = t
    <3>1. queue[Old(i)].mtext[2] \in Due(t) + 2 .. Len(said[t])
      BY <1>4, <1>8, <2>2
    <3>. QED BY <1>5, <1>8, <2>1, <2>2, <3>1
  <2>. QED BY <1>8, <2>1, <2>2
<1>11. ASSUME NEW i \in OfType(u)', NEW l \in OfType(u)', i < l
       PROVE  queue'[i].mtext[2] < queue'[l].mtext[2]
  <2>1. Old(i) < Old(l)
    BY <1>6, <1>8, <1>11
  <2>. QED BY <1>8, <2>1 DEF QueuedAs
<1>12. ASSUME NEW n \in Due(u)' + 1 .. Len(said[u])
       PROVE  \E i \in OfType(u)' : queue'[i].mtext[2] = n
  <2>1. n \in Due(u) + 1 .. Len(said[u]) /\ (u = t => n # Due(t) + 1)
    BY <1>5
  <2>2. PICK k \in OfType(u) : queue[k].mtext[2] = n
    BY <2>1 DEF QueuedAs
  <2>3. k # f
    <3>1. u = t => queue[f].mtext = <<t, Due(t) + 1>>
      BY TakenText DEF f
    <3>2. u # t => k # f
      BY <1>1, <2>2 DEF OfType
    <3>. QED BY <2>1, <2>2, <3>1, <3>2
  <2>. QED BY <1>8, <1>9, <2>2, <2>3
<1>. QED BY <1>10, <1>11, <1>12 DEF QueuedAs

LEMMA SentInv ==
  ASSUME QueueInv, pc # "over", NEW t \in Types, Msgsnd(t, t), UNCHANGED <<heard, msLastRead>>
  PROVE  Numbered' /\ \A u \in Types : QueuedAs(u)'
<1>. SUFFICES ASSUME NEW u \in Types PROVE NumberedAs(u)' /\ QueuedAs(u)'
  BY DEF Numbered
<1>1. /\ TypeOK /\ NumberedAs(t) /\ NumberedAs(u) /\ QueuedAs(t) /\ QueuedAs(u)
      /\ Due(t)' = Due(t) /\ Due(u)' = Due(u)
  BY DEF QueueInv, Numbered, Queued, Due
<1>2. CASE u = t
  <2>1. /\ Len(said'[t]) = Len(said[t]) + 1 /\ \A n \in 1 .. Len(said'[t]) : said'[t][n] = <<t, n>>
    BY <1>1, SentSaid
  <2>2. Due(t) <= Len(said[t]) /\ Due(t) \in Nat /\ Len(said[t]) \in Nat
    BY <1>1, LineTypes DEF NumberedAs
  <2>3. Due(t) <= Len(said'[t])
    BY <2>1, <2>2
  <2>4. QueuedAs(t)'
    BY <1>1, SentQueue
  <2>. QED BY <1>1, <1>2, <2>1, <2>3, <2>4 DEF NumberedAs
<1>3. CASE u # t
  <2>1. said'[u] = said[u]
    BY <1>1, <1>3, SentSaid
  <2>2. QueuedAs(u)'
    BY <1>1, <1>3, <2>1, SentBeside
  <2>. QED BY <1>1, <2>1, <2>2 DEF NumberedAs
<1>. QED BY <1>2, <1>3

LEMMA HeardNext ==
  ASSUME TypeOK, NEW t \in Types, NumberedAs(t), Hear(t, <<t, Len(heard[t]) + 1>>)
  PROVE  /\ Len(heard'[t]) = Len(heard[t]) + 1
         /\ \A n \in 1 .. Len(heard'[t]) : heard'[t][n] = <<t, n>>
         /\ \A u \in Types \ {t} : heard'[u] = heard[u]
<1>1. /\ heard \in [Types -> Seq(Nat \X Nat)] /\ heard[t] \in Seq(Nat \X Nat) /\ Len(heard[t]) \in Nat
  BY LineTypes DEF TypeOK
<1>2. <<t, Len(heard[t]) + 1>> \in Nat \X Nat
  BY <1>1 DEF Types
<1>3. heard'[t] = Append(heard[t], <<t, Len(heard[t]) + 1>>) /\ \A u \in Types \ {t} : heard'[u] = heard[u]
  BY <1>1 DEF Hear
<1>4. /\ Len(heard'[t]) = Len(heard[t]) + 1 /\ heard'[t][Len(heard[t]) + 1] = <<t, Len(heard[t]) + 1>>
      /\ \A n \in 1 .. Len(heard[t]) : heard'[t][n] = heard[t][n]
  BY <1>1, <1>2, <1>3, AppendProperties
<1>5. \A n \in 1 .. Len(heard[t]) + 1 : n \in 1 .. Len(heard[t]) \/ n = Len(heard[t]) + 1
  BY <1>1
<1>. QED BY <1>3, <1>4, <1>5 DEF NumberedAs

\* A message goes from the queue to its reader.
LEMMA ReadInv ==
  ASSUME QueueInv, pc # "over", NEW t \in Types, OfType(t) # {}, queue' = Without(First(t)),
         Hear(t, queue[First(t)].mtext), UNCHANGED <<said, msLastRead>>,
         msLastRead = None \/ msLastRead.mtype # t
  PROVE  /\ Numbered' /\ \A u \in Types : QueuedAs(u)'
         /\ Len(heard'[t]) = Len(heard[t]) + 1 /\ \A u \in Types \ {t} : heard'[u] = heard[u]
<1>1. TypeOK /\ NumberedAs(t) /\ QueuedAs(t) /\ Due(t) = Len(heard[t])
  <2>1. Len(heard[t]) \in Nat
    BY LineTypes DEF QueueInv
  <2>2. Due(t) = Len(heard[t]) + 0
    BY DEF Due
  <2>. QED BY <2>1, <2>2 DEF QueueInv, Numbered, Queued
<1>2. queue[First(t)].mtext = <<t, Len(heard[t]) + 1>> /\ Len(heard[t]) + 1 <= Len(said[t])
  BY <1>1, TakenText
<1>3. Hear(t, <<t, Len(heard[t]) + 1>>)
  BY <1>2
<1>4. /\ Len(heard'[t]) = Len(heard[t]) + 1
      /\ \A n \in 1 .. Len(heard'[t]) : heard'[t][n] = <<t, n>>
      /\ \A u \in Types \ {t} : heard'[u] = heard[u]
  BY <1>1, <1>3, HeardNext
<1>5. Len(heard[t]) \in Nat /\ Len(heard'[t]) = Len(heard[t]) + 1
  BY <1>1, <1>4, LineTypes
<1>6. Due(t)' = Due(t) + 1
  <2>1. Due(t)' = Len(heard'[t]) + 0
    BY DEF Due
  <2>. QED BY <1>1, <1>5, <2>1
<1>7. \A u \in Types \ {t} : Due(u)' = Due(u)
  BY <1>4 DEF Due
<1>8. ASSUME NEW u \in Types PROVE NumberedAs(u)' /\ QueuedAs(u)'
  <2>1. NumberedAs(u) /\ QueuedAs(u)
    BY DEF QueueInv, Numbered, Queued
  <2>2. QueuedAs(u)'
    BY <1>1, <1>6, <1>7, <2>1, TakenQueue
  <2>3. NumberedAs(u)'
    <3>1. CASE u = t
      BY <1>1, <1>2, <1>4, <1>6, <3>1 DEF NumberedAs
    <3>2. CASE u # t
      BY <1>4, <1>7, <2>1, <3>2 DEF NumberedAs
    <3>. QED BY <3>1, <3>2
  <2>. QED BY <2>2, <2>3
<1>. QED BY <1>4, <1>8 DEF Numbered

\* What a step says and hears is what its turn tells.
LEMMA TurnCounts ==
  ASSUME TypeOK, NEW c \in Children, NEW who, NEW n \in 1 .. Len(dialogue[c]) + 1, Turn(who, c, n)
  PROVE  Count(dialogue[c], who, n + 1) = Count(dialogue[c], who, n) + 1
<1>1. n \in Nat \ {0} /\ dialogue[c][n] = who
  BY DialogueFacts DEF Turn
<1>. QED BY <1>1, CountFacts

LEMMA OtherCounts ==
  ASSUME TypeOK, NEW c \in Children, NEW who, NEW n \in 1 .. Len(dialogue[c]) + 1, Turn(who, c, n),
         NEW other, other # who
  PROVE  Count(dialogue[c], other, n + 1) = Count(dialogue[c], other, n)
<1>1. n \in Nat \ {0} /\ dialogue[c][n] = who
  BY DialogueFacts DEF Turn
<1>2. /\ Count(dialogue[c], other, n + 1) = Count(dialogue[c], other, n) + 0
      /\ Count(dialogue[c], other, n) \in Nat
  BY <1>1, CountFacts
<1>. QED BY <1>2

LEMMA KeptCounts ==
  ASSUME NEW c \in Children, CountedAs(c), UNCHANGED <<dialogue, spoken[c], done[c]>>,
         UNCHANGED <<said[2 * c - 1], said[2 * c], heard[2 * c - 1], heard[2 * c]>>
  PROVE  CountedAs(c)'
BY DEF CountedAs

(* A child that has said something unheard is at the turn after the father's,
   who therefore listens. *)
LEMMA SaidIsAwaited ==
  ASSUME QueueInv, pc # "over", NEW c \in Children, OfType(2 * c - 1) # {}, ~ Finished(c)
  PROVE  FatherListens(c)
<1>1. /\ TypeOK /\ CountedAs(c) /\ 2 * c - 1 \in Types /\ 2 * c \in Types
      /\ QueuedAs(2 * c - 1) /\ NumberedAs(2 * c)
  BY LineFacts DEF QueueInv, Counted, Queued, Numbered
<1>2. /\ spoken[c] \in 1 .. Len(dialogue[c]) /\ done[c] \in 1 .. Len(dialogue[c]) + 1
      /\ Len(dialogue[c]) \in Nat
  BY <1>1, DialogueFacts DEF TypeOK, Finished
<1>3. Len(heard[2 * c - 1]) < Len(said[2 * c - 1])
  <2>1. Due(2 * c - 1) + 1 <= Len(said[2 * c - 1])
    BY <1>1, TakenText
  <2>2. /\ Len(heard[2 * c - 1]) \in Nat /\ Len(said[2 * c - 1]) \in Nat
        /\ Due(2 * c - 1) \in Nat /\ Len(heard[2 * c - 1]) <= Due(2 * c - 1)
    BY <1>1, LineTypes
  <2>. QED BY <2>1, <2>2
<1>4. Len(heard[2 * c]) <= Len(said[2 * c])
  BY <1>1, LineTypes DEF NumberedAs
<1>5. \A n \in Nat \ {0}, who \in {"c", "f"} : Count(dialogue[c], who, n) \in Nat
  BY CountFacts
<1>6. spoken[c] < done[c]
  <2>1. SUFFICES ASSUME done[c] <= spoken[c] PROVE FALSE
    BY <1>2
  <2>2. Count(dialogue[c], "c", done[c]) <= Count(dialogue[c], "c", spoken[c])
    BY <1>2, <2>1, CountFacts
  <2>. QED BY <1>1, <1>2, <1>3, <1>5, <2>2 DEF CountedAs
<1>7. dialogue[c][spoken[c]] # "f"
  <2>1. SUFFICES ASSUME dialogue[c][spoken[c]] = "f" PROVE FALSE
    OBVIOUS
  <2>2. Count(dialogue[c], "f", spoken[c] + 1) = Count(dialogue[c], "f", spoken[c]) + 1
    BY <1>2, <2>1, CountFacts
  <2>3. Count(dialogue[c], "f", spoken[c] + 1) <= Count(dialogue[c], "f", done[c])
    <3>1. done[c] \in Nat \ {0} /\ spoken[c] + 1 \in 1 .. done[c]
      BY <1>2, <1>6
    <3>. QED BY <3>1, CountFacts
  <2>4. Count(dialogue[c], "f", spoken[c]) \in Nat /\ Count(dialogue[c], "f", done[c]) \in Nat
    BY <1>2, <1>5
  <2>5. Len(said[2 * c]) < Len(heard[2 * c])
    BY <1>1, <2>2, <2>3, <2>4 DEF CountedAs
  <2>6. Len(said[2 * c]) \in Nat /\ Len(heard[2 * c]) \in Nat
    BY <1>1, LineTypes
  <2>. QED BY <1>4, <2>5, <2>6
<1>. QED BY <1>1, <1>2, <1>7, DialogueFacts DEF FatherListens, Turn

-----------------------------------------------------------------------------
(***************************************************************************)
(* Each step keeps the invariant.                                          *)
(***************************************************************************)
Promises == Ahead /\ Numbered /\ Queued /\ Removed /\ Counted

LEMMA StillInv ==
  ASSUME QueueInv, UNCHANGED <<queue, msLastRead, said, heard, dialogue, spoken, done>>,
         msLastRead = None \/ UNCHANGED <<pc, j>>, pc = "over" => pc' = "over", Removed'
  PROVE  Promises'
<1>1. \A t \in Types : Due(t)' = Due(t) /\ OfType(t)' = OfType(t)
  BY DEF Due, OfType
<1>2. Numbered' /\ Queued'
  BY <1>1 DEF QueueInv, Numbered, NumberedAs, Queued, QueuedAs
<1>3. Ahead'
  BY DEF QueueInv, Ahead, FatherListens, Turn
<1>4. Counted'
  BY DEF QueueInv, Counted, CountedAs
<1>. QED BY <1>2, <1>3, <1>4 DEF Promises

LEMMA FatherWritesInv == QueueInv /\ FatherWrites => Promises'
<1>. SUFFICES ASSUME QueueInv, FatherWrites PROVE Promises'
  OBVIOUS
<1>0. TypeOK /\ Ahead /\ j \in Children
  BY DEF QueueInv, TypeOK
<1>1. /\ 2 * j - 1 \in Types /\ 2 * j \in Types
      /\ \A c \in Children : 2 * c - 1 # 2 * j /\ (c # j => 2 * c # 2 * j)
  BY <1>0, NAssumption DEF Children, Types
<1>2. /\ pc \in {"send", "reply"} /\ FatherSpeaks(j) /\ Msgsnd(2 * j, 2 * j)
      /\ spoken' = [spoken EXCEPT ![j] = spoken[j] + 1]
      /\ UNCHANGED <<dialogue, msLastRead, pc, j, child, done, heard>>
  BY <1>0, LineFacts DEF FatherWrites, plan, childVars
<1>3. msLastRead = None
  BY <1>0, <1>2 DEF Ahead
<1>4. Numbered' /\ \A u \in Types : QueuedAs(u)'
  BY <1>1, <1>2, SentInv
<1>5. /\ Len(said'[2 * j]) = Len(said[2 * j]) + 1
      /\ \A u \in Types \ {2 * j} : said'[u] = said[u]
  BY <1>0, <1>1, <1>2, SentSaid DEF QueueInv, Numbered
<1>6. spoken \in [Children -> Nat] /\ spoken'[j] = spoken[j] + 1 /\ \A c \in Children \ {j} : spoken'[c] = spoken[c]
  BY <1>0, <1>2 DEF QueueInv, Places
<1>7. ASSUME NEW c \in Children PROVE CountedAs(c)'
  <2>0. CountedAs(c) /\ 2 * c - 1 \in Types /\ 2 * c \in Types
    BY LineFacts DEF QueueInv, Counted
  <2>1. CASE c # j
    BY <1>1, <1>2, <1>5, <1>6, <2>0, <2>1, KeptCounts
  <2>2. CASE c = j
    <3>1. /\ Count(dialogue[j], "f", spoken[j] + 1) = Count(dialogue[j], "f", spoken[j]) + 1
          /\ Count(dialogue[j], "c", spoken[j] + 1) = Count(dialogue[j], "c", spoken[j])
      BY <1>0, <1>2, TurnCounts, OtherCounts DEF FatherSpeaks, TypeOK
    <3>2. said'[2 * j - 1] = said[2 * j - 1]
      BY <1>0, <1>1, <1>5
    <3>. QED BY <1>2, <1>5, <1>6, <2>0, <2>2, <3>1, <3>2 DEF CountedAs
  <2>. QED BY <2>1, <2>2
<1>. QED BY <1>2, <1>3, <1>4, <1>7 DEF Promises, Ahead, Queued, Removed, Counted

LEMMA ChildWritesInv == ASSUME NEW c \in Children PROVE QueueInv /\ ChildWrites(c) => Promises'
<1>. SUFFICES ASSUME QueueInv, ChildWrites(c) PROVE Promises'
  OBVIOUS
<1>0. TypeOK /\ Ahead /\ pc # "over"
  BY DEF QueueInv, Removed, ChildWrites
<1>1. /\ 2 * c - 1 \in Types /\ 2 * c \in Types
      /\ \A d \in Children : 2 * d # 2 * c - 1 /\ (c # d => 2 * d - 1 # 2 * c - 1)
  BY NAssumption DEF Children, Types
<1>2. /\ Turn("c", c, done[c]) /\ Msgsnd(2 * c - 1, 2 * c - 1)
      /\ done' = [done EXCEPT ![c] = done[c] + 1]
      /\ UNCHANGED <<dialogue, msLastRead, pc, j, child, spoken, heard>>
  BY LineFacts DEF ChildWrites, plan, fatherVars
<1>3. Numbered' /\ \A u \in Types : QueuedAs(u)'
  BY <1>0, <1>1, <1>2, SentInv
<1>4. /\ Len(said'[2 * c - 1]) = Len(said[2 * c - 1]) + 1
      /\ \A u \in Types \ {2 * c - 1} : said'[u] = said[u]
  BY <1>0, <1>1, <1>2, SentSaid DEF QueueInv, Numbered
<1>5. done \in [Children -> Nat] /\ done'[c] = done[c] + 1 /\ \A d \in Children \ {c} : done'[d] = done[d]
  BY <1>2 DEF QueueInv, Places
<1>6. ASSUME NEW d \in Children PROVE CountedAs(d)'
  <2>0. CountedAs(d) /\ 2 * d - 1 \in Types /\ 2 * d \in Types
    BY LineFacts DEF QueueInv, Counted
  <2>1. CASE d # c
    BY <1>1, <1>2, <1>4, <1>5, <2>0, <2>1, KeptCounts
  <2>2. CASE d = c
    <3>1. /\ Count(dialogue[c], "c", done[c] + 1) = Count(dialogue[c], "c", done[c]) + 1
          /\ Count(dialogue[c], "f", done[c] + 1) = Count(dialogue[c], "f", done[c])
      <4>1. done[c] \in 1 .. Len(dialogue[c]) + 1
        BY <1>0 DEF TypeOK
      <4>2. Count(dialogue[c], "c", done[c] + 1) = Count(dialogue[c], "c", done[c]) + 1
        BY <1>0, <1>2, <4>1, TurnCounts
      <4>3. Count(dialogue[c], "f", done[c] + 1) = Count(dialogue[c], "f", done[c])
        <5>1. TypeOK /\ Turn("c", c, done[c]) /\ "f" # "c"
          BY <1>0, <1>2
        <5>. QED BY <4>1, <5>1, OtherCounts
      <4>. QED BY <4>2, <4>3
    <3>2. said'[2 * c] = said[2 * c]
      BY <1>1, <1>4
    <3>. QED BY <1>2, <1>4, <1>5, <2>0, <2>2, <3>1, <3>2 DEF CountedAs
  <2>. QED BY <2>1, <2>2
<1>7. Ahead'
  BY <1>0, <1>2 DEF Ahead, FatherListens, Turn
<1>8. Removed'
  BY <1>0, <1>2 DEF Removed
<1>. QED BY <1>3, <1>6, <1>7, <1>8 DEF Promises, Queued, Counted

LEMMA ChildReadsInv == ASSUME NEW c \in Children PROVE QueueInv /\ ChildReads(c) => Promises'
<1>. SUFFICES ASSUME QueueInv, ChildReads(c) PROVE Promises'
  OBVIOUS
<1>0. TypeOK /\ Ahead /\ pc # "over" /\ j \in Children
  BY DEF QueueInv, Removed, ChildReads, TypeOK
<1>1. /\ 2 * c - 1 \in Types /\ 2 * c \in Types /\ 2 * j - 1 # 2 * c
      /\ \A d \in Children : 2 * d - 1 # 2 * c /\ (c # d => 2 * d # 2 * c)
  BY <1>0, NAssumption DEF Children, Types
<1>2. /\ Turn("f", c, done[c]) /\ OfType(2 * c) # {} /\ queue' = Without(First(2 * c))
      /\ Hear(2 * c, queue[First(2 * c)].mtext) /\ done' = [done EXCEPT ![c] = done[c] + 1]
      /\ UNCHANGED <<dialogue, msLastRead, pc, j, child, spoken, said>>
  BY LineFacts DEF ChildReads, plan, fatherVars
<1>3. msLastRead = None \/ msLastRead.mtype # 2 * c
  BY <1>0, <1>1 DEF Ahead
<1>4. /\ Numbered' /\ \A u \in Types : QueuedAs(u)'
      /\ Len(heard'[2 * c]) = Len(heard[2 * c]) + 1 /\ \A u \in Types \ {2 * c} : heard'[u] = heard[u]
  BY <1>0, <1>1, <1>2, <1>3, ReadInv
<1>5. done \in [Children -> Nat] /\ done'[c] = done[c] + 1 /\ \A d \in Children \ {c} : done'[d] = done[d]
  BY <1>2 DEF QueueInv, Places
<1>6. ASSUME NEW d \in Children PROVE CountedAs(d)'
  <2>0. CountedAs(d) /\ 2 * d - 1 \in Types /\ 2 * d \in Types
    BY LineFacts DEF QueueInv, Counted
  <2>1. CASE d # c
    BY <1>1, <1>2, <1>4, <1>5, <2>0, <2>1, KeptCounts
  <2>2. CASE d = c
    <3>1. /\ Count(dialogue[c], "f", done[c] + 1) = Count(dialogue[c], "f", done[c]) + 1
          /\ Count(dialogue[c], "c", done[c] + 1) = Count(dialogue[c], "c", done[c])
      <4>1. done[c] \in 1 .. Len(dialogue[c]) + 1
        BY <1>0 DEF TypeOK
      <4>2. Count(dialogue[c], "f", done[c] + 1) = Count(dialogue[c], "f", done[c]) + 1
        BY <1>0, <1>2, <4>1, TurnCounts
      <4>3. Count(dialogue[c], "c", done[c] + 1) = Count(dialogue[c], "c", done[c])
        <5>1. TypeOK /\ Turn("f", c, done[c]) /\ "c" # "f"
          BY <1>0, <1>2
        <5>. QED BY <4>1, <5>1, OtherCounts
      <4>. QED BY <4>2, <4>3
    <3>2. heard'[2 * c - 1] = heard[2 * c - 1]
      BY <1>1, <1>4
    <3>. QED BY <1>2, <1>4, <1>5, <2>0, <2>2, <3>1, <3>2 DEF CountedAs
  <2>. QED BY <2>1, <2>2
<1>7. Ahead'
  <2>1. heard'[2 * j - 1] = heard[2 * j - 1]
    BY <1>0, <1>1, <1>4, LineFacts
  <2>. QED BY <1>0, <1>2, <2>1 DEF Ahead, FatherListens, Turn
<1>8. Removed'
  BY <1>0, <1>2 DEF Removed
<1>. QED BY <1>4, <1>6, <1>7, <1>8 DEF Promises, Queued, Counted

\* The father hears a message of its child, from the queue or kept.
LEMMA HeardCounts ==
  ASSUME QueueInv, FatherListens(j), Len(heard'[2 * j - 1]) = Len(heard[2 * j - 1]) + 1,
         \A u \in Types \ {2 * j - 1} : heard'[u] = heard[u],
         spoken' = [spoken EXCEPT ![j] = spoken[j] + 1], UNCHANGED <<dialogue, done, said>>
  PROVE  Counted'
<1>0. TypeOK /\ j \in Children
  BY DEF QueueInv, TypeOK
<1>1. /\ 2 * j - 1 \in Types /\ 2 * j \in Types
      /\ \A c \in Children : 2 * c # 2 * j - 1 /\ (c # j => 2 * c - 1 # 2 * j - 1)
  BY <1>0, NAssumption DEF Children, Types
<1>2. spoken \in [Children -> Nat] /\ spoken'[j] = spoken[j] + 1 /\ \A c \in Children \ {j} : spoken'[c] = spoken[c]
  BY <1>0 DEF QueueInv, Places
<1>3. ASSUME NEW c \in Children PROVE CountedAs(c)'
  <2>0. CountedAs(c) /\ 2 * c - 1 \in Types /\ 2 * c \in Types
    BY LineFacts DEF QueueInv, Counted
  <2>1. CASE c # j
    BY <1>1, <1>2, <2>0, <2>1, KeptCounts
  <2>2. CASE c = j
    <3>1. /\ Count(dialogue[j], "c", spoken[j] + 1) = Count(dialogue[j], "c", spoken[j]) + 1
          /\ Count(dialogue[j], "f", spoken[j] + 1) = Count(dialogue[j], "f", spoken[j])
      BY <1>0, TurnCounts, OtherCounts DEF FatherListens, TypeOK
    <3>2. heard'[2 * j] = heard[2 * j]
      BY <1>0, <1>1
    <3>. QED BY <1>2, <2>0, <2>2, <3>1, <3>2 DEF CountedAs
  <2>. QED BY <2>1, <2>2
<1>. QED BY <1>3 DEF Counted

LEMMA FatherReadsInv == QueueInv /\ FatherReads => Promises'
<1>. SUFFICES ASSUME QueueInv, FatherReads PROVE Promises'
  OBVIOUS
<1>0. TypeOK /\ j \in Children /\ 2 * j - 1 \in Types
  BY LineFacts DEF QueueInv, TypeOK
<1>1. /\ pc = "read" /\ FatherListens(j) /\ msLastRead = None /\ OfType(2 * j - 1) # {}
      /\ Hear(2 * j - 1, queue[First(2 * j - 1)].mtext) /\ queue' = Without(First(2 * j - 1))
      /\ spoken' = [spoken EXCEPT ![j] = spoken[j] + 1]
      /\ UNCHANGED <<dialogue, msLastRead, pc, j, child, done, said>>
  BY <1>0, LineFacts DEF FatherReads, plan, childVars
<1>2. /\ Numbered' /\ \A u \in Types : QueuedAs(u)'
      /\ Len(heard'[2 * j - 1]) = Len(heard[2 * j - 1]) + 1
      /\ \A u \in Types \ {2 * j - 1} : heard'[u] = heard[u]
  BY <1>0, <1>1, ReadInv
<1>3. Counted'
  BY <1>1, <1>2, HeardCounts
<1>. QED BY <1>1, <1>2, <1>3 DEF Promises, Ahead, Queued, Removed

LEMMA ReadKeptInv == QueueInv /\ ReadKept => Promises'
<1>. SUFFICES ASSUME QueueInv, ReadKept PROVE Promises'
  OBVIOUS
<1>0. TypeOK /\ j \in Children /\ 2 * j - 1 \in Types
  BY LineFacts DEF QueueInv, TypeOK
<1>t. PICK t \in Types : t = 2 * j - 1
  BY <1>0
<1>1. /\ pc = "read" /\ FatherListens(j) /\ msLastRead # None
      /\ msLastRead.mtype = t /\ msLastRead.mtext = <<t, Len(heard[t]) + 1>>
  BY <1>t DEF ReadKept, QueueInv, Ahead
<1>2. /\ Hear(t, <<t, Len(heard[t]) + 1>>) /\ msLastRead' = None
      /\ spoken' = [spoken EXCEPT ![j] = spoken[j] + 1]
      /\ UNCHANGED <<dialogue, queue, pc, j, child, done, said>>
  BY <1>0, <1>1, <1>t, LineFacts DEF ReadKept, plan, childVars
<1>3. /\ Len(heard'[t]) = Len(heard[t]) + 1
      /\ \A n \in 1 .. Len(heard'[t]) : heard'[t][n] = <<t, n>>
      /\ \A u \in Types \ {t} : heard'[u] = heard[u]
  BY <1>0, <1>2, HeardNext DEF QueueInv, Numbered
<1>4. \A u \in Types : Due(u)' = Due(u)
  <2>1. \A u \in Types : Len(heard[u]) \in Nat
    BY <1>0, LineTypes
  <2>2. Due(t)' = Len(heard'[t]) + 0 /\ \A u \in Types : Due(u)' = Len(heard'[u]) + 0
    BY <1>2 DEF Due
  <2>3. Due(t) = Len(heard[t]) + 1
    BY <1>1 DEF Due
  <2>4. \A u \in Types \ {t} : Due(u) = Len(heard[u]) + 0
    BY <1>1 DEF Due
  <2>5. Due(t)' = Due(t)
    <3>1. Len(heard[t]) \in Nat /\ Len(heard'[t]) = Len(heard[t]) + 1
      BY <1>3, <2>1
    <3>. QED BY <2>2, <2>3, <3>1
  <2>6. ASSUME NEW u \in Types, u # t PROVE Due(u)' = Due(u)
    <3>1. heard'[u] = heard[u] /\ Due(u)' = Len(heard'[u]) + 0 /\ Due(u) = Len(heard[u]) + 0
      BY <1>3, <2>2, <2>4, <2>6
    <3>. QED BY <3>1
  <2>. QED BY <2>5, <2>6
<1>5. \A u \in Types : NumberedAs(u)' /\ QueuedAs(u)'
  <2>1. ASSUME NEW u \in Types PROVE NumberedAs(u)'
    <3>1. NumberedAs(u)
      BY <2>1 DEF QueueInv, Numbered
    <3>. QED BY <1>2, <1>3, <1>4, <3>1 DEF NumberedAs
  <2>2. ASSUME NEW u \in Types PROVE QueuedAs(u)'
    <3>1. QueuedAs(u) /\ OfType(u)' = OfType(u)
      BY <1>1, <1>2, <2>2 DEF QueueInv, Queued, OfType
    <3>. QED BY <1>2, <1>4, <3>1 DEF QueuedAs
  <2>. QED BY <2>1, <2>2
<1>6. Counted'
  BY <1>t, <1>1, <1>2, <1>3, HeardCounts
<1>. QED BY <1>1, <1>2, <1>5, <1>6 DEF Promises, Ahead, Numbered, Queued, Removed

LEMMA GetIPCStatusInv == QueueInv /\ GetIPCStatus => Promises'
<1>. SUFFICES ASSUME QueueInv, GetIPCStatus PROVE Promises'
  OBVIOUS
<1>0. TypeOK /\ j \in Children /\ 2 * j - 1 \in Types
  BY LineFacts DEF QueueInv, TypeOK
<1>t. PICK t \in Types : t = 2 * j - 1
  BY <1>0
<1>1. /\ pc = "poll" /\ ~ Finished(j) /\ OfType(t) # {} /\ pc' = "read"
      /\ msLastRead' = queue[First(t)] /\ queue' = Without(First(t))
      /\ UNCHANGED <<dialogue, j, spoken, child, done, said, heard>>
  BY <1>0, <1>t, LineFacts DEF GetIPCStatus, plan, childVars
<1>2. FatherListens(j)
  BY <1>0, <1>1, <1>t, SaidIsAwaited
<1>3. msLastRead = None
  BY <1>1 DEF QueueInv, Ahead
<1>4. \A u \in Types : Due(u) = Len(heard[u]) /\ Due(u) \in Nat
  <2>1. \A u \in Types : Len(heard[u]) \in Nat
    BY <1>0, LineTypes
  <2>2. \A u \in Types : Due(u) = Len(heard[u]) + 0
    BY <1>3 DEF Due
  <2>. QED BY <2>1, <2>2
<1>5. /\ queue[First(t)].mtext = <<t, Len(heard[t]) + 1>> /\ queue[First(t)].mtype = t
      /\ Len(heard[t]) + 1 <= Len(said[t]) /\ queue[First(t)] \in Message
  <2>1. QueuedAs(t)
    BY <1>1, <1>3 DEF QueueInv, Queued
  <2>. QED BY <1>0, <1>1, <1>3, <1>4, <2>1, TakenText, TakenTypes
<1>6. msLastRead' # None
  BY <1>1, <1>5 DEF None, Message
<1>7. /\ Due(t)' = Due(t) + 1 /\ \A u \in Types \ {t} : Due(u)' = Due(u)
  <2>1. Due(t)' = Len(heard[t]) + 1
    <3>1. heard' = heard /\ msLastRead' # None /\ msLastRead'.mtype = t
      BY <1>1, <1>5, <1>6
    <3>. QED BY <3>1 DEF Due
  <2>2. \A u \in Types \ {t} : Due(u)' = Len(heard[u]) + 0
    BY <1>1, <1>5 DEF Due
  <2>. QED BY <1>3, <1>4, <2>1, <2>2
<1>8. ASSUME NEW u \in Types PROVE NumberedAs(u)' /\ QueuedAs(u)'
  <2>1. NumberedAs(u) /\ QueuedAs(u) /\ QueuedAs(t)
    BY <1>1, <1>3, <1>8 DEF QueueInv, Numbered, Queued
  <2>2. QueuedAs(u)'
    <3>1. said'[u] = said[u] /\ Due(u)' = IF u = t THEN Due(u) + 1 ELSE Due(u)
      <4>1. CASE u = t
        BY <1>1, <1>7, <4>1
      <4>2. CASE u # t
        BY <1>1, <1>7, <4>2
      <4>. QED BY <4>1, <4>2
    <3>. QED BY <1>0, <1>1, <1>3, <2>1, <3>1, TakenQueue
  <2>3. Due(u)' <= Len(said[u])
    <3>1. CASE u = t
      BY <1>3, <1>4, <1>5, <1>7, <3>1
    <3>2. CASE u # t
      BY <1>7, <2>1, <3>2 DEF NumberedAs
    <3>. QED BY <3>1, <3>2
  <2>. QED BY <1>1, <2>1, <2>2, <2>3 DEF NumberedAs
<1>9. Ahead'
  BY <1>t, <1>1, <1>2, <1>5 DEF Ahead, FatherListens, Turn
<1>10. Counted'
  BY <1>1 DEF QueueInv, Counted, CountedAs
<1>. QED BY <1>1, <1>8, <1>9, <1>10 DEF Promises, Numbered, Queued, Removed

LEMMA PromisesStep == QueueInv /\ [Next]_vars => Promises'
<1>. SUFFICES ASSUME QueueInv, [Next]_vars PROVE Promises'
  OBVIOUS
<1>1. CASE NextChild \/ SelectIPC \/ SelectTimesOut \/ ListeningEnds \/ NothingFromChild \/ Replied \/ AnswerRead
  <2>1. UNCHANGED <<queue, msLastRead, said, heard, dialogue, spoken, done>>
    BY <1>1 DEF NextChild, SelectIPC, SelectTimesOut, ListeningEnds, NothingFromChild, Replied, AnswerRead,
       plan, childVars
  <2>2. msLastRead = None
    BY <1>1 DEF NextChild, SelectIPC, SelectTimesOut, ListeningEnds, NothingFromChild, Replied, AnswerRead,
       QueueInv, Ahead
  <2>3. pc # "over" /\ pc' # "over"
    BY <1>1 DEF NextChild, SelectIPC, SelectTimesOut, ListeningEnds, NothingFromChild, Replied, AnswerRead, Advance
  <2>. QED BY <2>1, <2>2, <2>3, StillInv DEF Removed
<1>2. CASE FinalizeIPC
  <2>1. /\ msLastRead = None /\ msLastRead' = None /\ pc' = "over" /\ \A c \in Children : child[c] # "runs"
        /\ UNCHANGED <<said, heard, dialogue, spoken, child, done>>
    BY <1>2 DEF FinalizeIPC, plan, childVars, QueueInv, Ahead
  <2>2. \A t \in Types : Due(t)' = Due(t)
    BY <2>1 DEF Due
  <2>3. Numbered'
    BY <2>1, <2>2 DEF QueueInv, Numbered, NumberedAs
  <2>4. Counted'
    BY <2>1 DEF QueueInv, Counted, CountedAs
  <2>. QED BY <2>1, <2>3, <2>4 DEF Promises, Ahead, Queued, Removed
<1>3. ASSUME NEW c \in Children, ChildEnds(c) \/ ChildDies(c) PROVE Promises'
  <2>1. /\ UNCHANGED <<queue, msLastRead, said, heard, dialogue, spoken, done, pc, j>> /\ child[c] = "runs"
    BY <1>3 DEF ChildEnds, ChildDies, plan, fatherVars
  <2>2. pc # "over"
    BY <2>1 DEF QueueInv, Removed
  <2>. QED BY <2>1, <2>2, StillInv DEF Removed
<1>4. CASE UNCHANGED vars
  BY <1>4, StillInv DEF vars, plan, fatherVars, childVars, QueueInv, Removed
<1>. QED BY <1>1, <1>2, <1>3, <1>4, FatherWritesInv, GetIPCStatusInv, ReadKeptInv, FatherReadsInv, ChildReadsInv,
            ChildWritesInv DEF Next, Father, Child

-----------------------------------------------------------------------------
(***************************************************************************)
(* The theorems                                                            *)
(***************************************************************************)
(* The invariant holds for every number of children, room and dialogue. *)
THEOREM QueueInductive == Spec => []QueueInv
<1>1. QueueInv /\ [Next]_vars => QueueInv'
  BY TypeStep, PromisesStep DEF QueueInv, Promises
<1>. QED BY InitInv, <1>1, PTL DEF Spec

(* The queue never holds more than it has room for, and the father and the
   children stay within their dialogues. *)
THEOREM QueueTypeCorrect == Spec => []TypeOK
BY QueueInductive, PTL DEF QueueInv

\* The place of a message among those of its line is given by its number.
LEMMA RankFacts ==
  ASSUME NEW rest \in SUBSET Nat, NEW num \in [rest -> Nat], NEW low \in Nat, NEW high \in Nat, low <= high,
         \A k \in rest : num[k] \in low + 1 .. high,
         \A k, l \in rest : k < l => num[k] < num[l],
         \A n \in low + 1 .. high : \E k \in rest : num[k] = n
  PROVE  /\ Cardinality(rest) = high - low
         /\ \A k \in rest : Cardinality({o \in rest : o <= k}) = num[k] - low
<1>1. ASSUME NEW some \in SUBSET rest, NEW top \in Nat, low <= top,
             \A k \in some : num[k] \in low + 1 .. top,
             \A n \in low + 1 .. top : \E k \in some : num[k] = n
      PROVE  Cardinality(some) = top - low
  <2>. DEFINE of == [k \in some |-> num[k]]
  <2>1. of \in [some -> low + 1 .. top] /\ \A k \in some : of[k] = num[k]
    BY <1>1
  <2>. HIDE DEF of
  <2>2. \A k, l \in some : of[k] = of[l] => k = l
    <3>. SUFFICES ASSUME NEW k \in some, NEW l \in some, num[k] = num[l] PROVE k = l
      BY <2>1
    <3>1. k \in Nat /\ l \in Nat /\ num[k] \in Nat /\ ~ (k < l) /\ ~ (l < k)
      OBVIOUS
    <3>. QED BY <3>1
  <2>3. \A n \in low + 1 .. top : \E k \in some : of[k] = n
    BY <1>1, <2>1
  <2>4. of \in Bijection(some, low + 1 .. top)
    BY <2>1, <2>2, <2>3, Fun_IsBij
  <2>5. of \in Injection(some, low + 1 .. top) /\ ExistsBijection(some, low + 1 .. top)
    BY <2>4, Fun_BijectionProperties DEF ExistsBijection
  <2>6. IsFiniteSet(low + 1 .. top) /\ Cardinality(low + 1 .. top) = top - low
    <3>1. low + 1 \in Int /\ top \in Int
      OBVIOUS
    <3>2. /\ IsFiniteSet(low + 1 .. top)
          /\ Cardinality(low + 1 .. top) = IF low + 1 > top THEN 0 ELSE top - (low + 1) + 1
      BY <3>1, FS_Interval
    <3>. QED BY <1>1, <3>2
  <2>7. IsFiniteSet(some)
    BY <2>5, <2>6, FS_Injection
  <2>. QED BY <2>5, <2>6, <2>7, FS_Bijection
<1>2. Cardinality(rest) = high - low
  BY <1>1
<1>3. ASSUME NEW k \in rest PROVE Cardinality({o \in rest : o <= k}) = num[k] - low
  <2>. DEFINE some == {o \in rest : o <= k}
  <2>1. some \in SUBSET rest /\ num[k] \in Nat /\ low <= num[k]
    OBVIOUS
  <2>2. ASSUME NEW o \in some PROVE num[o] \in low + 1 .. num[k]
    <3>1. o = k \/ o < k
      BY <2>2
    <3>. QED BY <2>1, <2>2, <3>1
  <2>3. ASSUME NEW n \in low + 1 .. num[k] PROVE \E o \in some : num[o] = n
    <3>1. PICK o \in rest : num[o] = n
      OBVIOUS
    <3>2. ~ (k < o)
      BY <2>3, <3>1
    <3>. QED BY <3>1, <3>2
  <2>. HIDE DEF some
  <2>4. Cardinality(some) = num[k] - low
    BY <1>1, <2>1, <2>2, <2>3
  <2>. QED BY <2>4 DEF some
<1>. QED BY <1>2, <1>3

\* What is kept and what is queued, as one sequence.
AheadOf == (IF msLastRead = None THEN <<>> ELSE <<msLastRead>>) \o queue
RestOf(t) == {k \in DOMAIN AheadOf : AheadOf[k].mtype = t}

LEMMA AheadFacts ==
  ASSUME QueueInv, pc # "over", NEW t \in Types
  PROVE  /\ RestOf(t) \in SUBSET Nat
         /\ \A k \in RestOf(t) : /\ AheadOf[k].mtext = <<t, AheadOf[k].mtext[2]>>
                                 /\ AheadOf[k].mtext[2] \in Len(heard[t]) + 1 .. Len(said[t])
         /\ \A k, l \in RestOf(t) : k < l => AheadOf[k].mtext[2] < AheadOf[l].mtext[2]
         /\ \A n \in Len(heard[t]) + 1 .. Len(said[t]) : \E k \in RestOf(t) : AheadOf[k].mtext[2] = n
<1>1. /\ TypeOK /\ QueuedAs(t) /\ NumberedAs(t) /\ queue \in Seq(Message)
      /\ Len(queue) \in Nat /\ Len(heard[t]) \in Nat /\ Len(said[t]) \in Nat
  BY QueueTypes, LineTypes DEF QueueInv, Queued, Numbered
<1>2. OfType(t) \subseteq 1 .. Len(queue) /\ \A k \in OfType(t) : queue[k].mtext = <<t, queue[k].mtext[2]>>
  BY <1>1, QueueTypes DEF OfType, Message, QueuedAs
<1>3. CASE msLastRead = None
  <2>1. AheadOf = queue
    BY <1>1, <1>3, ConcatEmptySeq DEF AheadOf
  <2>2. RestOf(t) = OfType(t)
    BY <2>1 DEF RestOf, OfType
  <2>3. Due(t) = Len(heard[t])
    <3>1. Due(t) = Len(heard[t]) + 0
      BY <1>3 DEF Due
    <3>. QED BY <1>1, <3>1
  <2>. QED BY <1>1, <1>2, <2>1, <2>2, <2>3 DEF QueuedAs
<1>4. CASE msLastRead # None
  <2>1. msLastRead \in Message
    BY <1>1, <1>4 DEF TypeOK, Message
  <2>2. /\ AheadOf \in Seq(Message) /\ Len(AheadOf) = Len(queue) + 1 /\ AheadOf[1] = msLastRead
        /\ \A k \in 1 .. Len(queue) : AheadOf[k + 1] = queue[k]
    <3>1. <<msLastRead>> \in Seq(Message) /\ Len(<<msLastRead>>) = 1 /\ <<msLastRead>>[1] = msLastRead
      BY <2>1
    <3>2. AheadOf = <<msLastRead>> \o queue
      BY <1>4 DEF AheadOf
    <3>3. /\ AheadOf \in Seq(Message) /\ Len(AheadOf) = 1 + Len(queue)
          /\ \A i \in 1 .. 1 + Len(queue) : AheadOf[i] = IF i <= 1 THEN <<msLastRead>>[i] ELSE queue[i - 1]
      BY <1>1, <3>1, <3>2, ConcatProperties
    <3>4. ASSUME NEW k \in 1 .. Len(queue) PROVE AheadOf[k + 1] = queue[k]
      <4>1. k + 1 \in 1 .. 1 + Len(queue) /\ ~ (k + 1 <= 1) /\ (k + 1) - 1 = k
        BY <1>1
      <4>. QED BY <3>3, <4>1
    <3>. QED BY <1>1, <3>1, <3>3, <3>4
  <2>3. DOMAIN AheadOf = 1 .. Len(queue) + 1
    BY <2>2, LenProperties
  <2>4. /\ \A k \in OfType(t) : k + 1 \in RestOf(t) /\ AheadOf[k + 1] = queue[k]
        /\ \A k \in RestOf(t) : k = 1 \/ (k > 1 /\ k - 1 \in OfType(t) /\ AheadOf[k] = queue[k - 1])
        /\ 1 \in RestOf(t) <=> msLastRead.mtype = t
        /\ RestOf(t) \subseteq 1 .. Len(queue) + 1
    <3>1. \A k \in OfType(t) : k + 1 \in 1 .. Len(queue) + 1
      BY <1>1, <1>2
    <3>2. ASSUME NEW k \in 1 .. Len(queue) + 1, k # 1 PROVE k > 1 /\ k - 1 \in 1 .. Len(queue) /\ AheadOf[k] = queue[k - 1]
      <4>1. k > 1 /\ k - 1 \in 1 .. Len(queue) /\ (k - 1) + 1 = k
        BY <1>1, <3>2
      <4>2. AheadOf[(k - 1) + 1] = queue[k - 1]
        BY <2>2, <4>1
      <4>. QED BY <4>1, <4>2
    <3>3. DOMAIN queue = 1 .. Len(queue) /\ 1 \in 1 .. Len(queue) + 1
      BY <1>1, QueueTypes
    <3>. QED BY <2>2, <2>3, <3>1, <3>2, <3>3 DEF RestOf, OfType
  <2>5. CASE msLastRead.mtype = t
    <3>1. Due(t) = Len(heard[t]) + 1
      BY <1>4, <2>5 DEF Due
    <3>2. AheadOf[1].mtext = <<t, Len(heard[t]) + 1>>
      BY <1>4, <2>2, <2>5 DEF QueueInv, Ahead
    <3>3. Due(t) <= Len(said[t])
      BY <1>1 DEF NumberedAs
    <3>4. ASSUME NEW k \in RestOf(t)
          PROVE  /\ AheadOf[k].mtext = <<t, AheadOf[k].mtext[2]>>
                 /\ AheadOf[k].mtext[2] \in Len(heard[t]) + 1 .. Len(said[t])
                 /\ k # 1 => AheadOf[k].mtext[2] > Len(heard[t]) + 1
      <4>1. CASE k = 1
        BY <1>1, <3>1, <3>2, <3>3, <4>1
      <4>2. CASE k # 1
        <5>1. k - 1 \in OfType(t) /\ AheadOf[k] = queue[k - 1]
          BY <2>4, <3>4, <4>2
        <5>2. queue[k - 1].mtext[2] \in Due(t) + 1 .. Len(said[t])
          BY <1>1, <5>1 DEF QueuedAs
        <5>. QED BY <1>1, <1>2, <3>1, <5>1, <5>2
      <4>. QED BY <4>1, <4>2
    <3>5. ASSUME NEW k \in RestOf(t), NEW l \in RestOf(t), k < l
          PROVE  AheadOf[k].mtext[2] < AheadOf[l].mtext[2]
      <4>1. l # 1 /\ k \in 1 .. Len(queue) + 1 /\ l \in 1 .. Len(queue) + 1
        BY <1>1, <2>4, <3>5
      <4>2. CASE k = 1
        BY <3>2, <3>4, <4>1, <4>2
      <4>3. CASE k # 1
        <5>1. /\ k - 1 \in OfType(t) /\ AheadOf[k] = queue[k - 1]
              /\ l - 1 \in OfType(t) /\ AheadOf[l] = queue[l - 1]
          BY <2>4, <4>1, <4>3
        <5>2. k - 1 < l - 1
          BY <1>1, <3>5, <4>1
        <5>. QED BY <1>1, <5>1, <5>2 DEF QueuedAs
      <4>. QED BY <4>2, <4>3
    <3>6. ASSUME NEW n \in Len(heard[t]) + 1 .. Len(said[t])
          PROVE  \E k \in RestOf(t) : AheadOf[k].mtext[2] = n
      <4>1. CASE n = Len(heard[t]) + 1
        BY <2>4, <2>5, <3>2, <4>1
      <4>2. CASE n # Len(heard[t]) + 1
        <5>1. n \in Due(t) + 1 .. Len(said[t])
          BY <1>1, <3>1, <4>2
        <5>2. PICK k \in OfType(t) : queue[k].mtext[2] = n
          BY <1>1, <5>1 DEF QueuedAs
        <5>. QED BY <2>4, <5>2
      <4>. QED BY <4>1, <4>2
    <3>7. RestOf(t) \in SUBSET Nat
      BY <1>1, <2>4
    <3>. QED BY <3>4, <3>5, <3>6, <3>7
  <2>6. CASE msLastRead.mtype # t
    <3>1. Due(t) = Len(heard[t])
      <4>1. Due(t) = Len(heard[t]) + 0
        BY <2>6 DEF Due
      <4>. QED BY <1>1, <4>1
    <3>2. \A k \in RestOf(t) : k - 1 \in OfType(t) /\ AheadOf[k] = queue[k - 1]
      BY <2>4, <2>6
    <3>3. \A k, l \in RestOf(t) : k < l => k - 1 < l - 1
      BY <1>1, <2>4
    <3>4. RestOf(t) \in SUBSET Nat
      BY <1>1, <2>4
    <3>5. ASSUME NEW k \in RestOf(t)
          PROVE  /\ AheadOf[k].mtext = <<t, AheadOf[k].mtext[2]>>
                 /\ AheadOf[k].mtext[2] \in Len(heard[t]) + 1 .. Len(said[t])
      <4>1. queue[k - 1].mtext[2] \in Due(t) + 1 .. Len(said[t])
        BY <1>1, <3>2, <3>5 DEF QueuedAs
      <4>. QED BY <1>2, <3>1, <3>2, <3>5, <4>1
    <3>6. ASSUME NEW k \in RestOf(t), NEW l \in RestOf(t), k < l
          PROVE  AheadOf[k].mtext[2] < AheadOf[l].mtext[2]
      <4>1. k - 1 < l - 1 /\ k - 1 \in OfType(t) /\ l - 1 \in OfType(t)
        BY <3>2, <3>3, <3>6
      <4>2. queue[k - 1].mtext[2] < queue[l - 1].mtext[2]
        BY <1>1, <4>1 DEF QueuedAs
      <4>. QED BY <3>2, <3>6, <4>2
    <3>7. ASSUME NEW n \in Len(heard[t]) + 1 .. Len(said[t])
          PROVE  \E k \in RestOf(t) : AheadOf[k].mtext[2] = n
      <4>1. PICK k \in OfType(t) : queue[k].mtext[2] = n
        BY <1>1, <3>1, <3>7 DEF QueuedAs
      <4>. QED BY <2>4, <4>1
    <3>. QED BY <3>4, <3>5, <3>6, <3>7
  <2>. QED BY <2>5, <2>6
<1>. QED BY <1>3, <1>4

(* The look ahead of getIPCStatus, which takes a message out of a queue that
   all share and keeps it for the readIPC that follows, loses and moves none. *)
THEOREM LookAheadLosesNothing == Spec => []NothingIsLost
<1>1. QueueInv => NothingIsLost
  <2>. SUFFICES ASSUME QueueInv, pc # "over", NEW t \in Types
       PROVE  /\ heard[t] = SubSeq(said[t], 1, Len(heard[t]))
              /\ Len(said[t]) = Len(heard[t]) + Cardinality(RestOf(t))
              /\ \A k \in RestOf(t) :
                   AheadOf[k].mtext = said[t][Len(heard[t]) + Cardinality({o \in RestOf(t) : o <= k})]
    BY DEF NothingIsLost, AheadOf, RestOf
  <2>1. /\ TypeOK /\ NumberedAs(t) /\ Len(said[t]) \in Nat /\ Len(heard[t]) \in Nat
        /\ Len(heard[t]) <= Len(said[t])
    <3>1. /\ TypeOK /\ NumberedAs(t) /\ Len(said[t]) \in Nat /\ Len(heard[t]) \in Nat
          /\ Due(t) \in Nat /\ Len(heard[t]) <= Due(t) /\ Due(t) <= Len(said[t])
      BY LineTypes DEF QueueInv, Numbered, NumberedAs
    <3>. QED BY <3>1
  <2>2. heard[t] = SubSeq(said[t], 1, Len(heard[t]))
    <3>. DEFINE begun == SubSeq(said[t], 1, Len(heard[t]))
    <3>1. heard[t] \in Seq(Nat \X Nat) /\ \A n \in 1 .. Len(said[t]) : said[t][n] \in Nat \X Nat
      BY <2>1, LineTypes DEF NumberedAs, Types
    <3>2. said[t] \in Seq(Types \X Nat)
      BY <2>1, LineTypes
    <3>3. \A n \in 1 .. Len(heard[t]) : n \in 1 .. Len(said[t])
      BY <2>1
    <3>4. /\ begun \in Seq(Nat \X Nat) /\ Len(begun) = Len(heard[t])
          /\ \A n \in 1 .. Len(heard[t]) : begun[n] = said[t][1 + n - 1]
      BY <2>1, <3>1, <3>2, <3>3, SubSeqProperties
    <3>5. \A n \in 1 .. Len(heard[t]) : begun[n] = heard[t][n]
      <4>1. \A n \in 1 .. Len(heard[t]) : 1 + n - 1 = n
        BY <2>1
      <4>. QED BY <2>1, <3>3, <3>4, <4>1 DEF NumberedAs
    <3>. HIDE DEF begun
    <3>6. heard[t] = begun
      BY <3>1, <3>4, <3>5, SeqEqual
    <3>. QED BY <3>6 DEF begun
  <2>3. PICK num : num = [k \in RestOf(t) |-> AheadOf[k].mtext[2]]
    OBVIOUS
  <2>4. /\ RestOf(t) \in SUBSET Nat /\ num \in [RestOf(t) -> Nat]
        /\ \A k \in RestOf(t) : num[k] \in Len(heard[t]) + 1 .. Len(said[t]) /\ AheadOf[k].mtext = <<t, num[k]>>
        /\ \A k, l \in RestOf(t) : k < l => num[k] < num[l]
        /\ \A n \in Len(heard[t]) + 1 .. Len(said[t]) : \E k \in RestOf(t) : num[k] = n
    <3>1. \A k \in RestOf(t) : num[k] = AheadOf[k].mtext[2]
      BY <2>3
    <3>2. \A k \in RestOf(t) : num[k] \in Len(heard[t]) + 1 .. Len(said[t])
      BY <3>1, AheadFacts
    <3>3. num \in [RestOf(t) -> Nat]
      BY <2>1, <2>3, <3>1, <3>2
    <3>4. \A k \in RestOf(t) : AheadOf[k].mtext = <<t, num[k]>>
      BY <3>1, AheadFacts
    <3>5. \A k, l \in RestOf(t) : k < l => num[k] < num[l]
      BY <3>1, AheadFacts
    <3>6. \A n \in Len(heard[t]) + 1 .. Len(said[t]) : \E k \in RestOf(t) : num[k] = n
      <4>1. \A n \in Len(heard[t]) + 1 .. Len(said[t]) : \E k \in RestOf(t) : AheadOf[k].mtext[2] = n
        BY AheadFacts
      <4>. QED BY <3>1, <4>1
    <3>7. RestOf(t) \in SUBSET Nat
      BY AheadFacts
    <3>. QED BY <3>2, <3>3, <3>4, <3>5, <3>6, <3>7
  <2>5. /\ Cardinality(RestOf(t)) = Len(said[t]) - Len(heard[t])
        /\ \A k \in RestOf(t) : Cardinality({o \in RestOf(t) : o <= k}) = num[k] - Len(heard[t])
    BY <2>1, <2>4, RankFacts
  <2>6. ASSUME NEW k \in RestOf(t)
        PROVE  AheadOf[k].mtext = said[t][Len(heard[t]) + Cardinality({o \in RestOf(t) : o <= k})]
    <3>1. Len(heard[t]) + Cardinality({o \in RestOf(t) : o <= k}) = num[k] /\ num[k] \in 1 .. Len(said[t])
      BY <2>1, <2>4, <2>5, <2>6
    <3>. QED BY <2>1, <2>4, <3>1 DEF NumberedAs
  <2>7. Len(said[t]) = Len(heard[t]) + Cardinality(RestOf(t))
    BY <2>1, <2>5
  <2>. QED BY <2>2, <2>6, <2>7
<1>. QED BY <1>1, QueueInductive, PTL

(* Although all share one queue, each line of it is a channel: what is read is
   what was written, once and in order. *)
THEOREM MessagesAreGivenOnce == Spec => ChannelSpec
<1>1. Init => TheChannel!Init
  BY DEF Init, TheChannel!Init
<1>2. ASSUME QueueInv, NEW t \in Types, Msgsnd(t, t), UNCHANGED heard PROVE TheChannel!Next
  <2>1. /\ Len(said'[t]) = Len(said[t]) + 1 /\ \A n \in 1 .. Len(said'[t]) : said'[t][n] = <<t, n>>
        /\ said' = [said EXCEPT ![t] = Append(said[t], <<t, Len(said[t]) + 1>>)]
    BY <1>2, SentSaid DEF QueueInv, Numbered
  <2>2. Len(said[t]) \in Nat
    BY <1>2, LineTypes DEF QueueInv
  <2>3. said'[t][Len(said'[t])] = <<t, Len(said[t]) + 1>> /\ <<t, Len(said[t]) + 1>> \in Types \X Nat
    <3>1. Len(said[t]) + 1 \in 1 .. Len(said[t]) + 1 /\ Len(said[t]) + 1 \in Nat
      BY <2>2
    <3>. QED BY <2>1, <3>1
  <2>4. said'[t] # <<>>
    <3>1. Len(said'[t]) # 0
      BY <2>1, <2>2
    <3>. QED BY <3>1, EmptySeq
  <2>5. TheChannel!Say(t)
    BY <1>2, <2>1, <2>3, <2>4 DEF TheChannel!Say
  <2>. QED BY <2>5 DEF TheChannel!Next
<1>3. ASSUME QueueInv, NEW t \in Types, Hear(t, <<t, Len(heard[t]) + 1>>), Len(heard[t]) + 1 <= Len(said[t]),
             UNCHANGED said
      PROVE  TheChannel!Next
  <2>1. Len(heard[t]) \in Nat /\ Len(said[t]) \in Nat
    BY <1>3, LineTypes DEF QueueInv
  <2>2. Len(heard[t]) + 1 \in 1 .. Len(said[t]) /\ Len(heard[t]) < Len(said[t])
    BY <1>3, <2>1
  <2>3. said[t][Len(heard[t]) + 1] = <<t, Len(heard[t]) + 1>>
    BY <1>3, <2>2 DEF QueueInv, Numbered, NumberedAs
  <2>4. TheChannel!Hear(t)
    BY <1>3, <2>2, <2>3 DEF Hear, TheChannel!Hear
  <2>. QED BY <2>4 DEF TheChannel!Next
<1>4. ASSUME QueueInv, NEW t \in Types, pc # "over", OfType(t) # {}, msLastRead = None \/ msLastRead.mtype # t
      PROVE  queue[First(t)].mtext = <<t, Len(heard[t]) + 1>> /\ Len(heard[t]) + 1 <= Len(said[t])
  <2>1. Len(heard[t]) \in Nat /\ Due(t) = Len(heard[t]) + 0
    BY <1>4, LineTypes DEF QueueInv, Due
  <2>2. Due(t) = Len(heard[t])
    BY <2>1
  <2>. QED BY <1>4, <2>2, TakenText DEF QueueInv, Queued
<1>5. QueueInv /\ [Next]_vars => [TheChannel!Next]_TheChannel!cvars
  <2>. SUFFICES ASSUME QueueInv, [Next]_vars PROVE [TheChannel!Next]_TheChannel!cvars
    OBVIOUS
  <2>0. j \in Children /\ 2 * j - 1 \in Types /\ 2 * j \in Types
    BY LineFacts DEF QueueInv, TypeOK
  <2>1. CASE FatherWrites
    BY <1>2, <2>0, <2>1, LineFacts DEF FatherWrites
  <2>2. ASSUME NEW c \in Children, ChildWrites(c) PROVE TheChannel!Next
    BY <1>2, <2>2, LineFacts DEF ChildWrites
  <2>3. CASE FatherReads
    <3>1. /\ OfType(2 * j - 1) # {} /\ msLastRead = None /\ pc # "over" /\ said' = said
          /\ Hear(2 * j - 1, queue[First(2 * j - 1)].mtext)
      BY <2>0, <2>3, LineFacts DEF FatherReads
    <3>. QED BY <1>3, <1>4, <2>0, <3>1
  <2>4. CASE ReadKept
    <3>1. /\ msLastRead # None /\ msLastRead.mtype = 2 * j - 1 /\ said' = said
          /\ Hear(2 * j - 1, <<2 * j - 1, Len(heard[2 * j - 1]) + 1>>)
      BY <2>0, <2>4, LineFacts DEF ReadKept, QueueInv, Ahead
    <3>2. Len(heard[2 * j - 1]) + 1 <= Len(said[2 * j - 1])
      BY <2>0, <3>1 DEF QueueInv, Numbered, NumberedAs, Due
    <3>. QED BY <1>3, <2>0, <3>1, <3>2
  <2>5. ASSUME NEW c \in Children, ChildReads(c) PROVE TheChannel!Next
    <3>1. /\ OfType(2 * c) # {} /\ pc # "over" /\ said' = said /\ Hear(2 * c, queue[First(2 * c)].mtext)
          /\ 2 * c \in Types
      BY <2>5, LineFacts DEF ChildReads, QueueInv, Removed
    <3>2. msLastRead = None \/ msLastRead.mtype # 2 * c
      <4>1. 2 * j - 1 # 2 * c
        BY <2>0, <2>5, NAssumption DEF Children
      <4>. QED BY <4>1 DEF QueueInv, Ahead
    <3>. QED BY <1>3, <1>4, <3>1, <3>2
  <2>6. CASE UNCHANGED <<said, heard>>
    BY <2>6 DEF TheChannel!cvars
  <2>. QED BY <2>1, <2>2, <2>3, <2>4, <2>5, <2>6
    DEF Next, Father, Child, NextChild, SelectIPC, SelectTimesOut, ListeningEnds, GetIPCStatus, NothingFromChild,
        AnswerRead, Replied, FinalizeIPC, ChildEnds, ChildDies, vars
<1>. QED BY <1>1, <1>5, QueueInductive, PTL DEF Spec, ChannelSpec, TheChannel!Spec

-----------------------------------------------------------------------------
(***************************************************************************)
(* Nobody waits for ever.                                                  *)
(***************************************************************************)
(* The father owes a message only to the child it is at: when it has left a
   child, the child is to speak or their dialogue is over.  While nothing fails
   it stops listening when all dialogues are over, and no child is dead. *)
Settled ==
  /\ pc = "send" => \A c \in Children : c < j => ~ FatherSpeaks(c)
  /\ pc \in {"select", "poll", "wait"} => \A c \in Children : ~ FatherSpeaks(c)
  /\ pc \in {"read", "reply"} => \A c \in Children : c # j => ~ FatherSpeaks(c)
  /\ pc = "wait" /\ faults = 0 => \A c \in Children : Finished(c)
  /\ \A c \in Children : child[c] = "ended" => done[c] > Len(dialogue[c])
  /\ faults = 0 => \A c \in Children : child[c] # "dead"

LEMMA SettledFirst == Init => Settled
BY DEF Init, Settled, Children

LEMMA SettledStays == QueueInv /\ Settled /\ [Next]_vars => Settled'
<1>. SUFFICES ASSUME QueueInv, Settled, [Next]_vars PROVE Settled'
  OBVIOUS
<1>0. /\ TypeOK /\ j \in Children /\ N \in Nat \ {0} /\ faults \in Nat
      /\ spoken \in [Children -> Nat] /\ done \in [Children -> Nat]
      /\ child \in [Children -> {"runs", "ended", "dead"}]
  BY NAssumption DEF QueueInv, TypeOK, Places
<1>1. CASE FatherWrites
  <2>1. /\ pc \in {"send", "reply"} /\ spoken' = [spoken EXCEPT ![j] = @ + 1]
        /\ UNCHANGED <<dialogue, pc, j, child, done, faults>>
    BY <1>1 DEF FatherWrites, plan, childVars
  <2>2. \A c \in Children : c # j => FatherSpeaks(c)' = FatherSpeaks(c)
    BY <1>0, <2>1 DEF FatherSpeaks, Turn
  <2>3. \A c \in Children : c < j => c # j
    BY <1>0 DEF Children
  <2>. QED BY <2>1, <2>2, <2>3 DEF Settled
<1>2. CASE NextChild
  <2>1. /\ pc = "send" /\ ~ FatherSpeaks(j)
        /\ IF j < N THEN j' = j + 1 /\ pc' = pc ELSE j' = 1 /\ pc' = "select"
        /\ UNCHANGED <<dialogue, spoken, child, done, faults>>
    BY <1>2 DEF NextChild, plan, childVars
  <2>2. \A c \in Children : FatherSpeaks(c)' = FatherSpeaks(c)
    BY <2>1 DEF FatherSpeaks, Turn
  <2>3. \A c \in Children : c <= j => ~ FatherSpeaks(c)
    BY <1>0, <2>1 DEF Settled, Children
  <2>4. CASE j < N
    <3>1. pc' = "send" /\ j' = j + 1
      BY <2>1, <2>4
    <3>2. \A c \in Children : c < j' => c <= j
      BY <1>0, <3>1 DEF Children
    <3>. QED BY <2>1, <2>2, <2>3, <3>1, <3>2 DEF Settled
  <2>5. CASE ~ (j < N)
    <3>1. pc' = "select"
      BY <2>1, <2>5
    <3>2. \A c \in Children : c <= j
      BY <1>0, <2>5 DEF Children
    <3>. QED BY <2>1, <2>2, <2>3, <3>1, <3>2 DEF Settled
  <2>. QED BY <2>4, <2>5
<1>3. CASE SelectIPC \/ SelectTimesOut \/ ListeningEnds \/ GetIPCStatus
  <2>1. /\ pc \in {"select", "poll"} /\ pc' \in {"poll", "wait", "read"}
        /\ pc' = "wait" => faults' = faults + 1 \/ (faults' = faults /\ \A c \in Children : Finished(c))
        /\ faults' \in {faults, faults + 1}
        /\ UNCHANGED <<dialogue, spoken, child, done>>
    BY <1>3 DEF SelectIPC, SelectTimesOut, ListeningEnds, GetIPCStatus, plan, childVars
  <2>2. \A c \in Children : FatherSpeaks(c)' = FatherSpeaks(c) /\ Finished(c)' = Finished(c)
    BY <2>1 DEF FatherSpeaks, Finished, Turn
  <2>3. faults' = 0 => faults = 0 /\ faults' # faults + 1
    BY <1>0, <2>1
  <2>. QED BY <2>1, <2>2, <2>3 DEF Settled
<1>4. CASE NothingFromChild \/ AnswerRead \/ Replied
  <2>1. /\ pc \in {"poll", "read", "reply"} /\ UNCHANGED <<dialogue, spoken, child, done, faults>>
        /\ \/ pc' \in {"poll", "select"} /\ (pc = "poll" \/ ~ FatherSpeaks(j))
           \/ pc = "read" /\ pc' = "reply" /\ j' = j
    BY <1>4 DEF NothingFromChild, AnswerRead, Replied, Advance, plan, childVars
  <2>2. \A c \in Children : FatherSpeaks(c)' = FatherSpeaks(c)
    BY <2>1 DEF FatherSpeaks, Turn
  <2>. QED BY <2>1, <2>2 DEF Settled
<1>5. CASE ReadKept \/ FatherReads
  <2>1. /\ pc = "read" /\ spoken' = [spoken EXCEPT ![j] = @ + 1]
        /\ UNCHANGED <<dialogue, pc, j, child, done, faults>>
    BY <1>5 DEF ReadKept, FatherReads, plan, childVars
  <2>2. \A c \in Children : c # j => FatherSpeaks(c)' = FatherSpeaks(c)
    BY <1>0, <2>1 DEF FatherSpeaks, Turn
  <2>. QED BY <2>1, <2>2 DEF Settled
<1>6. CASE FinalizeIPC
  <2>1. pc' = "over" /\ UNCHANGED <<dialogue, child, done, faults>>
    BY <1>6 DEF FinalizeIPC, plan, childVars
  <2>. QED BY <2>1 DEF Settled
<1>7. ASSUME NEW c \in Children, ChildReads(c) \/ ChildWrites(c) PROVE Settled'
  <2>1. /\ child[c] = "runs" /\ done' = [done EXCEPT ![c] = @ + 1]
        /\ UNCHANGED <<dialogue, pc, j, spoken, child, faults>>
    BY <1>7 DEF ChildReads, ChildWrites, plan, fatherVars
  <2>2. \A d \in Children : FatherSpeaks(d)' = FatherSpeaks(d) /\ Finished(d)' = Finished(d)
    BY <2>1 DEF FatherSpeaks, Finished, Turn
  <2>3. \A d \in Children : child'[d] = "ended" => done'[d] = done[d]
    BY <1>0, <2>1
  <2>. QED BY <2>1, <2>2, <2>3 DEF Settled
<1>8. ASSUME NEW c \in Children, ChildEnds(c) \/ ChildDies(c) PROVE Settled'
  <2>1. /\ \/ child' = [child EXCEPT ![c] = "ended"] /\ done[c] > Len(dialogue[c]) /\ faults' = faults
           \/ child' = [child EXCEPT ![c] = "dead"] /\ faults' = faults + 1
        /\ UNCHANGED <<dialogue, pc, j, spoken, done>>
    BY <1>8 DEF ChildEnds, ChildDies, plan, fatherVars
  <2>2. \A d \in Children : FatherSpeaks(d)' = FatherSpeaks(d) /\ Finished(d)' = Finished(d)
    BY <2>1 DEF FatherSpeaks, Finished, Turn
  <2>3. faults' = 0 => faults = 0 /\ faults' # faults + 1
    BY <1>0, <2>1
  <2>4. \A d \in Children : child'[d] = "ended" => done[d] > Len(dialogue[d])
    BY <1>0, <2>1 DEF Settled
  <2>5. faults' = 0 => \A d \in Children : child'[d] # "dead"
    BY <1>0, <2>1, <2>3 DEF Settled
  <2>. QED BY <2>1, <2>2, <2>3, <2>4, <2>5 DEF Settled
<1>9. CASE UNCHANGED vars
  BY <1>9 DEF vars, plan, fatherVars, childVars, Settled, FatherSpeaks, Finished, Turn
<1>. QED BY <1>1, <1>2, <1>3, <1>4, <1>5, <1>6, <1>7, <1>8, <1>9 DEF Next, Father, Child

\* What both ends of a dialogue have counted.
LEMMA EndsFacts ==
  ASSUME QueueInv, pc # "over", NEW c \in Children
  PROVE  /\ spoken[c] \in 1 .. Len(dialogue[c]) + 1 /\ done[c] \in 1 .. Len(dialogue[c]) + 1
         /\ Len(dialogue[c]) \in Nat /\ 2 * c - 1 \in Types /\ 2 * c \in Types
         /\ \A k \in 1 .. Len(dialogue[c]) : dialogue[c][k] \in {"f", "c"}
         /\ Count(dialogue[c], "c", spoken[c]) <= Count(dialogue[c], "c", done[c])
         /\ Count(dialogue[c], "f", done[c]) <= Count(dialogue[c], "f", spoken[c])
         /\ \A who, n, m : /\ n \in Nat \ {0} /\ m \in Nat /\ m > n /\ dialogue[c][n] = who
                           => Count(dialogue[c], who, n) < Count(dialogue[c], who, m)
         /\ \A who, n, m : n \in Nat \ {0} /\ m \in Nat /\ m >= n
                           => Count(dialogue[c], who, n) <= Count(dialogue[c], who, m)
         /\ \A who, n : n \in Nat \ {0} => Count(dialogue[c], who, n) \in Nat
<1>1. /\ TypeOK /\ CountedAs(c) /\ 2 * c - 1 \in Types /\ 2 * c \in Types
      /\ NumberedAs(2 * c - 1) /\ NumberedAs(2 * c)
  BY LineFacts DEF QueueInv, Counted, Numbered
<1>2. /\ spoken[c] \in 1 .. Len(dialogue[c]) + 1 /\ done[c] \in 1 .. Len(dialogue[c]) + 1
      /\ Len(dialogue[c]) \in Nat /\ \A k \in 1 .. Len(dialogue[c]) : dialogue[c][k] \in {"f", "c"}
  BY <1>1, DialogueFacts DEF TypeOK
<1>3. \A t \in {2 * c - 1, 2 * c} : Len(heard[t]) <= Len(said[t])
  <2>1. \A t \in {2 * c - 1, 2 * c} : /\ Len(heard[t]) \in Nat /\ Len(said[t]) \in Nat /\ Due(t) \in Nat
                                      /\ Len(heard[t]) <= Due(t) /\ Due(t) <= Len(said[t])
    BY <1>1, LineTypes DEF NumberedAs
  <2>. QED BY <2>1
<1>4. ASSUME NEW who, NEW n \in Nat \ {0}, NEW m \in Nat, m >= n
      PROVE  Count(dialogue[c], who, n) <= Count(dialogue[c], who, m)
  <2>1. m \in Nat \ {0} /\ n \in 1 .. m
    BY <1>4
  <2>. QED BY <2>1, CountFacts
<1>5. ASSUME NEW who, NEW n \in Nat \ {0}, NEW m \in Nat, m > n, dialogue[c][n] = who
      PROVE  Count(dialogue[c], who, n) < Count(dialogue[c], who, m)
  <2>1. Count(dialogue[c], who, n + 1) = Count(dialogue[c], who, n) + 1 /\ Count(dialogue[c], who, n) \in Nat
    BY <1>5, CountFacts
  <2>2. m \in Nat \ {0} /\ m >= n + 1 /\ n + 1 \in Nat \ {0}
    BY <1>5
  <2>3. Count(dialogue[c], who, n + 1) <= Count(dialogue[c], who, m) /\ Count(dialogue[c], who, m) \in Nat
    BY <1>4, <2>2, CountFacts
  <2>. QED BY <2>1, <2>3
<1>6. \A who, n : n \in Nat \ {0} => Count(dialogue[c], who, n) \in Nat
  BY CountFacts
<1>. QED BY <1>1, <1>2, <1>3, <1>4, <1>5, <1>6 DEF CountedAs

\* A child never speaks before the father has come to its turn, nor the father
\* before the child has.
LEMMA TurnsAlternate ==
  ASSUME QueueInv, pc # "over", NEW c \in Children
  PROVE  /\ Turn("c", c, done[c]) => spoken[c] <= done[c]
         /\ FatherSpeaks(c) => done[c] <= spoken[c]
<1>. DEFINE s == spoken[c]
            d == done[c]
<1>0. s \in Nat \ {0} /\ d \in Nat \ {0}
  BY EndsFacts
<1>1. ASSUME Turn("c", c, d) PROVE s <= d
  <2>1. SUFFICES ASSUME s > d PROVE FALSE
    BY <1>0
  <2>2. Count(dialogue[c], "c", s) <= Count(dialogue[c], "c", d)
    BY EndsFacts
  <2>3. Count(dialogue[c], "c", d) < Count(dialogue[c], "c", s)
    <3>1. dialogue[c][d] = "c"
      BY <1>1 DEF Turn
    <3>. QED BY <1>0, <2>1, <3>1, EndsFacts
  <2>4. Count(dialogue[c], "c", s) \in Nat /\ Count(dialogue[c], "c", d) \in Nat
    BY <1>0, EndsFacts
  <2>. HIDE DEF s, d
  <2>. QED BY <2>2, <2>3, <2>4
<1>2. ASSUME FatherSpeaks(c) PROVE d <= s
  <2>1. SUFFICES ASSUME d > s PROVE FALSE
    BY <1>0
  <2>2. Count(dialogue[c], "f", d) <= Count(dialogue[c], "f", s)
    BY EndsFacts
  <2>3. Count(dialogue[c], "f", s) < Count(dialogue[c], "f", d)
    <3>1. dialogue[c][s] = "f"
      BY <1>2 DEF FatherSpeaks, Turn
    <3>. QED BY <1>0, <2>1, <3>1, EndsFacts
  <2>4. Count(dialogue[c], "f", s) \in Nat /\ Count(dialogue[c], "f", d) \in Nat
    BY <1>0, EndsFacts
  <2>. HIDE DEF s, d
  <2>. QED BY <2>2, <2>3, <2>4
<1>. QED BY <1>1, <1>2

\* A message to a child is in the queue when the father is ahead and the child is
\* to hear; the child is then ahead of nothing.
LEMMA WorkIsThere ==
  ASSUME QueueInv, pc # "over", NEW c \in Children
  PROVE  /\ Turn("f", c, done[c]) /\ done[c] < spoken[c] => OfType(2 * c) # {}
         /\ OfType(2 * c) # {} => done[c] < spoken[c] /\ Turn("f", c, done[c])
<1>1. /\ TypeOK /\ CountedAs(c) /\ 2 * c \in Types /\ QueuedAs(2 * c) /\ NumberedAs(2 * c) /\ j \in Children
  BY LineFacts DEF QueueInv, Counted, Numbered, Queued, TypeOK
<1>2. Len(heard[2 * c]) \in Nat /\ Len(said[2 * c]) \in Nat /\ Due(2 * c) = Len(heard[2 * c])
  <2>1. msLastRead = None \/ msLastRead.mtype # 2 * c
    <3>1. 2 * j - 1 # 2 * c
      <4>1. j \in Int /\ c \in Int
        BY <1>1, NAssumption DEF Children
      <4>. QED BY <4>1
    <3>. QED BY <3>1 DEF QueueInv, Ahead
  <2>2. Due(2 * c) = Len(heard[2 * c]) + 0
    BY <2>1 DEF Due
  <2>. QED BY <1>1, <2>2, LineTypes
<1>3. /\ Len(said[2 * c]) = Count(dialogue[c], "f", spoken[c])
      /\ Len(heard[2 * c]) = Count(dialogue[c], "f", done[c])
  BY <1>1 DEF CountedAs
<1>4. spoken[c] \in Nat \ {0} /\ done[c] \in Nat \ {0} /\ spoken[c] <= Len(dialogue[c]) + 1 /\ Len(dialogue[c]) \in Nat
  BY EndsFacts
<1>5. ASSUME Turn("f", c, done[c]), done[c] < spoken[c] PROVE OfType(2 * c) # {}
  <2>1. dialogue[c][done[c]] = "f"
    BY <1>5 DEF Turn
  <2>2. Len(heard[2 * c]) < Len(said[2 * c])
    BY <1>3, <1>4, <1>5, <2>1, EndsFacts
  <2>3. Due(2 * c) + 1 \in Due(2 * c) + 1 .. Len(said[2 * c])
    BY <1>2, <2>2
  <2>. QED BY <1>1, <2>3 DEF QueuedAs
<1>6. ASSUME OfType(2 * c) # {} PROVE done[c] < spoken[c] /\ Turn("f", c, done[c])
  <2>1. Due(2 * c) + 1 <= Len(said[2 * c])
    BY <1>1, <1>6, TakenText
  <2>2. ~ (Len(said[2 * c]) <= Len(heard[2 * c]))
    BY <1>2, <2>1
  <2>3. done[c] < spoken[c]
    <3>1. SUFFICES ASSUME done[c] >= spoken[c] PROVE FALSE
      BY <1>4
    <3>. QED BY <1>3, <1>4, <2>2, <3>1, EndsFacts
  <2>4. done[c] <= Len(dialogue[c]) /\ ~ Turn("c", c, done[c])
    BY <1>4, <2>3, TurnsAlternate
  <2>5. dialogue[c][done[c]] \in {"f", "c"}
    BY <1>4, <2>4, EndsFacts
  <2>. QED BY <2>3, <2>4, <2>5 DEF Turn
<1>. QED BY <1>5, <1>6

\* An answer of a child is in the queue just when the child is ahead and the
\* father, who keeps nothing, is to hear.
LEMMA AnswerIsThere ==
  ASSUME QueueInv, pc # "over", NEW c \in Children
  PROVE  /\ FatherListens(c) /\ spoken[c] < done[c] /\ msLastRead = None => OfType(2 * c - 1) # {}
         /\ OfType(2 * c - 1) # {} => spoken[c] < done[c]
<1>1. /\ TypeOK /\ CountedAs(c) /\ 2 * c - 1 \in Types /\ QueuedAs(2 * c - 1) /\ NumberedAs(2 * c - 1)
  BY LineFacts DEF QueueInv, Counted, Numbered, Queued
<1>2. /\ Len(heard[2 * c - 1]) \in Nat /\ Len(said[2 * c - 1]) \in Nat
      /\ Due(2 * c - 1) \in Nat /\ Len(heard[2 * c - 1]) <= Due(2 * c - 1)
      /\ msLastRead = None => Due(2 * c - 1) = Len(heard[2 * c - 1])
  <2>1. msLastRead = None => Due(2 * c - 1) = Len(heard[2 * c - 1]) + 0
    BY DEF Due
  <2>. QED BY <1>1, <2>1, LineTypes
<1>3. /\ Len(said[2 * c - 1]) = Count(dialogue[c], "c", done[c])
      /\ Len(heard[2 * c - 1]) = Count(dialogue[c], "c", spoken[c])
  BY <1>1 DEF CountedAs
<1>4. spoken[c] \in Nat \ {0} /\ done[c] \in Nat \ {0}
  BY EndsFacts
<1>5. ASSUME FatherListens(c), spoken[c] < done[c], msLastRead = None PROVE OfType(2 * c - 1) # {}
  <2>1. dialogue[c][spoken[c]] = "c"
    BY <1>5 DEF FatherListens, Turn
  <2>2. Len(heard[2 * c - 1]) < Len(said[2 * c - 1])
    BY <1>3, <1>4, <1>5, <2>1, EndsFacts
  <2>3. Due(2 * c - 1) + 1 \in Due(2 * c - 1) + 1 .. Len(said[2 * c - 1])
    BY <1>2, <1>5, <2>2
  <2>. QED BY <1>1, <2>3 DEF QueuedAs
<1>6. ASSUME OfType(2 * c - 1) # {} PROVE spoken[c] < done[c]
  <2>1. Due(2 * c - 1) + 1 <= Len(said[2 * c - 1])
    BY <1>1, <1>6, TakenText
  <2>2. ~ (Len(said[2 * c - 1]) <= Len(heard[2 * c - 1]))
    BY <1>2, <2>1
  <2>3. SUFFICES ASSUME spoken[c] >= done[c] PROVE FALSE
    BY <1>4
  <2>4. Count(dialogue[c], "c", done[c]) <= Count(dialogue[c], "c", spoken[c])
    BY <1>4, <2>3, EndsFacts
  <2>. QED BY <1>3, <2>2, <2>4
<1>. QED BY <1>5, <1>6

\* What the others may leave in the queue is finite.
LEMMA OthersFinite ==
  ASSUME NEW c \in Children, \A d \in Children : Answers(d) \in Nat
  PROVE  IsFiniteSet(OtherAnswers(c))
<1>. DEFINE Of(d) == {d} \X (1 .. Answers(d))
            S == {Of(d) : d \in Children \ {c}}
            f == [d \in Children \ {c} |-> Of(d)]
<1>1. IsFiniteSet(Children \ {c})
  <2>1. IsFiniteSet(Children) /\ Children \ {c} \in SUBSET Children
    BY NAssumption, FS_Interval DEF Children
  <2>. QED BY <2>1, FS_Subset
<1>2. IsFiniteSet(S)
  <2>1. f \in Surjection(Children \ {c}, S)
    <3>1. f \in [Children \ {c} -> S] /\ \A s \in S : \E d \in Children \ {c} : f[d] = s
      BY Zenon
    <3>. QED BY <3>1 DEF Surjection
  <2>. HIDE DEF f, S
  <2>. QED BY <1>1, <2>1, FS_Surjection
<1>3. ASSUME NEW d \in Children \ {c} PROVE IsFiniteSet(Of(d))
  <2>1. 1 \in Int /\ Answers(d) \in Int
    OBVIOUS
  <2>2. IsFiniteSet(1 .. Answers(d))
    BY <2>1, FS_Interval
  <2>3. IsFiniteSet({d})
    BY FS_Singleton
  <2>. QED BY <2>2, <2>3, FS_Product
<1>4. \A T \in S : IsFiniteSet(T)
  <2>. HIDE DEF Of
  <2>. QED BY <1>3
<1>5. IsFiniteSet(UNION S)
  <2>. HIDE DEF S
  <2>. QED BY <1>2, <1>4, FS_UNION
<1>. QED BY <1>5, Zenon DEF OtherAnswers

\* No child answers more often than its dialogue says.
LEMMA AnswersBound ==
  ASSUME QueueInv, NEW c \in Children
  PROVE  Answers(c) \in Nat /\ Len(said[2 * c - 1]) <= Answers(c)
<1>1. /\ TypeOK /\ CountedAs(c) /\ Len(dialogue[c]) \in Nat /\ done[c] \in 1 .. Len(dialogue[c]) + 1
  BY DialogueFacts DEF QueueInv, Counted, TypeOK
<1>2. Answers(c) = Count(dialogue[c], "c", Len(dialogue[c]) + 1)
  <2>1. dialogue[c] \in Seq({"f", "c"})
    BY <1>1, DialoguesAssumption DEF TypeOK
  <2>2. DOMAIN dialogue[c] = 1 .. (Len(dialogue[c]) + 1) - 1
    BY <1>1, <2>1
  <2>. QED BY <2>2 DEF Answers, Count
<1>3. Len(dialogue[c]) + 1 \in Nat \ {0}
  BY <1>1
<1>4. done[c] \in 1 .. (Len(dialogue[c]) + 1)
  BY <1>1
<1>5. /\ Count(dialogue[c], "c", Len(dialogue[c]) + 1) \in Nat
      /\ Count(dialogue[c], "c", done[c]) <= Count(dialogue[c], "c", Len(dialogue[c]) + 1)
  BY <1>3, <1>4, CountFacts
<1>. QED BY <1>1, <1>2, <1>5 DEF CountedAs

LEMMA EvenOrOdd ==
  ASSUME NEW t \in Int
  PROVE  \E d \in Int : t = 2 * d - 1 \/ t = 2 * d
<1>1. t \div 2 \in Int /\ (t = 2 * (t \div 2) \/ t = 2 * (t \div 2) + 1)
  OBVIOUS
<1>2. (t \div 2) + 1 \in Int /\ 2 * ((t \div 2) + 1) - 1 = 2 * (t \div 2) + 1
  BY <1>1
<1>. QED BY <1>1, <1>2

\* When nothing is there for the children and nothing from one of them, the
\* messages in the queue are answers of the others, all different.
LEMMA OthersLeaveRoom ==
  ASSUME QueueInv, pc # "over", AnswersFit, NEW c \in Children,
         OfType(2 * c - 1) = {}, \A d \in Children : OfType(2 * d) = {}
  PROVE  HasRoom
<1>. DEFINE Of(k) == CHOOSE d \in Children \ {c} : queue[k].mtype = 2 * d - 1
            f == [k \in 1 .. Len(queue) |-> <<Of(k), queue[k].mtext[2]>>]
<1>1. /\ TypeOK /\ Len(queue) \in Nat /\ DOMAIN queue = 1 .. Len(queue) /\ room \in Nat
      /\ \A k \in 1 .. Len(queue) : queue[k] \in Message
  BY QueueTypes DEF QueueInv
<1>2. ASSUME NEW k \in 1 .. Len(queue)
      PROVE  /\ \E d \in Children \ {c} : queue[k].mtype = 2 * d - 1
             /\ \A d \in Children \ {c} : queue[k].mtype = 2 * d - 1 => queue[k].mtext[2] \in 1 .. Answers(d)
  <2>1. queue[k].mtype \in Types /\ k \in OfType(queue[k].mtype)
    BY <1>1 DEF Message, OfType
  <2>2. \E d \in Children : queue[k].mtype = 2 * d - 1 \/ queue[k].mtype = 2 * d
    <3>1. queue[k].mtype \in Int /\ 1 <= queue[k].mtype /\ queue[k].mtype <= 2 * N /\ N \in Nat \ {0}
      BY <2>1, NAssumption DEF Types
    <3>2. PICK d \in Int : queue[k].mtype = 2 * d - 1 \/ queue[k].mtype = 2 * d
      BY <3>1, EvenOrOdd
    <3>3. d \in Children
      BY <3>1, <3>2 DEF Children
    <3>. QED BY <3>2, <3>3
  <2>3. \E d \in Children \ {c} : queue[k].mtype = 2 * d - 1
    BY <2>1, <2>2
  <2>4. ASSUME NEW d \in Children \ {c}, queue[k].mtype = 2 * d - 1 PROVE queue[k].mtext[2] \in 1 .. Answers(d)
    <3>1. 2 * d - 1 \in Types /\ QueuedAs(2 * d - 1) /\ k \in OfType(2 * d - 1)
      BY <2>1, <2>4, LineFacts DEF QueueInv, Queued
    <3>2. queue[k].mtext[2] \in Due(2 * d - 1) + 1 .. Len(said[2 * d - 1]) /\ Due(2 * d - 1) \in Nat
      BY <1>1, <3>1, LineTypes DEF QueuedAs
    <3>3. Answers(d) \in Nat /\ Len(said[2 * d - 1]) <= Answers(d) /\ Len(said[2 * d - 1]) \in Nat
      BY <1>1, <3>1, AnswersBound, LineTypes
    <3>. QED BY <3>2, <3>3
  <2>. QED BY <2>3, <2>4
<1>3. \A k \in 1 .. Len(queue) : Of(k) \in Children \ {c} /\ queue[k].mtype = 2 * Of(k) - 1
  BY <1>2
<1>4. ASSUME NEW k \in 1 .. Len(queue) PROVE f[k] \in OtherAnswers(c)
  <2>1. queue[k].mtext[2] \in 1 .. Answers(Of(k))
    BY <1>2, <1>3
  <2>. HIDE DEF Of
  <2>2. f[k] \in {Of(k)} \X (1 .. Answers(Of(k)))
    BY <2>1
  <2>. QED BY <1>3, <2>2 DEF OtherAnswers
<1>5. ASSUME NEW k \in 1 .. Len(queue), NEW l \in 1 .. Len(queue), f[k] = f[l] PROVE k = l
  <2>. HIDE DEF Of
  <2>1. Of(k) = Of(l) /\ queue[k].mtext[2] = queue[l].mtext[2]
    BY <1>5
  <2>. DEFINE t == queue[k].mtype
  <2>2. queue[k].mtype = queue[l].mtype
    BY <1>3, <2>1
  <2>3. t \in Types /\ QueuedAs(t) /\ k \in OfType(t) /\ l \in OfType(t)
    BY <1>1, <2>2 DEF OfType, Message, QueueInv, Queued
  <2>4. /\ queue[k].mtext[2] \in Nat
        /\ k < l => queue[k].mtext[2] < queue[l].mtext[2]
        /\ l < k => queue[l].mtext[2] < queue[k].mtext[2]
    BY <1>1, <2>3 DEF QueuedAs, Message
  <2>. QED BY <2>1, <2>4
<1>6. f \in Injection(1 .. Len(queue), OtherAnswers(c))
  <2>1. f \in [1 .. Len(queue) -> OtherAnswers(c)] /\ IsInjective(f)
    <3>1. DOMAIN f = 1 .. Len(queue) /\ f = [k \in 1 .. Len(queue) |-> f[k]]
      OBVIOUS
    <3>. HIDE DEF f
    <3>. QED BY <1>4, <1>5, <3>1 DEF IsInjective
  <2>. QED BY <2>1 DEF Injection
<1>7. IsFiniteSet(OtherAnswers(c))
  BY AnswersBound, OthersFinite
<1>8. Cardinality(1 .. Len(queue)) = Len(queue)
  <2>1. 1 \in Int /\ Len(queue) \in Int
    BY <1>1
  <2>2. Cardinality(1 .. Len(queue)) = IF 1 > Len(queue) THEN 0 ELSE Len(queue) - 1 + 1
    BY <2>1, FS_Interval
  <2>. QED BY <1>1, <2>2
<1>9. Cardinality(1 .. Len(queue)) <= Cardinality(OtherAnswers(c)) /\ Cardinality(OtherAnswers(c)) \in Nat
  <2>. HIDE DEF f
  <2>. QED BY <1>6, <1>7, FS_Injection, FS_CardinalityType
<1>. QED BY <1>1, <1>8, <1>9 DEF AnswersFit, HasRoom

\* A child that cannot go on has no message to read, and runs until its dialogue
\* is over: it waits for the father's turn, or for room.
LEMMA StuckChild ==
  ASSUME QueueInv, Settled, faults = 0, pc # "over", NEW c \in Children, ~ ChildCanGo(c)
  PROVE  /\ OfType(2 * c) = {}
         /\ done[c] <= Len(dialogue[c]) => child[c] = "runs"
         /\ child[c] = "runs" => \/ Turn("f", c, done[c]) /\ spoken[c] <= done[c]
                                 \/ Turn("c", c, done[c]) /\ ~ HasRoom
<1>1. /\ child[c] \in {"runs", "ended", "dead"} /\ child[c] # "dead"
      /\ child[c] = "ended" => done[c] > Len(dialogue[c])
      /\ ChildIds(c).receives = 2 * c
  BY LineFacts DEF QueueInv, TypeOK, Settled
<1>2. spoken[c] \in Nat /\ done[c] \in Nat /\ Len(dialogue[c]) \in Nat
  BY EndsFacts
<1>3. OfType(2 * c) = {}
  <2>1. SUFFICES ASSUME OfType(2 * c) # {} PROVE FALSE
    OBVIOUS
  <2>2. Turn("f", c, done[c])
    BY <2>1, WorkIsThere
  <2>3. done[c] <= Len(dialogue[c]) /\ ~ Turn("c", c, done[c])
    BY <2>2 DEF Turn
  <2>. QED BY <1>1, <1>2, <2>1, <2>3 DEF ChildCanGo
<1>4. ASSUME child[c] = "runs"
      PROVE  \/ Turn("f", c, done[c]) /\ spoken[c] <= done[c]
             \/ Turn("c", c, done[c]) /\ ~ HasRoom
  <2>1. Turn("f", c, done[c]) \/ (Turn("c", c, done[c]) /\ ~ HasRoom)
    BY <1>4 DEF ChildCanGo
  <2>. QED BY <1>2, <1>3, <2>1, WorkIsThere
<1>5. done[c] <= Len(dialogue[c]) => child[c] = "runs"
  BY <1>1, <1>2
<1>. QED BY <1>3, <1>4, <1>5

(* Were no child able to go on, the father would be: there would be nothing for
   them in the queue, so a child ahead of the father has answered and one behind
   it waits only for its turn or for room, which the answers of the others leave. *)
LEMMA FatherGoesOn ==
  ASSUME QueueInv, Settled, AnswersFit, faults = 0, pc # "over", \A c \in Children : ~ ChildCanGo(c)
  PROVE  FatherCanGo
<1>1. /\ TypeOK /\ j \in Children /\ FatherIds(j).receives = 2 * j - 1
      /\ pc \in {"send", "select", "poll", "read", "reply", "wait"}
      /\ room \in Nat \ {0} /\ Len(queue) \in Nat
  BY LineFacts, QueueTypes, RoomsAssumption DEF QueueInv, TypeOK
<1>2. \A c \in Children : OfType(2 * c) = {}
  BY StuckChild
<1>3. ASSUME NEW c \in Children
      PROVE  /\ spoken[c] \in Nat \ {0} /\ done[c] \in Nat \ {0} /\ Len(dialogue[c]) \in Nat
             /\ spoken[c] <= Len(dialogue[c]) + 1
             /\ \A k \in 1 .. Len(dialogue[c]) : dialogue[c][k] \in {"f", "c"}
  BY EndsFacts
\* A father that is to hear a child that has not spoken is waited for by nobody.
<1>4. ASSUME NEW c \in Children, FatherListens(c), done[c] <= spoken[c] PROVE ~ HasRoom
  <2>1. done[c] <= Len(dialogue[c]) /\ dialogue[c][spoken[c]] = "c"
    BY <1>3, <1>4 DEF FatherListens, Turn
  <2>2. \/ Turn("f", c, done[c]) /\ spoken[c] <= done[c]
        \/ Turn("c", c, done[c]) /\ ~ HasRoom
    BY <2>1, StuckChild
  <2>3. CASE Turn("f", c, done[c]) /\ spoken[c] <= done[c]
    <3>1. done[c] = spoken[c]
      BY <1>3, <1>4, <2>3
    <3>. QED BY <2>1, <2>3, <3>1 DEF Turn
  <2>. QED BY <2>2, <2>3
<1>5. CASE pc \in {"send", "reply"}
  <2>1. SUFFICES ASSUME FatherSpeaks(j) PROVE HasRoom
    BY <1>5 DEF FatherCanGo
  <2>2. done[j] <= spoken[j]
    BY <1>1, <2>1, TurnsAlternate
  <2>3. OfType(2 * j - 1) = {}
    BY <1>1, <1>3, <2>2, AnswerIsThere
  <2>. QED BY <1>1, <1>2, <2>3, OthersLeaveRoom
<1>6. CASE pc = "select"
  <2>1. SUFFICES ASSUME queue = <<>>, NEW c \in Children, ~ Finished(c) PROVE FALSE
    BY <1>6 DEF FatherCanGo
  <2>2. HasRoom /\ OfType(2 * c - 1) = {}
    <3>1. Len(queue) = 0 /\ DOMAIN queue = {}
      BY <2>1
    <3>. QED BY <1>1, <3>1 DEF HasRoom, OfType
  <2>3. msLastRead = None
    BY <1>6 DEF QueueInv, Ahead
  <2>4. FatherListens(c)
    <3>1. ~ FatherSpeaks(c) /\ spoken[c] \in 1 .. Len(dialogue[c])
      BY <1>3, <1>6, <2>1 DEF Settled, Finished
    <3>. QED BY <1>3, <3>1 DEF FatherSpeaks, FatherListens, Turn
  <2>5. done[c] <= spoken[c]
    BY <1>3, <2>2, <2>3, <2>4, AnswerIsThere
  <2>. QED BY <1>4, <2>2, <2>4, <2>5
<1>7. CASE pc = "poll"
  BY <1>7 DEF FatherCanGo
<1>8. CASE pc = "read"
  <2>1. SUFFICES ASSUME FatherListens(j), msLastRead = None, OfType(2 * j - 1) = {} PROVE FALSE
    BY <1>1, <1>8 DEF FatherCanGo
  <2>2. done[j] <= spoken[j]
    BY <1>1, <1>3, <2>1, AnswerIsThere
  <2>. QED BY <1>1, <1>2, <1>4, <2>1, <2>2, OthersLeaveRoom
<1>9. CASE pc = "wait"
  <2>1. SUFFICES ASSUME NEW c \in Children, child[c] = "runs" PROVE FALSE
    BY <1>9 DEF FatherCanGo
  <2>2. spoken[c] > Len(dialogue[c])
    BY <1>9 DEF Settled, Finished
  <2>3. CASE Turn("f", c, done[c]) /\ spoken[c] <= done[c]
    BY <1>3, <2>2, <2>3 DEF Turn
  <2>4. CASE Turn("c", c, done[c])
    <3>1. spoken[c] <= done[c] /\ done[c] <= Len(dialogue[c])
      BY <2>4, TurnsAlternate DEF Turn
    <3>. QED BY <1>3, <2>2, <3>1
  <2>. QED BY <2>1, <2>3, <2>4, StuckChild
<1>. QED BY <1>1, <1>5, <1>6, <1>7, <1>8, <1>9

(* Nobody waits for ever: whatever the room, the children and their dialogues,
   while no child dies and select does not give up, the father or a child can take
   its next message, write one or go on, provided the answers of all but one child
   do not fill the queue. *)
THEOREM QueueNeverDeadlocks == Spec => []NoDeadlock
<1>1. Init => Settled
  BY SettledFirst
<1>2. QueueInv /\ Settled /\ [Next]_vars => Settled'
  BY SettledStays
<1>3. QueueInv /\ Settled => NoDeadlock
  BY FatherGoesOn DEF NoDeadlock
<1>4. Spec => []QueueInv
  BY QueueInductive
<1>. QED BY <1>1, <1>2, <1>3, <1>4, PTL DEF Spec
=============================================================================
