--------------------------- MODULE RingProperties ---------------------------
(***************************************************************************)
(* What is expected of the rings of shared memory.                         *)
(***************************************************************************)
EXTENDS Ring

Writer(r) == CHOOSE p \in Sides : Entry(p).write = r

(* The type invariant: what the variables of both sides, of the offsets and
   of the memory may hold. *)
TypeOK ==
  /\ talk \in Talks
  /\ at \in [Sides -> 1 .. Len(talk) + 1]
  /\ pc \in [Sides -> {"idle", "write", "told", "read"}]
  /\ left \in [Sides -> 0 .. Size]
  /\ read \in [Rings -> 0 .. Size + 1]
  /\ write \in [Rings -> 0 .. Size + 1]
  /\ sem \in [Rings -> Sides \cup {"nobody"}]
  /\ mem \in [0 .. 2 * Size -> Int]
  /\ said \in [Rings -> Nat]
  /\ heard \in [Rings -> Seq(Int)]

(* getIPCStatus and selectIPC compare two offsets that the other side may be
   changing, without its semaphore; when they say there is something to read,
   there is, or a write of it is under way. *)
ToldIsTrue ==
  \A p \in Sides :
    pc[p] = "told" => LET r == Entry(p).read
                      IN  said[r] > Len(heard[r]) \/ pc[Writer(r)] = "write"

(* Equal offsets mean an empty ring, and only that, whenever nobody is inside
   it: the room that writeIPC asks for never lets a full ring look empty. *)
EmptyIsExact ==
  \A r \in Rings :
    sem[r] = "nobody" => (read[r] = write[r] <=> said[r] = Len(heard[r]))

(* What two offsets tell is true: to getIPCStatus and selectIPC, beside the
   semaphore, that there is something to read; to readIPC and writeIPC, who hold
   it, whether there is. *)
OffsetsTell == ToldIsTrue /\ EmptyIsExact

-----------------------------------------------------------------------------
\* What each line has been given.
SaidNow == [r \in Rings |-> [n \in 1 .. said[r] |-> Byte(r, n)]]

TheChannel == INSTANCE Channel WITH Lines <- Rings, Messages <- Int, said <- SaidNow

(* Every byte written to a ring is read from it once, in order and unchanged,
   although the offsets wrap, the bytes move one by one between two processes
   and the last place of one ring is the first of the other. *)
ChannelSpec == TheChannel!Spec

-----------------------------------------------------------------------------
(***************************************************************************)
(* Where readIPC waits for more than it was promised.                      *)
(***************************************************************************)
Moves(k) == k \in DOMAIN talk /\ talk[k].size <= Size

\* How many bytes the writer of message k has written before it.
Before(k) ==
  LET sum[m \in 1 .. k] ==
        IF m = 1 THEN 0
        ELSE sum[m - 1] + (IF Moves(m - 1) /\ talk[m - 1].from = talk[k].from
                           THEN talk[m - 1].size ELSE 0)
  IN  sum[k]

\* The offset goes back to 0 between the beginning and the end of message k.
Wraps(k) ==
  LET first == Before(k)
      last == first + talk[k].size
  IN  first > 0 /\ (first - 1) \div (Size + 1) # (last - 1) \div (Size + 1)

\* After message k the other side is to speak, or nobody, or the next message
\* does not fit in beside it.
NothingFollows(k) ==
  LET after == {m \in k + 1 .. Len(talk) : Moves(m)}
  IN  after = {} \/ LET next == talk[CHOOSE m \in after : \A o \in after : m <= o]
                    IN next.from # talk[k].from \/ next.size > Size - talk[k].size

Stuck(k) == Moves(k) /\ Wraps(k) /\ NothingFollows(k)

AllOver == \A p \in Sides : Over(p)

\* A side moves bytes, or finds the room or the bytes its next message needs.
CanGo(p) ==
  \/ pc[p] \in {"write", "read"}
  \/ pc[p] = "idle" /\ ~ Over(p) /\ Wanted(p) > Size
  \/ /\ pc[p] = "idle" /\ Mine(p) /\ Wanted(p) <= Size
     /\ sem[Entry(p).write] = "nobody" /\ HasRoom(Entry(p).write, Wanted(p))
  \/ /\ Theirs(p) /\ Wanted(p) <= Size
     /\ sem[Entry(p).read] = "nobody" /\ HasBytes(Entry(p).read, Wanted(p))

\* All of the message is in the ring, around its end, and readIPC counts one less.
OneByteShort(p) ==
  LET r == Entry(p).read IN
  /\ Theirs(p) /\ pc[p] \in {"idle", "told"}
  /\ read[r] > write[r] /\ Wanted(p) = Size - read[r] + write[r] + 1
  /\ said[r] - Len(heard[r]) = Wanted(p)

(* Both sides never wait for each other but for the byte that readIPC does not
   count: until the conversation is over one of them moves or can begin its next
   message, or all that a reader waits for lies in its ring around the end. *)
WaitsForAByte ==
  AllOver \/ (\E p \in Sides : CanGo(p)) \/ \E p \in Sides : OneByteShort(p)

(* Every conversation comes to its end, unless a message is wrapped around the
   end of the ring and the next one does not follow it: neither side waits for
   room, bytes or a semaphore that the other will not give. *)
TalkEnds == (\A k \in DOMAIN talk : ~ Stuck(k)) => <>AllOver

(* Every conversation comes to its end: readIPC gives what writeIPC was given. *)
EveryTalkEnds == <>AllOver
=============================================================================
