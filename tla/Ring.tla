-------------------------------- MODULE Ring --------------------------------
(***************************************************************************)
(* A segment of shared memory between the father and one child             *)
(* (shmIPC.c): two rings of bytes, A from the child and B to it, each with *)
(* an offset to read at, an offset to write at and a semaphore.            *)
(*                                                                         *)
(* The two programs hold a conversation both of them know: who writes next *)
(* and how much.  Both go through it in order, as fifa and grouph, gates   *)
(* and levels do, so one writes only when it has read all that came        *)
(* before.  The buffers lie one after the other, and each offset runs over *)
(* one byte more than its buffer has: place Size of A is place 0 of B.     *)
(***************************************************************************)
EXTENDS Integers, Sequences

CONSTANTS
  Size,   \* _SHM_SEG_SIZE_: 4000 in the code
  Talks   \* the conversations: sequences of [from, size]

Sides == {"father", "child"}
Rings == {"A", "B"}

ASSUME SizeAssumption == Size \in Nat \ {0}
ASSUME TalksAssumption == Talks \subseteq Seq([from : Sides, size : Nat \ {0}])

VARIABLES
  talk,       \* the conversation
  at,         \* how far in it each side is
  pc, left,   \* where each side is in readIPC or writeIPC, and its bytes to go
  read,       \* the read offset of each ring: sReadOff of A, cReadOff of B
  write,      \* the write offset: cWriteOff of A, sWriteOff of B
  sem,        \* who holds the semaphore of the ring, "nobody" if free
  mem,        \* bufA, bufB and the byte after them
  said,       \* how many bytes have been written to each ring
  heard       \* the bytes that have been read from it

sideVars == <<at, pc, left>>
ringVars == <<read, write, sem, mem, said, heard>>
vars == <<talk, sideVars, ringVars>>

\* Where the buffers lie in a shmStruct.
Base(r) == IF r = "A" THEN 0 ELSE Size

\* The rings as synchronize and loadIPC enter them in the table of each side;
\* the semaphores are SEMA for ring A and SEMB for ring B on both.
FatherEntry == [read |-> "A", write |-> "B"]
ChildEntry == [read |-> "B", write |-> "A"]
Entry(p) == IF p = "father" THEN FatherEntry ELSE ChildEntry

\* The n-th byte of a ring: no two are alike, so none is taken for another.
Byte(r, n) == IF r = "A" THEN n ELSE -n

\* setupIPC and initHeaders
Init ==
  /\ talk \in Talks
  /\ at = [p \in Sides |-> 1]
  /\ pc = [p \in Sides |-> "idle"]
  /\ left = [p \in Sides |-> 0]
  /\ read = [r \in Rings |-> 0]
  /\ write = [r \in Rings |-> 0]
  /\ sem = [r \in Rings |-> "nobody"]
  /\ mem = [a \in 0 .. 2 * Size |-> 0]
  /\ said = [r \in Rings |-> 0]
  /\ heard = [r \in Rings |-> <<>>]

Over(p) == at[p] > Len(talk)
Mine(p) == ~ Over(p) /\ talk[at[p]].from = p
Theirs(p) == ~ Over(p) /\ talk[at[p]].from # p
Wanted(p) == talk[at[p]].size

-----------------------------------------------------------------------------
(***************************************************************************)
(* writeIPC                                                                *)
(***************************************************************************)
\* Mutant: the place that keeps a full ring from looking empty is used.
HasRoomFull(r, n) ==
  \/ write[r] < read[r] /\ n <= read[r] - write[r]
  \/ write[r] > read[r] /\ n <= Size - write[r] + read[r] + 1
  \/ write[r] = read[r]

\* Enough room; an empty ring is not looked at any further.
HasRoom(r, n) ==
  \/ write[r] < read[r] /\ n <= read[r] - write[r] - 1
  \/ write[r] > read[r] /\ n <= Size - write[r] + read[r] - 1
  \/ write[r] = read[r]

\* sem_wait and the test; a test that fails posts and tries again 10 ms later.
BeginWrite(p) ==
  LET r == Entry(p).write IN
  /\ pc[p] = "idle" /\ Mine(p) /\ Wanted(p) <= Size
  /\ sem[r] = "nobody" /\ HasRoom(r, Wanted(p))
  /\ sem' = [sem EXCEPT ![r] = p]
  /\ pc' = [pc EXCEPT ![p] = "write"]
  /\ left' = [left EXCEPT ![p] = Wanted(p)]
  /\ UNCHANGED <<talk, at, read, write, mem, said, heard>>

\* Mutant: the offset goes back one byte sooner than the reader's.
WrapWriteSoon(p) ==
  LET r == Entry(p).write IN
  /\ pc[p] = "write" /\ left[p] > 0 /\ write[r] >= Size
  /\ write' = [write EXCEPT ![r] = 0]
  /\ UNCHANGED <<talk, sideVars, read, sem, mem, said, heard>>

\* The offset is past the end when the next byte comes: it goes back to 0.
WrapWrite(p) ==
  LET r == Entry(p).write IN
  /\ pc[p] = "write" /\ left[p] > 0 /\ write[r] > Size
  /\ write' = [write EXCEPT ![r] = 0]
  /\ UNCHANGED <<talk, sideVars, read, sem, mem, said, heard>>

\* Mutant: the end of the buffer is not looked for.
WriteBytePast(p) ==
  LET r == Entry(p).write IN
  /\ pc[p] = "write" /\ left[p] > 0
  /\ mem' = [mem EXCEPT ![Base(r) + write[r]] = Byte(r, said[r] + 1)]
  /\ write' = [write EXCEPT ![r] = @ + 1]
  /\ said' = [said EXCEPT ![r] = @ + 1]
  /\ left' = [left EXCEPT ![p] = @ - 1]
  /\ UNCHANGED <<talk, at, pc, read, sem, heard>>

WriteByte(p) ==
  LET r == Entry(p).write IN
  /\ pc[p] = "write" /\ left[p] > 0 /\ write[r] <= Size
  /\ mem' = [mem EXCEPT ![Base(r) + write[r]] = Byte(r, said[r] + 1)]
  /\ write' = [write EXCEPT ![r] = @ + 1]
  /\ said' = [said EXCEPT ![r] = @ + 1]
  /\ left' = [left EXCEPT ![p] = @ - 1]
  /\ UNCHANGED <<talk, at, pc, read, sem, heard>>

\* sem_post, and the program goes on.
Finish(p, r) ==
  /\ left[p] = 0
  /\ sem' = [sem EXCEPT ![r] = "nobody"]
  /\ pc' = [pc EXCEPT ![p] = "idle"]
  /\ at' = [at EXCEPT ![p] = @ + 1]
  /\ UNCHANGED <<talk, left, read, write, mem, said, heard>>

EndWrite(p) == pc[p] = "write" /\ Finish(p, Entry(p).write)

\* Neither end moves more than a buffer at once: both return -1.
Refuse(p) ==
  /\ pc[p] = "idle" /\ ~ Over(p) /\ Wanted(p) > Size
  /\ at' = [at EXCEPT ![p] = @ + 1]
  /\ UNCHANGED <<talk, pc, left, ringVars>>

-----------------------------------------------------------------------------
(***************************************************************************)
(* readIPC, getIPCStatus and selectIPC                                     *)
(***************************************************************************)
\* Mutant: one byte more than it wants is waited for.
HasBytesMore(r, n) ==
  \/ read[r] < write[r] /\ n < write[r] - read[r]
  \/ read[r] > write[r] /\ n < Size - read[r] + write[r]

\* Enough bytes; of a ring that has wrapped one byte is not counted.
HasBytes(r, n) ==
  \/ read[r] < write[r] /\ n <= write[r] - read[r]
  \/ read[r] > write[r] /\ n <= Size - read[r] + write[r]

\* getIPCStatus and selectIPC compare the offsets without the semaphore, and
\* may do so in the middle of a write.
Look(p) ==
  LET r == Entry(p).read IN
  /\ pc[p] = "idle" /\ Theirs(p) /\ Wanted(p) <= Size
  /\ read[r] # write[r]
  /\ pc' = [pc EXCEPT ![p] = "told"]
  /\ UNCHANGED <<talk, at, left, ringVars>>

\* A message is read after a look, or waited for in readIPC itself.
BeginRead(p) ==
  LET r == Entry(p).read IN
  /\ pc[p] \in {"idle", "told"} /\ Theirs(p) /\ Wanted(p) <= Size
  /\ sem[r] = "nobody" /\ HasBytes(r, Wanted(p))
  /\ sem' = [sem EXCEPT ![r] = p]
  /\ pc' = [pc EXCEPT ![p] = "read"]
  /\ left' = [left EXCEPT ![p] = Wanted(p)]
  /\ UNCHANGED <<talk, at, read, write, mem, said, heard>>

\* Mutant: the read offset never goes back to 0.
WrapReadNever(p) ==
  LET r == Entry(p).read IN
  /\ pc[p] = "read" /\ left[p] > 0 /\ read[r] > Size
  /\ read' = [read EXCEPT ![r] = Size]
  /\ UNCHANGED <<talk, sideVars, write, sem, mem, said, heard>>

WrapRead(p) ==
  LET r == Entry(p).read IN
  /\ pc[p] = "read" /\ left[p] > 0 /\ read[r] > Size
  /\ read' = [read EXCEPT ![r] = 0]
  /\ UNCHANGED <<talk, sideVars, write, sem, mem, said, heard>>

ReadByte(p) ==
  LET r == Entry(p).read IN
  /\ pc[p] = "read" /\ left[p] > 0 /\ read[r] <= Size
  /\ heard' = [heard EXCEPT ![r] = Append(@, mem[Base(r) + read[r]])]
  /\ read' = [read EXCEPT ![r] = @ + 1]
  /\ left' = [left EXCEPT ![p] = @ - 1]
  /\ UNCHANGED <<talk, at, pc, write, sem, mem, said>>

EndRead(p) == pc[p] = "read" /\ Finish(p, Entry(p).read)

-----------------------------------------------------------------------------
Step(p) ==
  \/ BeginWrite(p) \/ WrapWrite(p) \/ WriteByte(p) \/ EndWrite(p)
  \/ Look(p) \/ BeginRead(p) \/ WrapRead(p) \/ ReadByte(p) \/ EndRead(p)
  \/ Refuse(p)

Next == \E p \in Sides : Step(p)

Spec == Init /\ [][Next]_vars

\* Both sides are processes of the system; one that waits tries again and again.
FairSpec == Spec /\ \A p \in Sides : WF_vars(Step(p))
=============================================================================
