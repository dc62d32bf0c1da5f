------------------------------ MODULE RingProof ------------------------------
(***************************************************************************)
(* Theorems about the rings of shared memory, for every size of buffer and *)
(* every conversation.                                                     *)
(***************************************************************************)
EXTENDS RingProperties, SequenceTheorems, TLAPS

-----------------------------------------------------------------------------
(***************************************************************************)
(* The inductive invariant.                                                *)
(***************************************************************************)
Reader(r) == CHOOSE p \in Sides : Entry(p).read = r

\* Who is inside a ring holds its semaphore, and is at a message of the ring.
InsideAs(p) ==
  /\ pc[p] = "write" <=> sem[Entry(p).write] = p
  /\ pc[p] = "read" <=> sem[Entry(p).read] = p
  /\ pc[p] = "write" => Mine(p) /\ Wanted(p) <= Size /\ left[p] <= Wanted(p)
  /\ pc[p] \in {"told", "read"} => Theirs(p) /\ Wanted(p) <= Size
  /\ pc[p] = "read" => left[p] <= Wanted(p)
Inside == \A p \in Sides : InsideAs(p)

Unread(r) == said[r] - Len(heard[r])

(* The offsets are as far apart as there are bytes to read, around the end or
   not, and who is inside has the bytes or the room for what it has to go.  Only
   in the middle of a write does the write offset come back to 0. *)
OffsetsOf(r) ==
  /\ Unread(r) \in 0 .. Size
  /\ write[r] - read[r] \in {Unread(r), Unread(r) - (Size + 1)}
  /\ pc[Writer(r)] = "write" => left[Writer(r)] + Unread(r) <= Size
  /\ pc[Reader(r)] = "read" => left[Reader(r)] <= Unread(r)
  /\ write[r] = 0 => \/ said[r] = 0 /\ read[r] = 0
                     \/ pc[Writer(r)] = "write" /\ left[Writer(r)] > 0
Offsets == \A r \in Rings : OffsetsOf(r)

\* Nobody is past a message of the other that the other has not finished.
Refused(k) == talk[k].size > Size
InTurn ==
  \A p, q \in Sides :
    p # q => \A k \in at[p] .. at[q] - 1 : talk[k].from = q \/ Refused(k)

(* What a ring has carried before each message up to the furthest reached: the
   sum of the sizes, given by the equation that defines it. *)
Adds(r, k) == IF talk[k].from = Writer(r) /\ ~ Refused(k) THEN talk[k].size ELSE 0
Marks(r, mark, last) ==
  /\ mark \in [Nat -> Nat]
  /\ \A k \in 1 .. last - 1 : mark[k + 1] = mark[k] + Adds(r, k)
  /\ \A i, k \in 1 .. last :
       i <= k => /\ mark[i] <= mark[k]
                 /\ (\A m \in i .. k - 1 : Adds(r, m) = 0) => mark[i] = mark[k]

Furthest == IF at["father"] >= at["child"] THEN at["father"] ELSE at["child"]
Written(r) == IF pc[Writer(r)] = "write" THEN Wanted(Writer(r)) - left[Writer(r)] ELSE 0
Taken(r) == IF pc[Reader(r)] = "read" THEN Wanted(Reader(r)) - left[Reader(r)] ELSE 0

Counts(r, mark) ==
  /\ said[r] = mark[at[Writer(r)]] + Written(r)
  /\ Len(heard[r]) = mark[at[Reader(r)]] + Taken(r)

Accounts == \A r \in Rings : \E mark : Marks(r, mark, Furthest) /\ Counts(r, mark)

\* The place of the i-th byte after an offset.
Place(off, i) == IF off + i - 1 > Size THEN off + i - 1 - (Size + 1) ELSE off + i - 1

(* What has not been read is in the memory, in its place and order, and what has
   been read is what was written. *)
ContentsOf(r) ==
  /\ \A i \in 1 .. Unread(r) : mem[Base(r) + Place(read[r], i)] = Byte(r, Len(heard[r]) + i)
  /\ \A n \in 1 .. Len(heard[r]) : heard[r][n] = Byte(r, n)
Contents == \A r \in Rings : ContentsOf(r)

RingInv ==
  /\ TypeOK /\ Inside /\ Offsets /\ InTurn /\ Accounts /\ Contents /\ ToldIsTrue

-----------------------------------------------------------------------------
LEMMA RingFacts ==
  /\ Sides = {"father", "child"} /\ Rings = {"A", "B"}
  /\ \A p \in Sides : /\ Entry(p).read \in Rings /\ Entry(p).write \in Rings
                      /\ Entry(p).read # Entry(p).write
                      /\ Writer(Entry(p).write) = p /\ Reader(Entry(p).read) = p
                      /\ \A q \in Sides : q # p => /\ Entry(q).read = Entry(p).write
                                                   /\ Entry(q).write = Entry(p).read
  /\ \A r \in Rings : /\ Writer(r) \in Sides /\ Reader(r) \in Sides /\ Writer(r) # Reader(r)
                      /\ Entry(Writer(r)).write = r /\ Entry(Reader(r)).read = r
                      /\ \A s \in Rings : s # r => Writer(s) = Reader(r) /\ Reader(s) = Writer(r)
<1>1. /\ Writer("A") = "child" /\ Writer("B") = "father"
      /\ Reader("A") = "father" /\ Reader("B") = "child"
  BY DEF Writer, Reader, Entry, Sides, FatherEntry, ChildEntry
<1>. QED BY <1>1 DEF Sides, Rings, Entry, FatherEntry, ChildEntry

LEMMA TalkFacts ==
  ASSUME TypeOK
  PROVE  /\ Len(talk) \in Nat
         /\ \A k \in 1 .. Len(talk) : talk[k].from \in Sides /\ talk[k].size \in Nat /\ talk[k].size > 0
         /\ \A p \in Sides : /\ at[p] \in Nat /\ at[p] >= 1
                             /\ ~ Over(p) => at[p] \in 1 .. Len(talk) /\ Wanted(p) \in Nat /\ Wanted(p) > 0
<1>1. talk \in Seq([from : Sides, size : Nat \ {0}])
  BY TalksAssumption DEF TypeOK
<1>2. \A k \in 1 .. Len(talk) : talk[k] \in [from : Sides, size : Nat \ {0}]
  BY <1>1, ElementOfSeq
<1>. QED BY <1>1, <1>2 DEF TypeOK, Over, Wanted

LEMMA InitInv == Init => RingInv
<1>. SUFFICES ASSUME Init PROVE RingInv
  OBVIOUS
<1>. USE DEF Init
<1>0. Len(talk) \in Nat
  BY TalksAssumption
<1>1. TypeOK
  BY <1>0, SizeAssumption DEF TypeOK, Sides, Rings
<1>2. Inside
  BY RingFacts DEF Inside, InsideAs
<1>3. Offsets
  BY RingFacts, SizeAssumption DEF Offsets, OffsetsOf, Unread
<1>4. InTurn
  BY DEF InTurn
<1>5. Accounts
  <2>. DEFINE none == [k \in Nat |-> 0]
  <2>1. Furthest = 1
    BY DEF Furthest, Sides
  <2>2. ASSUME NEW r \in Rings PROVE Marks(r, none, 1) /\ Counts(r, none)
    BY <2>2, RingFacts DEF Marks, Counts, Written, Taken
  <2>. QED BY <2>1, <2>2 DEF Accounts
<1>6. Contents
  BY DEF Contents, ContentsOf, Unread
<1>7. ToldIsTrue
  BY DEF ToldIsTrue
<1>. QED BY <1>1, <1>2, <1>3, <1>4, <1>5, <1>6, <1>7 DEF RingInv

LEMMA EntryFacts ==
  ASSUME NEW p \in Sides PROVE Entry(p).read \in Rings /\ Entry(p).write \in Rings
BY RingFacts

LEMMA TypeStep == RingInv /\ [Next]_vars => TypeOK'
<1>. SUFFICES ASSUME RingInv, [Next]_vars PROVE TypeOK'
  OBVIOUS
<1>0. TypeOK
  BY DEF RingInv
<1>1. ASSUME NEW p \in Sides, BeginWrite(p) \/ BeginRead(p) \/ Look(p) PROVE TypeOK'
  <2>1. Wanted(p) \in 0 .. Size
    BY <1>0, <1>1, SizeAssumption, TalkFacts DEF BeginWrite, BeginRead, Look, Mine, Theirs
  <2>2. Entry(p).read \in Rings /\ Entry(p).write \in Rings
    BY EntryFacts
  <2>3. CASE BeginWrite(p)
    BY <1>0, <2>1, <2>2, <2>3 DEF BeginWrite, TypeOK
  <2>4. CASE BeginRead(p)
    BY <1>0, <2>1, <2>2, <2>4 DEF BeginRead, TypeOK
  <2>5. CASE Look(p)
    BY <1>0, <2>5 DEF Look, TypeOK, ringVars
  <2>. QED BY <1>1, <2>3, <2>4, <2>5
<1>2. ASSUME NEW p \in Sides, WrapWrite(p) \/ WrapRead(p) PROVE TypeOK'
  <2>1. Entry(p).read \in Rings /\ Entry(p).write \in Rings
    BY EntryFacts
  <2>2. CASE WrapWrite(p)
    BY <1>0, <2>1, <2>2, SizeAssumption DEF WrapWrite, TypeOK, sideVars
  <2>3. CASE WrapRead(p)
    BY <1>0, <2>1, <2>3, SizeAssumption DEF WrapRead, TypeOK, sideVars
  <2>. QED BY <1>2, <2>2, <2>3
<1>3. ASSUME NEW p \in Sides, WriteByte(p) PROVE TypeOK'
  <2>. DEFINE r == Entry(p).write
  <2>0. r \in Rings
    BY EntryFacts
  <2>1. write[r] \in 0 .. Size /\ said[r] \in Nat /\ left[p] \in 1 .. Size
    BY <1>0, <1>3, <2>0, SizeAssumption DEF WriteByte, TypeOK
  <2>2. Base(r) + write[r] \in 0 .. 2 * Size /\ Byte(r, said[r] + 1) \in Int
    BY <2>1, SizeAssumption DEF Base, Byte
  <2>3. /\ UNCHANGED <<talk, at, pc, read, sem, heard>>
        /\ mem' = [mem EXCEPT ![Base(r) + write[r]] = Byte(r, said[r] + 1)]
        /\ write' = [write EXCEPT ![r] = write[r] + 1]
        /\ said' = [said EXCEPT ![r] = said[r] + 1]
        /\ left' = [left EXCEPT ![p] = left[p] - 1]
    BY <1>3 DEF WriteByte
  <2>. HIDE DEF r
  <2>4. mem' \in [0 .. 2 * Size -> Int]
    BY <1>0, <2>2, <2>3 DEF TypeOK
  <2>5. write' \in [Rings -> 0 .. Size + 1] /\ said' \in [Rings -> Nat]
    <3>1. write[r] + 1 \in 0 .. Size + 1 /\ said[r] + 1 \in Nat
      BY <2>1, SizeAssumption
    <3>2. write \in [Rings -> 0 .. Size + 1] /\ said \in [Rings -> Nat]
      BY <1>0 DEF TypeOK
    <3>. QED BY <2>0, <2>3, <3>1, <3>2
  <2>6. left' \in [Sides -> 0 .. Size]
    <3>1. left \in [Sides -> 0 .. Size] /\ left[p] - 1 \in 0 .. Size
      BY <1>0, <2>1, SizeAssumption DEF TypeOK
    <3>. QED BY <2>3, <3>1
  <2>. QED BY <1>0, <2>3, <2>4, <2>5, <2>6 DEF TypeOK
<1>4. ASSUME NEW p \in Sides, ReadByte(p) PROVE TypeOK'
  <2>. DEFINE r == Entry(p).read
  <2>0. r \in Rings
    BY EntryFacts
  <2>1. read[r] \in 0 .. Size /\ heard[r] \in Seq(Int) /\ left[p] \in 1 .. Size
    BY <1>0, <1>4, <2>0, SizeAssumption DEF ReadByte, TypeOK
  <2>2. Base(r) + read[r] \in 0 .. 2 * Size
    BY <2>1, SizeAssumption DEF Base
  <2>3. mem[Base(r) + read[r]] \in Int
    BY <1>0, <2>2 DEF TypeOK
  <2>4. Append(heard[r], mem[Base(r) + read[r]]) \in Seq(Int)
    BY <2>1, <2>3
  <2>5. /\ UNCHANGED <<talk, at, pc, write, sem, mem, said>>
        /\ heard' = [heard EXCEPT ![r] = Append(heard[r], mem[Base(r) + read[r]])]
        /\ read' = [read EXCEPT ![r] = read[r] + 1]
        /\ left' = [left EXCEPT ![p] = left[p] - 1]
    BY <1>4 DEF ReadByte
  <2>. HIDE DEF r
  <2>6. read' \in [Rings -> 0 .. Size + 1]
    BY <1>0, <2>0, <2>1, <2>5, SizeAssumption DEF TypeOK
  <2>7. heard' \in [Rings -> Seq(Int)]
    BY <1>0, <2>0, <2>4, <2>5 DEF TypeOK
  <2>8. left' \in [Sides -> 0 .. Size]
    BY <1>0, <2>1, <2>5, SizeAssumption DEF TypeOK
  <2>. QED BY <1>0, <2>5, <2>6, <2>7, <2>8 DEF TypeOK
<1>5. ASSUME NEW p \in Sides, EndWrite(p) \/ EndRead(p) PROVE TypeOK'
  <2>1. ~ Over(p) /\ Len(talk) \in Nat
    BY <1>0, <1>5, TalkFacts DEF EndWrite, EndRead, RingInv, Inside, InsideAs, Mine, Theirs
  <2>2. Entry(p).read \in Rings /\ Entry(p).write \in Rings
    BY EntryFacts
  <2>3. PICK r \in Rings : Finish(p, r)
    BY <1>5, <2>2 DEF EndWrite, EndRead
  <2>4. at' \in [Sides -> 1 .. Len(talk) + 1]
    BY <1>0, <2>1, <2>3 DEF Finish, TypeOK, Over
  <2>. QED BY <1>0, <2>3, <2>4 DEF Finish, TypeOK
<1>6. ASSUME NEW p \in Sides, Refuse(p) PROVE TypeOK'
  BY <1>0, <1>6, TalkFacts DEF Refuse, Over, TypeOK, ringVars
<1>7. CASE UNCHANGED vars
  BY <1>0, <1>7 DEF vars, TypeOK, sideVars, ringVars
<1>. QED BY <1>1, <1>2, <1>3, <1>4, <1>5, <1>6, <1>7 DEF Next, Step

LEMMA SideFacts ==
  ASSUME NEW p \in Sides
  PROVE  /\ Entry(p).read \in Rings /\ Entry(p).write \in Rings /\ Entry(p).read # Entry(p).write
         /\ "nobody" \notin Sides
         /\ \A q \in Sides \ {p} : Entry(q).read = Entry(p).write /\ Entry(q).write = Entry(p).read
BY RingFacts

(* One side's step and the other side's hold on the rings. *)
LEMMA InsideStep == RingInv /\ [Next]_vars => Inside'
<1>. SUFFICES ASSUME RingInv, [Next]_vars PROVE Inside'
  OBVIOUS
<1>0. TypeOK /\ Inside
  BY DEF RingInv
<1>1. ASSUME NEW p \in Sides, Step(p) PROVE Inside'
  <2>. DEFINE w == Entry(p).write
              r == Entry(p).read
  <2>0. /\ r \in Rings /\ w \in Rings /\ r # w /\ "nobody" \notin Sides
        /\ \A q \in Sides \ {p} : Entry(q).read = w /\ Entry(q).write = r
    BY SideFacts
  <2>1. /\ at \in [Sides -> Nat] /\ pc \in [Sides -> {"idle", "write", "told", "read"}]
        /\ left \in [Sides -> Int] /\ sem \in [Rings -> Sides \cup {"nobody"}]
    BY <1>0, TalkFacts DEF TypeOK
  <2>2. talk' = talk /\ Size \in Nat /\ \A q \in Sides : InsideAs(q)
    BY <1>0, <1>1, SizeAssumption
    DEF Step, BeginWrite, WrapWrite, WriteByte, EndWrite, Look, BeginRead, WrapRead, ReadByte, EndRead, Finish,
        Refuse, Inside
  <2>3. ~ Over(p) => Wanted(p) \in Nat
    BY <1>0, TalkFacts
  <2>4. ASSUME NEW q \in Sides \ {p}, UNCHANGED <<talk, at[q], pc[q], left[q]>>,
               (sem'[r] = q) <=> (sem[r] = q), (sem'[w] = q) <=> (sem[w] = q)
        PROVE  InsideAs(q)'
    BY <2>0, <2>2, <2>4 DEF InsideAs, Mine, Theirs, Wanted, Over
  <2>. HIDE DEF w, r
  <2>5. CASE BeginWrite(p)
    <3>1. /\ pc[p] = "idle" /\ Mine(p) /\ Wanted(p) <= Size /\ sem[w] = "nobody"
          /\ sem' = [sem EXCEPT ![w] = p] /\ pc' = [pc EXCEPT ![p] = "write"]
          /\ left' = [left EXCEPT ![p] = Wanted(p)] /\ at' = at
      BY <2>5 DEF BeginWrite, w
    <3>2. InsideAs(p)'
      BY <2>0, <2>1, <2>2, <2>3, <3>1 DEF InsideAs, Mine, Wanted, Over, w, r
    <3>3. \A q \in Sides \ {p} :
          /\ UNCHANGED <<talk, at[q], pc[q], left[q]>>
          /\ (sem'[r] = q) <=> (sem[r] = q)
          /\ (sem'[w] = q) <=> (sem[w] = q)
      BY <2>0, <2>1, <2>2, <3>1
    <3>. QED BY <2>4, <3>2, <3>3 DEF Inside
  <2>6. CASE BeginRead(p)
    <3>1. /\ pc[p] \in {"idle", "told"} /\ Theirs(p) /\ Wanted(p) <= Size /\ sem[r] = "nobody"
          /\ sem' = [sem EXCEPT ![r] = p] /\ pc' = [pc EXCEPT ![p] = "read"]
          /\ left' = [left EXCEPT ![p] = Wanted(p)] /\ at' = at
      BY <2>6 DEF BeginRead, r
    <3>2. InsideAs(p)'
      BY <2>0, <2>1, <2>2, <2>3, <3>1 DEF InsideAs, Theirs, Wanted, Over, w, r
    <3>3. \A q \in Sides \ {p} :
          /\ UNCHANGED <<talk, at[q], pc[q], left[q]>>
          /\ (sem'[r] = q) <=> (sem[r] = q)
          /\ (sem'[w] = q) <=> (sem[w] = q)
      BY <2>0, <2>1, <2>2, <3>1
    <3>. QED BY <2>4, <3>2, <3>3 DEF Inside
  <2>7. CASE WrapWrite(p) \/ WrapRead(p)
    BY <2>2, <2>7 DEF WrapWrite, WrapRead, sideVars, Inside, InsideAs, Mine, Theirs, Wanted, Over
  <2>8. CASE WriteByte(p) \/ ReadByte(p)
    <3>1. UNCHANGED <<at, pc, sem>> /\ left' = [left EXCEPT ![p] = left[p] - 1]
      BY <2>8 DEF WriteByte, ReadByte
    <3>2. InsideAs(p)'
      BY <2>1, <2>2, <2>3, <3>1 DEF InsideAs, Mine, Theirs, Wanted, Over
    <3>. QED BY <2>1, <2>2, <2>4, <3>1, <3>2 DEF Inside
  <2>9. CASE Look(p)
    <3>1. /\ pc[p] = "idle" /\ Theirs(p) /\ Wanted(p) <= Size /\ pc' = [pc EXCEPT ![p] = "told"]
          /\ UNCHANGED <<at, left, sem>>
      BY <2>9 DEF Look, ringVars
    <3>2. InsideAs(p)'
      BY <2>1, <2>2, <3>1 DEF InsideAs, Theirs, Wanted, Over
    <3>. QED BY <2>1, <2>2, <2>4, <3>1, <3>2 DEF Inside
  <2>10. CASE EndWrite(p) \/ EndRead(p)
    <3>1. PICK s \in {w, r} : /\ sem' = [sem EXCEPT ![s] = "nobody"] /\ pc' = [pc EXCEPT ![p] = "idle"]
                              /\ at' = [at EXCEPT ![p] = @ + 1] /\ left' = left
                              /\ sem[s] = p
      BY <2>2, <2>10 DEF EndWrite, EndRead, Finish, InsideAs, w, r
    <3>2. sem[w] # p \/ sem[r] # p
      BY <2>2 DEF InsideAs, w, r
    <3>3. InsideAs(p)'
      BY <2>0, <2>1, <2>2, <3>1, <3>2 DEF InsideAs, w, r
    <3>4. \A q \in Sides \ {p} :
          /\ UNCHANGED <<talk, at[q], pc[q], left[q]>>
          /\ (sem'[r] = q) <=> (sem[r] = q)
          /\ (sem'[w] = q) <=> (sem[w] = q)
      BY <2>0, <2>1, <2>2, <3>1
    <3>. QED BY <2>4, <3>3, <3>4 DEF Inside
  <2>11. CASE Refuse(p)
    <3>1. pc[p] = "idle" /\ at' = [at EXCEPT ![p] = @ + 1] /\ UNCHANGED <<pc, left, sem>>
      BY <2>11 DEF Refuse, ringVars
    <3>2. InsideAs(p)'
      BY <2>1, <2>2, <3>1 DEF InsideAs
    <3>. QED BY <2>1, <2>2, <2>4, <3>1, <3>2 DEF Inside
  <2>. QED BY <1>1, <2>5, <2>6, <2>7, <2>8, <2>9, <2>10, <2>11 DEF Step
<1>2. CASE UNCHANGED vars
  BY <1>0, <1>2 DEF vars, sideVars, ringVars, Inside, InsideAs, Mine, Theirs, Wanted, Over
<1>. QED BY <1>1, <1>2 DEF Next

LEMMA RingTypes ==
  ASSUME TypeOK, NEW r \in Rings
  PROVE  /\ read[r] \in 0 .. Size + 1 /\ write[r] \in 0 .. Size + 1
         /\ said[r] \in Nat /\ Len(heard[r]) \in Nat
         /\ left[Writer(r)] \in 0 .. Size /\ left[Reader(r)] \in 0 .. Size
<1>1. Writer(r) \in Sides /\ Reader(r) \in Sides
  BY RingFacts
<1>2. heard[r] \in Seq(Int)
  BY DEF TypeOK
<1>. QED BY <1>1, <1>2 DEF TypeOK

(* A ring in which nothing is moved and nobody enters keeps its offsets. *)
LEMMA OffsetsStay ==
  ASSUME NEW r \in Rings, OffsetsOf(r),
         UNCHANGED <<read[r], write[r], said[r], heard[r]>>,
         pc'[Writer(r)] = "write" <=> pc[Writer(r)] = "write",
         pc[Writer(r)] = "write" => left'[Writer(r)] = left[Writer(r)],
         pc'[Reader(r)] = "read" => pc[Reader(r)] = "read" /\ left'[Reader(r)] = left[Reader(r)]
  PROVE  OffsetsOf(r)'
BY DEF OffsetsOf, Unread

LEMMA WriteOffsets ==
  ASSUME RingInv, NEW p \in Sides, NEW w \in Rings, w = Entry(p).write,
         BeginWrite(p) \/ WrapWrite(p) \/ WriteByte(p) \/ EndWrite(p)
  PROVE  OffsetsOf(w)'
<1>. DEFINE q == Reader(w)
<1>0. p = Writer(w) /\ q \in Sides /\ q # p
  BY RingFacts
<1>1. /\ OffsetsOf(w) /\ Size \in Nat
      /\ read[w] \in 0 .. Size + 1 /\ write[w] \in 0 .. Size + 1
      /\ said[w] \in Nat /\ Len(heard[w]) \in Nat /\ left[p] \in 0 .. Size /\ left[q] \in 0 .. Size
  BY <1>0, RingTypes, SizeAssumption DEF RingInv, Offsets
<1>2. /\ pc \in [Sides -> {"idle", "write", "told", "read"}] /\ left \in [Sides -> Int]
      /\ write \in [Rings -> Int] /\ said \in [Rings -> Int]
  BY DEF RingInv, TypeOK
<1>3. UNCHANGED <<read, heard>>
  BY DEF BeginWrite, WrapWrite, WriteByte, EndWrite, Finish
<1>8. /\ Unread(w) \in Int /\ 0 <= Unread(w) /\ Unread(w) <= Size
      /\ write[w] - read[w] = Unread(w) \/ write[w] - read[w] = Unread(w) - (Size + 1)
      /\ Unread(w) = said[w] - Len(heard[w])
  BY <1>1 DEF OffsetsOf, Unread
<1>. HIDE DEF q
<1>4. CASE BeginWrite(p)
  <2>1. /\ Wanted(p) <= Size /\ HasRoom(w, Wanted(p)) /\ Wanted(p) \in Nat
        /\ pc'[p] = "write" /\ left'[p] = Wanted(p) /\ UNCHANGED <<write, said, pc[q], left[q]>>
    BY <1>0, <1>2, <1>4, TalkFacts DEF RingInv, BeginWrite, Mine
  <2>2. Wanted(p) + Unread(w) <= Size
    BY <1>1, <1>8, <2>1 DEF HasRoom
  <2>3. Wanted(p) > 0
    BY <1>4, TalkFacts DEF RingInv, BeginWrite, Mine
  <2>. QED BY <1>0, <1>1, <1>3, <2>1, <2>2, <2>3 DEF OffsetsOf, Unread, q
<1>5. CASE WrapWrite(p)
  <2>1. /\ pc[p] = "write" /\ left[p] > 0 /\ write[w] > Size /\ write'[w] = 0
        /\ UNCHANGED <<said, pc, left>>
    BY <1>2, <1>5 DEF WrapWrite, sideVars
  <2>2. write[w] = Size + 1 /\ Unread(w) < Size /\ Unread(w)' = Unread(w)
    BY <1>0, <1>1, <1>3, <1>8, <2>1 DEF OffsetsOf, Unread
  <2>3. write'[w] - read'[w] = Unread(w) - (Size + 1)
    BY <1>1, <1>3, <1>8, <2>1, <2>2
  <2>. QED BY <1>0, <1>1, <1>3, <2>1, <2>2, <2>3 DEF OffsetsOf, q
<1>6. CASE WriteByte(p)
  <2>1. /\ pc[p] = "write" /\ left[p] > 0 /\ write'[w] = write[w] + 1 /\ said'[w] = said[w] + 1
        /\ left'[p] = left[p] - 1 /\ left'[q] = left[q] /\ pc' = pc
    BY <1>0, <1>2, <1>6 DEF WriteByte
  <2>2. Unread(w)' = Unread(w) + 1
    <3>1. said'[w] = said[w] + 1 /\ heard' = heard /\ said[w] \in Nat /\ Len(heard[w]) \in Nat
      BY <1>1, <1>3, <2>1
    <3>. QED BY <3>1 DEF Unread
  <2>3. left[p] + Unread(w) <= Size
    BY <1>0, <1>1, <2>1 DEF OffsetsOf
  <2>4. write'[w] - read'[w] = write[w] - read[w] + 1 /\ write'[w] # 0
    BY <1>1, <1>3, <2>1
  <2>5. /\ Unread(w)' \in 0 .. Size
        /\ write'[w] - read'[w] \in {Unread(w)', Unread(w)' - (Size + 1)}
        /\ left'[p] + Unread(w)' <= Size
    <3>1. /\ left[p] \in Nat /\ left'[p] = left[p] - 1 /\ left[p] > 0 /\ Size \in Nat
          /\ write[w] \in Int /\ read[w] \in Int /\ write'[w] = write[w] + 1 /\ read' = read
      BY <1>1, <1>3, <2>1
    <3>. QED BY <1>8, <2>2, <2>3, <2>4, <3>1
  <2>6. pc'[q] = "read" => left'[q] <= Unread(w)'
    BY <1>1, <1>8, <2>1, <2>2 DEF OffsetsOf, q
  <2>. QED BY <1>0, <2>4, <2>5, <2>6 DEF OffsetsOf, q
<1>7. CASE EndWrite(p)
  <2>1. /\ pc[p] = "write" /\ left[p] = 0 /\ pc'[p] = "idle" /\ pc'[q] = pc[q]
        /\ UNCHANGED <<write, said, left>>
    BY <1>0, <1>2, <1>7 DEF EndWrite, Finish
  <2>. QED BY <1>0, <1>1, <1>3, <2>1 DEF OffsetsOf, Unread, q
<1>. QED BY <1>4, <1>5, <1>6, <1>7

LEMMA ReadOffsets ==
  ASSUME RingInv, NEW p \in Sides, NEW r \in Rings, r = Entry(p).read,
         BeginRead(p) \/ WrapRead(p) \/ ReadByte(p)
  PROVE  OffsetsOf(r)'
<1>. DEFINE q == Writer(r)
<1>0. p = Reader(r) /\ q \in Sides /\ q # p
  BY RingFacts
<1>1. /\ OffsetsOf(r) /\ Size \in Nat
      /\ read[r] \in 0 .. Size + 1 /\ write[r] \in 0 .. Size + 1
      /\ said[r] \in Nat /\ Len(heard[r]) \in Nat /\ left[p] \in 0 .. Size /\ left[q] \in 0 .. Size
  BY <1>0, RingTypes, SizeAssumption DEF RingInv, Offsets
<1>2. /\ pc \in [Sides -> {"idle", "write", "told", "read"}] /\ left \in [Sides -> Int]
      /\ read \in [Rings -> Int] /\ heard \in [Rings -> Seq(Int)]
  BY DEF RingInv, TypeOK
<1>3. UNCHANGED <<write, said>>
  BY DEF BeginRead, WrapRead, ReadByte
<1>8. /\ Unread(r) \in Int /\ 0 <= Unread(r) /\ Unread(r) <= Size
      /\ write[r] - read[r] = Unread(r) \/ write[r] - read[r] = Unread(r) - (Size + 1)
      /\ Unread(r) = said[r] - Len(heard[r])
  BY <1>1 DEF OffsetsOf, Unread
<1>. HIDE DEF q
<1>4. CASE BeginRead(p)
  <2>1. /\ Wanted(p) <= Size /\ HasBytes(r, Wanted(p)) /\ Wanted(p) \in Nat
        /\ pc'[p] = "read" /\ left'[p] = Wanted(p) /\ UNCHANGED <<read, heard, pc[q], left[q]>>
    BY <1>0, <1>2, <1>4, TalkFacts DEF RingInv, BeginRead, Theirs
  <2>2. Wanted(p) <= Unread(r)
    BY <1>1, <1>8, <2>1 DEF HasBytes
  <2>. QED BY <1>0, <1>1, <1>3, <2>1, <2>2 DEF OffsetsOf, Unread, q
<1>5. CASE WrapRead(p)
  <2>1. /\ pc[p] = "read" /\ left[p] > 0 /\ read[r] > Size /\ read'[r] = 0
        /\ UNCHANGED <<heard, pc, left>>
    BY <1>2, <1>5 DEF WrapRead, sideVars
  <2>2. read[r] = Size + 1 /\ Unread(r) > 0 /\ Unread(r)' = Unread(r)
    BY <1>0, <1>1, <1>3, <1>8, <2>1 DEF OffsetsOf, Unread
  <2>3. write'[r] - read'[r] = Unread(r) /\ write[r] # 0
    BY <1>1, <1>3, <1>8, <2>1, <2>2
  <2>. QED BY <1>0, <1>1, <1>3, <2>1, <2>2, <2>3 DEF OffsetsOf, q
<1>6. CASE ReadByte(p)
  <2>1. /\ pc[p] = "read" /\ left[p] > 0 /\ read'[r] = read[r] + 1
        /\ left'[p] = left[p] - 1 /\ left'[q] = left[q] /\ pc' = pc
        /\ heard'[r] = Append(heard[r], mem[Base(r) + read[r]])
    BY <1>0, <1>2, <1>6 DEF ReadByte
  <2>2. Len(heard'[r]) = Len(heard[r]) + 1
    BY <1>2, <2>1
  <2>3. Unread(r) > 0 /\ left'[p] <= Unread(r) - 1
    BY <1>0, <1>1, <1>8, <2>1 DEF OffsetsOf
  <2>4. Unread(r)' = Unread(r) - 1 /\ said[r] # 0
    BY <1>1, <1>3, <1>8, <2>2, <2>3 DEF Unread
  <2>5. write'[r] - read'[r] = write[r] - read[r] - 1
    BY <1>1, <1>3, <2>1
  <2>6. /\ Unread(r)' \in 0 .. Size
        /\ write'[r] - read'[r] \in {Unread(r)', Unread(r)' - (Size + 1)}
    BY <1>1, <1>8, <2>3, <2>4, <2>5
  <2>7. write'[r] = 0 => pc'[q] = "write" /\ left'[q] > 0
    BY <1>1, <1>3, <2>1, <2>4 DEF OffsetsOf, q
  <2>8. pc'[q] = "write" => left'[q] + Unread(r)' <= Size
    BY <1>1, <1>8, <2>1, <2>4 DEF OffsetsOf, q
  <2>. QED BY <1>0, <2>3, <2>4, <2>6, <2>7, <2>8 DEF OffsetsOf, q
<1>. QED BY <1>4, <1>5, <1>6

LEMMA OffsetsStep == RingInv /\ [Next]_vars => Offsets'
<1>. SUFFICES ASSUME RingInv, [Next]_vars PROVE Offsets'
  OBVIOUS
<1>0. \A r \in Rings : OffsetsOf(r)
  BY DEF RingInv, Offsets
<1>1. ASSUME NEW p \in Sides, Step(p), NEW s \in Rings PROVE OffsetsOf(s)'
  <2>. DEFINE w == Entry(p).write
              r == Entry(p).read
  <2>0. /\ pc \in [Sides -> {"idle", "write", "told", "read"}] /\ left \in [Sides -> Int]
        /\ read \in [Rings -> Int] /\ write \in [Rings -> Int]
        /\ said \in [Rings -> Int] /\ heard \in [Rings -> Seq(Int)]
    BY DEF RingInv, TypeOK
  <2>1. r \in Rings /\ w \in Rings /\ r # w /\ (s = r \/ s = w)
    BY RingFacts
  <2>2. /\ s = w => Writer(s) = p /\ Reader(s) \in Sides \ {p}
        /\ s = r => Reader(s) = p /\ Writer(s) \in Sides \ {p}
    BY RingFacts
  <2>3. CASE BeginWrite(p) \/ WrapWrite(p) \/ WriteByte(p) \/ EndWrite(p)
    <3>1. CASE s = w
      BY <2>1, <2>3, <3>1, WriteOffsets
    <3>2. CASE s = r
      <4>1. /\ UNCHANGED <<read[s], write[s], said[s], heard[s], pc[Writer(s)], left[Writer(s)]>>
            /\ pc'[p] # "read"
        BY <2>0, <2>1, <2>2, <2>3, <3>2 DEF BeginWrite, WrapWrite, WriteByte, EndWrite, Finish, sideVars
      <4>. QED BY <1>0, <2>2, <3>2, <4>1, OffsetsStay
    <3>. QED BY <2>1, <3>1, <3>2
  <2>4. CASE BeginRead(p) \/ WrapRead(p) \/ ReadByte(p)
    <3>1. CASE s = r
      BY <2>1, <2>4, <3>1, ReadOffsets
    <3>2. CASE s = w
      <4>1. /\ UNCHANGED <<read[s], write[s], said[s], heard[s], pc[Reader(s)], left[Reader(s)]>>
            /\ pc[p] # "write" /\ pc'[p] # "write"
        BY <2>0, <2>1, <2>2, <2>4, <3>2 DEF BeginRead, WrapRead, ReadByte, sideVars
      <4>. QED BY <1>0, <2>2, <3>2, <4>1, OffsetsStay
    <3>. QED BY <2>1, <3>1, <3>2
  <2>5. CASE EndRead(p) \/ Look(p) \/ Refuse(p)
    <3>1. /\ UNCHANGED <<read, write, said, heard, left>>
          /\ \/ pc[p] # "write" /\ pc'[p] \notin {"write", "read"}
             \/ pc' = pc
          /\ \A q \in Sides \ {p} : pc'[q] = pc[q]
      BY <2>0, <2>5 DEF EndRead, Finish, Look, Refuse, ringVars
    <3>. QED BY <1>0, <2>1, <2>2, <3>1, OffsetsStay
  <2>. QED BY <1>1, <2>3, <2>4, <2>5 DEF Step
<1>2. CASE UNCHANGED vars
  BY <1>0, <1>2, OffsetsStay DEF vars, sideVars, ringVars, Offsets
<1>. QED BY <1>1, <1>2 DEF Next, Offsets

-----------------------------------------------------------------------------
(***************************************************************************)
(* The conversation                                                        *)
(***************************************************************************)
LEMMA FurthestFacts ==
  ASSUME TypeOK
  PROVE  /\ Furthest \in Nat /\ Furthest >= 1
         /\ \A p \in Sides : at[p] \in 1 .. Furthest
         /\ \E p \in Sides : at[p] = Furthest
BY TalkFacts DEF Furthest, Sides

LEMMA AddsFacts ==
  ASSUME TypeOK, NEW r \in Rings, NEW k \in 1 .. Len(talk)
  PROVE  Adds(r, k) \in Nat
BY TalkFacts DEF Adds

LEMMA MarksExtend ==
  ASSUME NEW r, NEW mark, NEW last \in Nat, last >= 1, Marks(r, mark, last), Adds(r, last) \in Nat
  PROVE  Marks(r, [mark EXCEPT ![last + 1] = mark[last] + Adds(r, last)], last + 1)
<1>. DEFINE more == [mark EXCEPT ![last + 1] = mark[last] + Adds(r, last)]
<1>1. /\ more \in [Nat -> Nat] /\ more[last + 1] = mark[last] + Adds(r, last)
      /\ \A k \in 1 .. last : more[k] = mark[k]
  BY DEF Marks
<1>. HIDE DEF more
<1>2. \A k \in 1 .. last : more[k + 1] = more[k] + Adds(r, k)
  BY <1>1 DEF Marks
<1>3. ASSUME NEW i \in 1 .. last + 1, NEW k \in 1 .. last + 1, i <= k
      PROVE  /\ more[i] <= more[k]
             /\ (\A m \in i .. k - 1 : Adds(r, m) = 0) => more[i] = more[k]
  <2>1. CASE k <= last
    BY <1>1, <1>3, <2>1 DEF Marks
  <2>2. CASE k = last + 1 /\ i = last + 1
    BY <1>1, <2>2
  <2>3. CASE k = last + 1 /\ i <= last
    <3>1. /\ mark[i] <= mark[last] /\ mark[i] \in Nat /\ mark[last] \in Nat
          /\ (\A m \in i .. last - 1 : Adds(r, m) = 0) => mark[i] = mark[last]
      BY <2>3 DEF Marks
    <3>2. more[i] = mark[i] /\ more[k] = mark[last] + Adds(r, last)
      BY <1>1, <2>3
    <3>3. last \in i .. k - 1 /\ i .. last - 1 \subseteq i .. k - 1
      BY <2>3
    <3>. QED BY <3>1, <3>2, <3>3
  <2>. QED BY <1>3, <2>1, <2>2, <2>3
<1>. QED BY <1>1, <1>2, <1>3 DEF Marks, more

(* When a side goes on to its next message the marks reach as far as it does. *)
LEMMA MarksAdvance ==
  ASSUME TypeOK, NEW p \in Sides, NEW r \in Rings, NEW mark, Marks(r, mark, Furthest),
         ~ Over(p), talk' = talk, at' = [at EXCEPT ![p] = @ + 1]
  PROVE  \E more : /\ Marks(r, more, Furthest)'
                   /\ \A q \in Sides : more[at[q]] = mark[at[q]]
                   /\ more[at[p] + 1] = mark[at[p]] + Adds(r, at[p])
<1>1. at[p] \in 1 .. Len(talk) /\ Adds(r, at[p]) \in Nat
  BY TalkFacts, AddsFacts
<1>2. at \in [Sides -> Nat] /\ Len(talk) \in Nat
  BY TalkFacts DEF TypeOK
<1>4. CASE at[p] = Furthest
  <2>0. PICK more : more = [mark EXCEPT ![Furthest + 1] = mark[Furthest] + Adds(r, Furthest)]
    OBVIOUS
  <2>1. Furthest' = Furthest + 1
    BY <1>2, <1>4, FurthestFacts DEF Furthest, Sides
  <2>2. Marks(r, more, Furthest + 1)
    BY <1>1, <1>4, <2>0, FurthestFacts, MarksExtend
  <2>3. \A q \in Sides : at[q] \in Nat /\ at[q] # Furthest + 1
    BY FurthestFacts
  <2>4. \A q \in Sides : more[at[q]] = mark[at[q]]
    BY <2>0, <2>3, FurthestFacts DEF Marks
  <2>5. more[at[p] + 1] = mark[at[p]] + Adds(r, at[p])
    BY <1>4, <2>0, FurthestFacts DEF Marks
  <2>6. Marks(r, more, Furthest)'
    BY <2>1, <2>2 DEF Marks, Adds, Refused
  <2>. QED BY <2>4, <2>5, <2>6
<1>5. CASE at[p] # Furthest
  <2>1. at[p] \in 1 .. Furthest - 1 /\ Furthest' = Furthest
    BY <1>2, <1>5, FurthestFacts DEF Furthest, Sides
  <2>2. Marks(r, mark, Furthest)'
    BY <2>1 DEF Marks, Adds, Refused
  <2>3. mark[at[p] + 1] = mark[at[p]] + Adds(r, at[p])
    BY <2>1 DEF Marks
  <2>. QED BY <2>2, <2>3
<1>. QED BY <1>4, <1>5

(* A side that is at a message of its own has not been passed by the other. *)
LEMMA NotPassed ==
  ASSUME RingInv, NEW p \in Sides, NEW q \in Sides \ {p}, Mine(p), Wanted(p) <= Size
  PROVE  at[q] <= at[p]
<1>1. at[p] \in 1 .. Len(talk) /\ at[q] \in Nat /\ Wanted(p) \in Nat
  BY TalkFacts DEF RingInv, Mine
<1>2. ~ (talk[at[p]].from = q \/ Refused(at[p]))
  BY <1>1, SizeAssumption DEF Mine, Wanted, Refused
<1>3. at[p] \notin at[p] .. at[q] - 1
  BY <1>2 DEF RingInv, InTurn
<1>. QED BY <1>1, <1>3

(* While one side writes, all that came before from the other has been read, and
   the other is not writing. *)
LEMMA OneSpeaks ==
  ASSUME RingInv, NEW p \in Sides, NEW q \in Sides \ {p}, pc[p] = "write"
  PROVE  Unread(Entry(p).read) = 0 /\ pc[q] # "write"
<1>. DEFINE r == Entry(p).read
<1>0. r \in Rings /\ Writer(r) = q /\ Reader(r) = p
  BY RingFacts
<1>1. TypeOK /\ InsideAs(p) /\ InsideAs(q)
  BY DEF RingInv, Inside
<1>2. Mine(p) /\ Wanted(p) <= Size
  BY <1>1 DEF InsideAs
<1>3. at[q] <= at[p] /\ at[p] \in 1 .. Len(talk) /\ at[q] \in 1 .. Len(talk)
  BY <1>1, <1>2, NotPassed, TalkFacts DEF Mine
<1>4. \A m \in at[q] .. at[p] - 1 : talk[m].from = p \/ Refused(m)
  BY DEF RingInv, InTurn
<1>5. talk[at[p]].from = p /\ (talk[at[q]].from = p \/ Refused(at[q]))
  <2>1. CASE at[q] = at[p]
    BY <1>2, <2>1 DEF Mine
  <2>2. CASE at[q] < at[p]
    BY <1>2, <1>3, <1>4, <2>2 DEF Mine
  <2>. QED BY <1>3, <2>1, <2>2
<1>6. pc[q] # "write"
  BY <1>1, <1>3, <1>5, TalkFacts, SizeAssumption DEF InsideAs, Mine, Wanted, Refused
<1>7. PICK mark : Marks(r, mark, Furthest) /\ Counts(r, mark)
  BY <1>0 DEF RingInv, Accounts
<1>8. mark[at[q]] = mark[at[p]]
  <2>1. \A m \in at[q] .. at[p] - 1 : Adds(r, m) = 0
    BY <1>0, <1>4 DEF Adds
  <2>2. at[q] \in 1 .. Furthest /\ at[p] \in 1 .. Furthest
    BY <1>1, FurthestFacts
  <2>. QED BY <1>3, <1>7, <2>1, <2>2 DEF Marks
<1>9. mark[at[p]] \in Nat
  BY <1>3, <1>7 DEF Marks
<1>. QED BY <1>0, <1>6, <1>7, <1>8, <1>9 DEF Counts, Written, Taken, Unread

(* Who has read a message to its end does so after its writer's end. *)
LEMMA ReadIsWritten ==
  ASSUME RingInv, NEW q \in Sides, NEW p \in Sides \ {q}, pc[q] = "read", left[q] = 0
  PROVE  at[p] > at[q]
<1>. SUFFICES ASSUME ~ (at[p] > at[q]) PROVE FALSE
  OBVIOUS
<1>. DEFINE r == Entry(q).read
<1>0. r \in Rings /\ Writer(r) = p /\ Reader(r) = q /\ Entry(p).write = r
  BY RingFacts
<1>1. TypeOK /\ InsideAs(p) /\ InsideAs(q) /\ OffsetsOf(r)
  BY <1>0 DEF RingInv, Inside, Offsets
<1>2. Theirs(q) /\ Wanted(q) <= Size /\ Wanted(q) \in Nat /\ Wanted(q) > 0 /\ sem[r] = q
  BY <1>1, TalkFacts DEF InsideAs, Theirs
<1>3. at[p] <= at[q] /\ at[q] \in 1 .. Len(talk) /\ at[p] \in 1 .. Len(talk)
  BY <1>1, <1>2, TalkFacts DEF Theirs
<1>4. \A m \in at[p] .. at[q] - 1 : talk[m].from = q \/ Refused(m)
  BY DEF RingInv, InTurn
<1>5. pc[p] # "write"
  <2>. SUFFICES ASSUME pc[p] = "write" PROVE FALSE
    OBVIOUS
  <2>1. sem[r] = p
    BY <1>0, <1>1 DEF InsideAs
  <2>. QED BY <1>2, <2>1
<1>6. PICK mark : Marks(r, mark, Furthest) /\ Counts(r, mark)
  BY <1>0 DEF RingInv, Accounts
<1>7. mark[at[p]] = mark[at[q]]
  <2>1. \A m \in at[p] .. at[q] - 1 : Adds(r, m) = 0
    BY <1>0, <1>4 DEF Adds
  <2>2. at[q] \in 1 .. Furthest /\ at[p] \in 1 .. Furthest
    BY <1>1, FurthestFacts
  <2>. QED BY <1>3, <1>6, <2>1, <2>2 DEF Marks
<1>8. mark[at[q]] \in Nat
  BY <1>3, <1>6 DEF Marks
<1>9. Unread(r) < 0
  BY <1>0, <1>2, <1>5, <1>6, <1>7, <1>8 DEF Counts, Written, Taken, Unread
<1>. QED BY <1>1, <1>9, SizeAssumption DEF OffsetsOf

LEMMA InTurnStep == RingInv /\ [Next]_vars => InTurn'
<1>. SUFFICES ASSUME RingInv, [Next]_vars PROVE InTurn'
  OBVIOUS
<1>0. InTurn /\ TypeOK
  BY DEF RingInv
<1>1. CASE UNCHANGED <<talk, at>>
  BY <1>0, <1>1 DEF InTurn, Refused
<1>2. ASSUME NEW p \in Sides, EndWrite(p) \/ EndRead(p) \/ Refuse(p) PROVE InTurn'
  <2>1. talk' = talk /\ at' = [at EXCEPT ![p] = @ + 1] /\ at \in [Sides -> Nat]
    BY <1>0, <1>2, TalkFacts DEF EndWrite, EndRead, Refuse, Finish, TypeOK
  <2>2. ASSUME NEW q \in Sides \ {p}, at[q] <= at[p]
        PROVE  talk[at[p]].from = p \/ Refused(at[p])
    <3>1. CASE EndWrite(p)
      BY <3>1 DEF EndWrite, RingInv, Inside, InsideAs, Mine
    <3>2. CASE EndRead(p)
      BY <2>1, <2>2, <3>2, ReadIsWritten DEF EndRead, Finish
    <3>3. CASE Refuse(p)
      BY <3>3 DEF Refuse, Wanted, Refused
    <3>. QED BY <1>2, <3>1, <3>2, <3>3
  <2>3. ASSUME NEW a \in Sides, NEW b \in Sides, a # b, NEW k \in at'[a] .. at'[b] - 1
        PROVE  talk[k].from = b \/ Refused(k)
    <3>1. CASE a = p
      BY <1>0, <2>1, <2>3, <3>1 DEF InTurn
    <3>2. CASE b = p /\ k = at[p]
      BY <2>1, <2>2, <2>3, <3>2
    <3>3. CASE b = p /\ k # at[p]
      BY <1>0, <2>1, <2>3, <3>3 DEF InTurn
    <3>. QED BY <2>3, <3>1, <3>2, <3>3 DEF Sides
  <2>. QED BY <2>1, <2>3 DEF InTurn, Refused
<1>. QED BY <1>1, <1>2
  DEF Next, Step, BeginWrite, WrapWrite, WriteByte, Look, BeginRead, WrapRead, ReadByte, sideVars, vars

(* The end of a message adds its size to what was carried before the next. *)
LEMMA AccountsAdvance ==
  ASSUME RingInv, NEW p \in Sides, EndWrite(p) \/ EndRead(p) \/ Refuse(p), NEW r \in Rings
  PROVE  \E mark : (Marks(r, mark, Furthest) /\ Counts(r, mark))'
<1>0. TypeOK /\ InsideAs(p)
  BY DEF RingInv, Inside
<1>1. /\ talk' = talk /\ at' = [at EXCEPT ![p] = @ + 1] /\ UNCHANGED <<left, said, heard>>
      /\ pc'[p] = "idle" /\ \A q \in Sides \ {p} : pc'[q] = pc[q]
  BY <1>0 DEF EndWrite, EndRead, Refuse, Finish, TypeOK, ringVars
<1>2. ~ Over(p) /\ at[p] \in 1 .. Len(talk) /\ talk[at[p]].from \in Sides /\ Wanted(p) \in Nat
  BY <1>0, TalkFacts DEF EndWrite, EndRead, Refuse, InsideAs, Mine, Theirs
<1>3. Writer(r) \in Sides /\ Reader(r) \in Sides /\ Writer(r) # Reader(r) /\ Sides = {Writer(r), Reader(r)}
  BY RingFacts
<1>4. PICK mark : Marks(r, mark, Furthest) /\ Counts(r, mark)
  BY DEF RingInv, Accounts
<1>5. PICK more : /\ Marks(r, more, Furthest)'
                  /\ \A q \in Sides : more[at[q]] = mark[at[q]]
                  /\ more[at[p] + 1] = mark[at[p]] + Adds(r, at[p])
  BY <1>0, <1>1, <1>2, <1>4, MarksAdvance
<1>6. at \in [Sides -> Nat] /\ \A q \in Sides : mark[at[q]] \in Nat
  BY <1>0, <1>4, TalkFacts DEF Marks, TypeOK
<1>7. \A q \in Sides \ {p} : at'[q] = at[q]
  BY <1>1, <1>6
<1>8. at'[p] = at[p] + 1
  BY <1>1, <1>6
<1>11. \/ pc[p] = "write" /\ left[p] = 0 /\ talk[at[p]].from = p /\ ~ Refused(at[p])
       \/ pc[p] = "read" /\ left[p] = 0 /\ talk[at[p]].from # p /\ ~ Refused(at[p])
       \/ pc[p] = "idle" /\ Refused(at[p])
  <2>1. CASE EndWrite(p)
    BY <1>0, <1>2, <2>1, SizeAssumption DEF EndWrite, Finish, InsideAs, Mine, Wanted, Refused
  <2>2. CASE EndRead(p)
    BY <1>0, <1>2, <2>2, SizeAssumption DEF EndRead, Finish, InsideAs, Theirs, Wanted, Refused
  <2>3. CASE Refuse(p)
    BY <2>3 DEF Refuse, Wanted, Refused
  <2>. QED BY <2>1, <2>2, <2>3
<1>12. Wanted(p) = talk[at[p]].size
  BY DEF Wanted
<1>9. CASE p = Writer(r)
  <2>1. Adds(r, at[p]) = Written(r)
    BY <1>2, <1>9, <1>11, <1>12 DEF Adds, Written
  <2>3. Written(r)' = 0
    BY <1>1, <1>9 DEF Written
  <2>2. Taken(r)' = Taken(r)
    BY <1>1, <1>3, <1>7, <1>9 DEF Taken, Wanted
  <2>4. more[at'[Writer(r)]] = said[r] /\ more[at'[Reader(r)]] = mark[at[Reader(r)]]
    BY <1>3, <1>4, <1>5, <1>7, <1>8, <1>9, <2>1 DEF Counts
  <2>5. said[r] \in Nat
    BY <1>0 DEF TypeOK
  <2>. QED BY <1>1, <1>4, <1>5, <2>2, <2>3, <2>4, <2>5 DEF Counts
<1>10. CASE p = Reader(r)
  <2>1. Adds(r, at[p]) = Taken(r)
    BY <1>2, <1>3, <1>10, <1>11, <1>12 DEF Adds, Taken
  <2>3. Taken(r)' = 0
    BY <1>1, <1>10 DEF Taken
  <2>2. Written(r)' = Written(r)
    BY <1>1, <1>3, <1>7, <1>10 DEF Written, Wanted
  <2>4. more[at'[Reader(r)]] = Len(heard[r]) /\ more[at'[Writer(r)]] = mark[at[Writer(r)]]
    BY <1>3, <1>4, <1>5, <1>7, <1>8, <1>10, <2>1 DEF Counts
  <2>5. Len(heard[r]) \in Nat
    BY <1>0, RingTypes
  <2>. QED BY <1>1, <1>4, <1>5, <2>2, <2>3, <2>4, <2>5 DEF Counts
<1>. QED BY <1>3, <1>9, <1>10

(* A count and its open part move together. *)
LEMMA Balance ==
  \A a, b, c, d, m \in Int : a - b = c - d /\ c = m + d => a = m + b
  OBVIOUS

LEMMA AccountsStep == RingInv /\ [Next]_vars => Accounts'
<1>. SUFFICES ASSUME RingInv, [Next]_vars, NEW r \in Rings
              PROVE  \E mark : (Marks(r, mark, Furthest) /\ Counts(r, mark))'
  BY DEF Accounts
<1>0. TypeOK /\ (\A p \in Sides : InsideAs(p)) /\ Offsets
  BY DEF RingInv, Inside
<1>1. ASSUME talk' = talk, at' = at,
             said'[r] - Written(r)' = said[r] - Written(r),
             Len(heard'[r]) - Taken(r)' = Len(heard[r]) - Taken(r),
             said'[r] \in Int, Written(r)' \in Int, Len(heard'[r]) \in Int, Taken(r)' \in Int
      PROVE  \E mark : (Marks(r, mark, Furthest) /\ Counts(r, mark))'
  <2>1. PICK mark : Marks(r, mark, Furthest) /\ Counts(r, mark)
    BY DEF RingInv, Accounts
  <2>2. Marks(r, mark, Furthest)'
    <3>1. Furthest' = Furthest
      BY <1>1 DEF Furthest
    <3>2. \A k : Adds(r, k)' = Adds(r, k)
      BY <1>1 DEF Adds, Refused
    <3>. QED BY <2>1, <3>1, <3>2 DEF Marks
  <2>3. Writer(r) \in Sides /\ Reader(r) \in Sides
    BY RingFacts
  <2>4. mark[at[Writer(r)]] \in Nat /\ mark[at[Reader(r)]] \in Nat
    BY <1>0, <2>1, <2>3, FurthestFacts DEF Marks
  <2>5. /\ said[r] \in Nat /\ Len(heard[r]) \in Nat
        /\ said[r] = mark[at[Writer(r)]] + Written(r)
        /\ Len(heard[r]) = mark[at[Reader(r)]] + Taken(r)
        /\ Written(r) \in Int /\ Taken(r) \in Int
    <3>1. \A p \in Sides : /\ pc[p] \in {"write", "read"} => Wanted(p) \in Nat
                          /\ left[p] \in Nat
      BY <1>0, TalkFacts DEF InsideAs, Mine, Theirs, TypeOK
    <3>. QED BY <1>0, <2>1, <2>3, <3>1, RingTypes DEF Counts, Written, Taken
  <2>6. Counts(r, mark)'
    <3>1. said'[r] = mark[at[Writer(r)]] + Written(r)'
      <4>1. said[r] \in Int /\ mark[at[Writer(r)]] \in Int
        BY <2>4, <2>5
      <4>. QED BY <1>1, <2>5, <4>1, Balance
    <3>2. Len(heard'[r]) = mark[at[Reader(r)]] + Taken(r)'
      <4>1. Len(heard[r]) \in Int /\ mark[at[Reader(r)]] \in Int
        BY <2>4, <2>5
      <4>. QED BY <1>1, <2>5, <4>1, Balance
    <3>. QED BY <1>1, <3>1, <3>2 DEF Counts
  <2>. QED BY <2>2, <2>6
<1>2. Writer(r) \in Sides /\ Reader(r) \in Sides /\ Writer(r) # Reader(r)
      /\ Entry(Writer(r)).write = r /\ Entry(Reader(r)).read = r
      /\ Entry(Writer(r)).read # r /\ Entry(Reader(r)).write # r
  BY RingFacts
<1>3. /\ pc \in [Sides -> {"idle", "write", "told", "read"}] /\ left \in [Sides -> Nat]
      /\ said \in [Rings -> Nat] /\ heard \in [Rings -> Seq(Int)]
  BY <1>0 DEF TypeOK
<1>4. \A p \in Sides : pc[p] \in {"write", "read"} => Wanted(p) \in Nat
  BY <1>0, TalkFacts DEF InsideAs, Mine, Theirs
<1>5. Written(r) \in Int /\ Taken(r) \in Int /\ Len(heard[r]) \in Nat
  <2>1. \A p \in Sides : left[p] \in Nat
    BY <1>3
  <2>2. Written(r) \in Int /\ Taken(r) \in Int
    BY <1>2, <1>4, <2>1 DEF Written, Taken
  <2>. QED BY <1>0, <2>2, RingTypes
<1>10. \A p \in Sides : p = Writer(r) \/ p = Reader(r)
  BY RingFacts
<1>6. ASSUME NEW p \in Sides, BeginWrite(p) \/ BeginRead(p) \/ Look(p) \/ WrapWrite(p) \/ WrapRead(p)
      PROVE  \E mark : (Marks(r, mark, Furthest) /\ Counts(r, mark))'
  <2>1. /\ UNCHANGED <<talk, at, said, heard>>
        /\ \/ /\ pc[p] \notin {"write", "read"}
              /\ \/ pc' = [pc EXCEPT ![p] = "write"] /\ left' = [left EXCEPT ![p] = Wanted(p)]
                 \/ pc' = [pc EXCEPT ![p] = "read"] /\ left' = [left EXCEPT ![p] = Wanted(p)]
                 \/ pc' = [pc EXCEPT ![p] = "told"] /\ left' = left
              /\ Wanted(p) \in Nat
           \/ UNCHANGED <<pc, left>>
    <3>1. CASE BeginWrite(p)
      BY <1>0, <3>1, TalkFacts DEF BeginWrite, Mine
    <3>2. CASE BeginRead(p)
      BY <1>0, <3>2, TalkFacts DEF BeginRead, Theirs
    <3>3. CASE Look(p)
      BY <1>0, <3>3, TalkFacts DEF Look, Theirs, ringVars
    <3>4. CASE WrapWrite(p) \/ WrapRead(p)
      BY <3>4 DEF WrapWrite, WrapRead, sideVars
    <3>. QED BY <1>6, <3>1, <3>2, <3>3, <3>4
  <2>2. Wanted(Writer(r))' = Wanted(Writer(r)) /\ Wanted(Reader(r))' = Wanted(Reader(r))
    BY <2>1 DEF Wanted
  <2>3. Written(r)' = Written(r)
    BY <1>2, <1>3, <2>1, <2>2 DEF Written
  <2>4. Taken(r)' = Taken(r)
    BY <1>2, <1>3, <2>1, <2>2 DEF Taken
  <2>. QED BY <1>1, <1>3, <1>5, <2>1, <2>3, <2>4
<1>7. ASSUME NEW p \in Sides, WriteByte(p)
      PROVE  \E mark : (Marks(r, mark, Furthest) /\ Counts(r, mark))'
  <2>1. /\ UNCHANGED <<talk, at, heard, pc>> /\ pc[p] = "write"
        /\ left' = [left EXCEPT ![p] = left[p] - 1]
        /\ said' = [said EXCEPT ![Entry(p).write] = said[Entry(p).write] + 1]
    BY <1>7 DEF WriteByte
  <2>2. Wanted(Writer(r))' = Wanted(Writer(r)) /\ Wanted(Reader(r))' = Wanted(Reader(r))
    BY <2>1 DEF Wanted
  <2>3. CASE p = Writer(r)
    <3>1. Written(r)' = Written(r) + 1
      <4>1. left'[p] = left[p] - 1 /\ left[p] \in Nat /\ Wanted(p) \in Nat
        BY <1>3, <1>4, <2>1
      <4>. QED BY <2>1, <2>2, <2>3, <4>1 DEF Written
    <3>2. Taken(r)' = Taken(r)
      BY <1>2, <1>3, <2>1, <2>2, <2>3 DEF Taken
    <3>3. said'[r] = said[r] + 1
      BY <1>2, <1>3, <2>1, <2>3
    <3>. QED BY <1>1, <1>3, <1>5, <2>1, <3>1, <3>2, <3>3
  <2>4. CASE p = Reader(r)
    <3>1. Written(r)' = Written(r) /\ Taken(r)' = 0 /\ Taken(r) = 0
      BY <1>2, <1>3, <2>1, <2>2, <2>4 DEF Written, Taken
    <3>2. said'[r] = said[r]
      BY <1>2, <1>3, <2>1, <2>4
    <3>. QED BY <1>1, <1>3, <1>5, <2>1, <3>1, <3>2
  <2>. QED BY <1>10, <2>3, <2>4
<1>8. ASSUME NEW p \in Sides, ReadByte(p)
      PROVE  \E mark : (Marks(r, mark, Furthest) /\ Counts(r, mark))'
  <2>1. /\ UNCHANGED <<talk, at, said, pc>> /\ pc[p] = "read"
        /\ left' = [left EXCEPT ![p] = left[p] - 1]
    BY <1>8 DEF ReadByte
  <2>2. Wanted(Writer(r))' = Wanted(Writer(r)) /\ Wanted(Reader(r))' = Wanted(Reader(r))
    BY <2>1 DEF Wanted
  <2>3. CASE p = Reader(r)
    <3>1. Taken(r)' = Taken(r) + 1
      <4>1. left'[p] = left[p] - 1 /\ left[p] \in Nat /\ Wanted(p) \in Nat
        BY <1>3, <1>4, <2>1
      <4>. QED BY <2>1, <2>2, <2>3, <4>1 DEF Taken
    <3>2. Written(r)' = Written(r)
      BY <1>2, <1>3, <2>1, <2>2, <2>3 DEF Written
    <3>3. heard'[r] = Append(heard[r], mem[Base(r) + read[r]])
      BY <1>2, <1>3, <1>8, <2>3 DEF ReadByte
    <3>4. Len(heard'[r]) = Len(heard[r]) + 1
      BY <1>3, <3>3
    <3>5. said'[r] \in Int
      BY <1>3, <2>1
    <3>. QED BY <1>1, <1>5, <2>1, <3>1, <3>2, <3>4, <3>5
  <2>4. CASE p = Writer(r)
    <3>1. Taken(r)' = Taken(r) /\ Written(r)' = 0 /\ Written(r) = 0
      BY <1>2, <1>3, <2>1, <2>2, <2>4 DEF Written, Taken
    <3>2. heard'[r] = heard[r]
      BY <1>2, <1>3, <1>8, <2>4, EntryFacts DEF ReadByte
    <3>. QED BY <1>1, <1>3, <1>5, <2>1, <3>1, <3>2
  <2>. QED BY <1>10, <2>3, <2>4
<1>9. CASE UNCHANGED vars
  <2>1. Written(r)' = Written(r) /\ Taken(r)' = Taken(r)
    BY <1>9 DEF vars, sideVars, Written, Taken, Wanted
  <2>. QED BY <1>1, <1>3, <1>5, <1>9, <2>1 DEF vars, sideVars, ringVars
<1>. QED BY <1>6, <1>7, <1>8, <1>9, AccountsAdvance DEF Next, Step

-----------------------------------------------------------------------------
(***************************************************************************)
(* The bytes                                                               *)
(***************************************************************************)
LEMMA PlaceFacts ==
  ASSUME NEW off \in 0 .. Size + 1, NEW i \in 1 .. Size + 1
  PROVE  /\ Place(off, i) \in 0 .. Size
         /\ \A k \in 1 .. Size + 1 : Place(off, i) = Place(off, k) => i = k
         /\ off <= Size /\ i <= Size => Place(off + 1, i) = Place(off, i + 1)
         /\ off = Size + 1 => Place(off, i) = Place(0, i)
         /\ off <= Size => Place(off, 1) = off
BY SizeAssumption DEF Place

LEMMA ByteTypes ==
  ASSUME TypeOK, NEW r \in Rings
  PROVE  /\ read[r] \in 0 .. Size + 1 /\ write[r] \in 0 .. Size + 1
         /\ said[r] \in Nat /\ Len(heard[r]) \in Nat /\ heard[r] \in Seq(Int)
         /\ read \in [Rings -> Int] /\ said \in [Rings -> Nat] /\ heard \in [Rings -> Seq(Int)]
         /\ mem \in [0 .. 2 * Size -> Int]
<1>1. heard[r] \in Seq(Int)
  BY DEF TypeOK
<1>2. Len(heard[r]) \in Nat
  BY <1>1
<1>3. read \in [Rings -> Int]
  BY SizeAssumption DEF TypeOK
<1>. QED BY <1>1, <1>2, <1>3 DEF TypeOK

LEMMA BaseFacts == \A r \in Rings : Base(r) \in {0, Size}
BY DEF Base

\* The memory after a byte is put at the end of a line of them, as numbers.
LEMMA PutAtTheEnd ==
  ASSUME NEW base \in {0, Size}, NEW off \in 0 .. Size + 1, NEW unread \in 0 .. Size - 1,
         NEW i \in 1 .. unread + 1
  PROVE  /\ base + Place(off, i) \in 0 .. 2 * Size
         /\ base + Place(off, i) = base + Place(off, unread + 1) => i = unread + 1
         /\ i # unread + 1 => i \in 1 .. unread
BY SizeAssumption DEF Place

\* The place after the last byte of a line of them is the next to be written.
LEMMA PlaceIsNext ==
  ASSUME NEW off \in 0 .. Size + 1, NEW next \in 0 .. Size, NEW unread \in 0 .. Size - 1,
         next - off = unread \/ next - off = unread - (Size + 1)
  PROVE  next = Place(off, unread + 1)
BY SizeAssumption DEF Place

LEMMA WrittenByte ==
  ASSUME RingInv, NEW p \in Sides, WriteByte(p), NEW w \in Rings, w = Entry(p).write
  PROVE  ContentsOf(w)'
<1>0. /\ pc[p] = "write" /\ left[p] > 0 /\ write[w] <= Size
      /\ mem' = [mem EXCEPT ![Base(w) + write[w]] = Byte(w, said[w] + 1)]
      /\ said' = [said EXCEPT ![w] = said[w] + 1] /\ UNCHANGED <<read, heard>>
  BY DEF WriteByte
<1>1. TypeOK /\ OffsetsOf(w) /\ ContentsOf(w) /\ Writer(w) = p
  BY RingFacts DEF RingInv, Offsets, Contents
<1>2. Size \in Nat /\ Base(w) \in {0, Size} /\ left[p] \in Nat
  BY <1>1, BaseFacts, SizeAssumption DEF TypeOK
<1>3. /\ read[w] \in 0 .. Size + 1 /\ write[w] \in 0 .. Size + 1
      /\ said[w] \in Nat /\ Len(heard[w]) \in Nat
  BY <1>1, ByteTypes
<1>4. /\ Unread(w) \in 0 .. Size - 1
      /\ write[w] - read[w] = Unread(w) \/ write[w] - read[w] = Unread(w) - (Size + 1)
  <2>1. left[p] + Unread(w) <= Size /\ Unread(w) \in 0 .. Size
    BY <1>0, <1>1 DEF OffsetsOf
  <2>2. Unread(w) \in 0 .. Size - 1
    BY <1>0, <1>2, <2>1
  <2>. QED BY <1>1, <2>2 DEF OffsetsOf
<1>5. said[w] = Len(heard[w]) + Unread(w)
  BY <1>3 DEF Unread
<1>6. write[w] = Place(read[w], Unread(w) + 1)
  <2>1. write[w] \in 0 .. Size
    BY <1>0, <1>2, <1>3
  <2>. QED BY <2>1, <1>3, <1>4, PlaceIsNext
<1>7. read' = read /\ heard' = heard /\ said'[w] = said[w] + 1
  BY <1>0, <1>1, ByteTypes
<1>8. Unread(w)' = Unread(w) + 1
  BY <1>3, <1>7 DEF Unread
<1>9. ASSUME NEW i \in 1 .. Unread(w) + 1
      PROVE  mem'[Base(w) + Place(read[w], i)] = Byte(w, Len(heard[w]) + i)
  <2>1. /\ Base(w) + Place(read[w], i) \in 0 .. 2 * Size
        /\ Base(w) + Place(read[w], i) = Base(w) + write[w] => i = Unread(w) + 1
        /\ i # Unread(w) + 1 => i \in 1 .. Unread(w)
    <3>1. Base(w) \in {0, Size} /\ read[w] \in 0 .. Size + 1 /\ Unread(w) \in 0 .. Size - 1
      BY <1>2, <1>3, <1>4
    <3>2. /\ Base(w) + Place(read[w], i) \in 0 .. 2 * Size
          /\ Base(w) + Place(read[w], i) = Base(w) + Place(read[w], Unread(w) + 1) => i = Unread(w) + 1
          /\ i # Unread(w) + 1 => i \in 1 .. Unread(w)
      BY <3>1, PutAtTheEnd
    <3>. QED BY <1>6, <3>2
  <2>2. mem \in [0 .. 2 * Size -> Int]
    BY <1>1, ByteTypes
  <2>3. CASE i = Unread(w) + 1
    <3>1. Len(heard[w]) + i = said[w] + 1
      BY <1>3, <1>4, <1>5, <2>3
    <3>2. Base(w) + Place(read[w], i) = Base(w) + write[w]
      BY <1>6, <2>3
    <3>. QED BY <1>0, <2>1, <2>2, <3>1, <3>2
  <2>4. CASE i # Unread(w) + 1
    <3>1. mem'[Base(w) + Place(read[w], i)] = mem[Base(w) + Place(read[w], i)]
      BY <1>0, <2>1, <2>2, <2>4
    <3>. QED BY <1>1, <2>1, <2>4, <3>1 DEF ContentsOf
  <2>. QED BY <2>3, <2>4
<1>. QED BY <1>1, <1>7, <1>8, <1>9 DEF ContentsOf

LEMMA ByteRead ==
  ASSUME RingInv, NEW p \in Sides, ReadByte(p), NEW r \in Rings, r = Entry(p).read
  PROVE  ContentsOf(r)' /\ heard'[r] = Append(heard[r], Byte(r, Len(heard[r]) + 1)) /\ Len(heard[r]) < said[r]
<1>0. /\ pc[p] = "read" /\ left[p] > 0 /\ read[r] <= Size
      /\ heard' = [heard EXCEPT ![r] = Append(heard[r], mem[Base(r) + read[r]])]
      /\ read' = [read EXCEPT ![r] = read[r] + 1] /\ UNCHANGED <<mem, said>>
  BY DEF ReadByte
<1>1. TypeOK /\ OffsetsOf(r) /\ ContentsOf(r) /\ Reader(r) = p
  BY RingFacts DEF RingInv, Offsets, Contents
<1>2. Size \in Nat /\ Size > 0 /\ left[p] \in Nat
  BY <1>1, SizeAssumption DEF TypeOK
<1>3. read[r] \in 0 .. Size /\ said[r] \in Nat /\ Len(heard[r]) \in Nat /\ heard[r] \in Seq(Int)
  <2>1. read[r] \in 0 .. Size + 1 /\ said[r] \in Nat /\ Len(heard[r]) \in Nat /\ heard[r] \in Seq(Int)
    BY <1>1, ByteTypes
  <2>2. read[r] \in 0 .. Size
    BY <1>0, <1>2, <2>1
  <2>. QED BY <2>1, <2>2
<1>4. Unread(r) \in 1 .. Size
  <2>1. left[p] <= Unread(r) /\ Unread(r) \in 0 .. Size
    BY <1>0, <1>1 DEF OffsetsOf
  <2>. QED BY <1>0, <1>2, <2>1
<1>5. said[r] = Len(heard[r]) + Unread(r)
  BY <1>3 DEF Unread
<1>6. Place(read[r], 1) = read[r]
  BY <1>2, <1>3 DEF Place
<1>7. mem[Base(r) + read[r]] = Byte(r, Len(heard[r]) + 1)
  BY <1>1, <1>4, <1>6 DEF ContentsOf
<1>8. /\ heard'[r] = Append(heard[r], Byte(r, Len(heard[r]) + 1)) /\ read'[r] = read[r] + 1
      /\ said'[r] = said[r] /\ mem' = mem
  BY <1>0, <1>1, <1>7, ByteTypes
<1>9. Byte(r, Len(heard[r]) + 1) \in Int
  BY <1>3 DEF Byte
<1>10. /\ Len(heard'[r]) = Len(heard[r]) + 1
       /\ \A n \in 1 .. Len(heard[r]) : heard'[r][n] = heard[r][n]
       /\ heard'[r][Len(heard[r]) + 1] = Byte(r, Len(heard[r]) + 1)
  BY <1>3, <1>8, <1>9, AppendProperties
<1>11. Unread(r)' = Unread(r) - 1
  BY <1>3, <1>8, <1>10 DEF Unread
<1>12. ASSUME NEW i \in 1 .. Unread(r) - 1
       PROVE  mem'[Base(r) + Place(read'[r], i)] = Byte(r, Len(heard'[r]) + i)
  <2>1. i \in 1 .. Size + 1 /\ i <= Size /\ i + 1 \in 1 .. Unread(r) /\ read[r] \in 0 .. Size + 1
    BY <1>2, <1>3, <1>4
  <2>2. Place(read[r] + 1, i) = Place(read[r], i + 1)
    BY <1>3, <2>1, PlaceFacts
  <2>3. Len(heard'[r]) + i = Len(heard[r]) + (i + 1)
    <3>1. /\ i \in Int /\ Len(heard[r]) \in Int /\ Len(heard'[r]) \in Int
          /\ Len(heard'[r]) = Len(heard[r]) + 1
      BY <1>3, <1>10, <2>1
    <3>2. \A a, b, c \in Int : a = b + 1 => a + c = b + (c + 1)
      OBVIOUS
    <3>. QED BY <3>1, <3>2
  <2>4. mem[Base(r) + Place(read[r], i + 1)] = Byte(r, Len(heard[r]) + (i + 1))
    BY <1>1, <2>1 DEF ContentsOf
  <2>. QED BY <1>8, <2>2, <2>3, <2>4
<1>13. ASSUME NEW n \in 1 .. Len(heard'[r]) PROVE heard'[r][n] = Byte(r, n)
  <2>1. CASE n = Len(heard[r]) + 1
    <3>1. heard'[r][Len(heard[r]) + 1] = Byte(r, Len(heard[r]) + 1)
      BY <1>10
    <3>. QED BY <2>1, <3>1
  <2>2. CASE n # Len(heard[r]) + 1
    <3>1. n \in 1 .. Len(heard[r])
      BY <1>3, <1>10, <2>2
    <3>. QED BY <1>1, <1>10, <3>1 DEF ContentsOf
  <2>. QED BY <2>1, <2>2
<1>14. ContentsOf(r)'
  BY <1>11, <1>12, <1>13 DEF ContentsOf
<1>15. Len(heard[r]) < said[r]
  BY <1>3, <1>4, <1>5
<1>. QED BY <1>8, <1>14, <1>15

LEMMA ContentsStep == RingInv /\ [Next]_vars => Contents'
<1>. SUFFICES ASSUME RingInv, [Next]_vars, NEW s \in Rings PROVE ContentsOf(s)'
  BY DEF Contents
<1>0. /\ TypeOK /\ ContentsOf(s) /\ read \in [Rings -> Int] /\ said \in [Rings -> Int]
      /\ heard \in [Rings -> Seq(Int)]
  BY DEF RingInv, TypeOK, Contents
<1>1. ASSUME UNCHANGED <<read[s], said[s], heard[s]>>, mem' = mem \/ Unread(s) = 0
      PROVE  ContentsOf(s)'
  BY <1>0, <1>1 DEF ContentsOf, Unread
<1>2. ASSUME NEW p \in Sides, WriteByte(p) PROVE ContentsOf(s)'
  <2>1. CASE s = Entry(p).write
    BY <1>2, <2>1, WrittenByte
  <2>2. CASE s # Entry(p).write
    <3>1. s = Entry(p).read
      BY <2>2, RingFacts
    <3>2. Unread(s) = 0
      <4>1. PICK q \in Sides : q # p
        BY DEF Sides
      <4>. QED BY <1>2, <3>1, <4>1, OneSpeaks DEF WriteByte
    <3>3. UNCHANGED <<read[s], said[s], heard[s]>>
      BY <1>0, <1>2, <2>2 DEF WriteByte
    <3>. QED BY <1>1, <3>2, <3>3
  <2>. QED BY <2>1, <2>2
<1>3. ASSUME NEW p \in Sides, ReadByte(p) PROVE ContentsOf(s)'
  <2>1. CASE s = Entry(p).read
    BY <1>3, <2>1, ByteRead
  <2>2. CASE s # Entry(p).read
    BY <1>0, <1>1, <1>3, <2>2 DEF ReadByte
  <2>. QED BY <2>1, <2>2
<1>4. ASSUME NEW p \in Sides, WrapRead(p) PROVE ContentsOf(s)'
  <2>1. UNCHANGED <<mem, said, heard>> /\ read' = [read EXCEPT ![Entry(p).read] = 0] /\ read[Entry(p).read] > Size
    BY <1>4 DEF WrapRead
  <2>2. CASE s = Entry(p).read
    <3>1. read[s] = Size + 1 /\ read'[s] = 0 /\ Unread(s) \in 0 .. Size /\ Unread(s)' = Unread(s)
      BY <1>0, <2>1, <2>2, RingTypes, SizeAssumption DEF RingInv, Offsets, OffsetsOf, Unread
    <3>2. \A i \in 1 .. Unread(s) : i \in 1 .. Size + 1
      BY <3>1, SizeAssumption
    <3>3. \A i \in 1 .. Unread(s) : Place(read'[s], i) = Place(read[s], i)
      BY <3>1, <3>2, PlaceFacts, SizeAssumption
    <3>. QED BY <1>0, <2>1, <3>1, <3>3 DEF ContentsOf
  <2>3. CASE s # Entry(p).read
    BY <1>0, <1>1, <2>1, <2>3
  <2>. QED BY <2>2, <2>3
<1>5. CASE UNCHANGED <<read, said, heard, mem>>
  BY <1>0, <1>1, <1>5
<1>. QED BY <1>2, <1>3, <1>4, <1>5
  DEF Next, Step, BeginWrite, WrapWrite, EndWrite, Look, BeginRead, EndRead, Finish, Refuse, sideVars, ringVars, vars

-----------------------------------------------------------------------------
(***************************************************************************)
(* What getIPCStatus says                                                  *)
(***************************************************************************)
LEMMA WrittenIsUnread ==
  ASSUME RingInv, NEW p \in Sides, NEW q \in Sides \ {p}, pc[p] = "write", left[p] = 0, pc[q] = "told"
  PROVE  said[Entry(p).write] > Len(heard[Entry(p).write])
<1>. DEFINE w == Entry(p).write
<1>0. w \in Rings /\ Writer(w) = p /\ Reader(w) = q
  BY RingFacts
<1>1. TypeOK /\ Mine(p) /\ Wanted(p) <= Size
  BY DEF RingInv, Inside, InsideAs
<1>2. Wanted(p) \in Nat /\ Wanted(p) > 0
  BY <1>1, TalkFacts DEF Mine
<1>3. at[q] <= at[p] /\ at[p] \in 1 .. Furthest /\ at[q] \in 1 .. Furthest
  BY <1>1, NotPassed, FurthestFacts
<1>4. PICK mark : Marks(w, mark, Furthest) /\ Counts(w, mark)
  BY <1>0 DEF RingInv, Accounts
<1>5. mark[at[q]] <= mark[at[p]] /\ mark[at[q]] \in Nat /\ mark[at[p]] \in Nat
  BY <1>3, <1>4 DEF Marks
<1>6. said[w] = mark[at[p]] + Wanted(p) /\ Len(heard[w]) = mark[at[q]]
  BY <1>0, <1>2, <1>4, <1>5 DEF Counts, Written, Taken
<1>. QED BY <1>2, <1>5, <1>6

LEMMA ToldStep == RingInv /\ [Next]_vars => ToldIsTrue'
<1>. SUFFICES ASSUME RingInv, [Next]_vars, NEW q \in Sides, pc'[q] = "told"
              PROVE  LET r == Entry(q).read IN said'[r] > Len(heard'[r]) \/ pc'[Writer(r)] = "write"
  BY DEF ToldIsTrue
<1>. DEFINE r == Entry(q).read
<1>0. /\ TypeOK /\ r \in Rings /\ said[r] \in Nat /\ Len(heard[r]) \in Nat
      /\ (pc[q] = "told" => said[r] > Len(heard[r]) \/ pc[Writer(r)] = "write")
  BY EntryFacts, RingTypes DEF RingInv, ToldIsTrue
<1>1. /\ pc \in [Sides -> {"idle", "write", "told", "read"}]
      /\ said \in [Rings -> Nat] /\ heard \in [Rings -> Seq(Int)]
  BY <1>0 DEF TypeOK
<1>2. CASE UNCHANGED <<said, heard, pc>>
  BY <1>0, <1>2
<1>3. CASE Look(q)
  <2>1. read[r] # write[r] /\ UNCHANGED <<said, heard>> /\ pc' = [pc EXCEPT ![q] = "told"]
    BY <1>3 DEF Look, ringVars
  <2>2. Writer(r) \in Sides /\ Writer(r) # q
    BY RingFacts
  <2>3. said[r] > Len(heard[r]) \/ pc[Writer(r)] = "write"
    <3>1. OffsetsOf(r) /\ read[r] \in 0 .. Size + 1 /\ write[r] \in 0 .. Size + 1 /\ Size \in Nat
      BY <1>0, RingTypes, SizeAssumption DEF RingInv, Offsets
    <3>2. CASE Unread(r) = 0
      <4>1. write[r] = 0
        BY <2>1, <3>1, <3>2 DEF OffsetsOf
      <4>2. read[r] # 0
        BY <2>1, <4>1
      <4>. QED BY <3>1, <4>1, <4>2 DEF OffsetsOf
    <3>3. CASE Unread(r) # 0
      BY <1>0, <3>1, <3>3 DEF OffsetsOf, Unread
    <3>. QED BY <3>2, <3>3
  <2>. QED BY <1>1, <2>1, <2>2, <2>3
<1>4. ASSUME NEW p \in Sides \ {q}, Step(p) PROVE said'[r] > Len(heard'[r]) \/ pc'[Writer(r)] = "write"
  <2>0. Writer(r) = p /\ Entry(p).write = r /\ Entry(p).read # r /\ Entry(p).read \in Rings
    BY <1>4, RingFacts
  <2>1. CASE WriteByte(p) \/ WrapWrite(p) \/ BeginWrite(p)
    BY <1>1, <2>0, <2>1 DEF WriteByte, WrapWrite, BeginWrite, sideVars
  <2>2. CASE EndWrite(p)
    <3>1. pc[p] = "write" /\ left[p] = 0 /\ UNCHANGED <<said, heard>> /\ pc[q] = "told"
      BY <1>1, <1>4, <2>2 DEF EndWrite, Finish
    <3>. QED BY <1>4, <2>0, <3>1, WrittenIsUnread
  <2>3. CASE Look(p) \/ BeginRead(p) \/ WrapRead(p) \/ ReadByte(p) \/ EndRead(p) \/ Refuse(p)
    <3>1. /\ said' = said /\ heard'[r] = heard[r] /\ pc[q] = "told" /\ pc[p] # "write"
      BY <1>0, <1>1, <1>4, <2>0, <2>3
      DEF Look, BeginRead, WrapRead, ReadByte, EndRead, Finish, Refuse, sideVars, ringVars
    <3>. QED BY <1>0, <2>0, <3>1
  <2>. QED BY <1>4, <2>1, <2>2, <2>3 DEF Step
<1>5. CASE Step(q) /\ ~ Look(q)
  BY <1>1, <1>2, <1>5 DEF Step, BeginWrite, WrapWrite, WriteByte, EndWrite, BeginRead, WrapRead, ReadByte, EndRead,
     Finish, Refuse, Inside, InsideAs, sideVars, ringVars
<1>. QED BY <1>2, <1>3, <1>4, <1>5 DEF Next, vars, sideVars, ringVars

-----------------------------------------------------------------------------
(***************************************************************************)
(* The theorems                                                            *)
(***************************************************************************)
(* The invariant holds of every conversation over rings of any size. *)
THEOREM RingInductive == Spec => []RingInv
<1>1. RingInv /\ [Next]_vars => RingInv'
  BY TypeStep, InsideStep, OffsetsStep, InTurnStep, AccountsStep, ContentsStep, ToldStep DEF RingInv
<1>. QED BY InitInv, <1>1, PTL DEF Spec

(* The offsets of a ring stay within it and the byte after it, and readIPC and
   writeIPC address only the memory of the buffers. *)
THEOREM RingTypeCorrect == Spec => []TypeOK
BY RingInductive, PTL DEF RingInv

(* What getIPCStatus and selectIPC say, who compare the offsets without the
   semaphore, is true: there is a byte to read, or a write is under way. *)
THEOREM StatusIsTrue == Spec => []ToldIsTrue
BY RingInductive, PTL DEF RingInv

(* Whenever nobody is inside a ring its offsets are equal exactly when all that
   was written has been read: writeIPC never fills a ring. *)
THEOREM EqualMeansEmpty == Spec => []EmptyIsExact
<1>1. RingInv => EmptyIsExact
  <2>. SUFFICES ASSUME RingInv, NEW r \in Rings, sem[r] = "nobody"
                PROVE  read[r] = write[r] <=> said[r] = Len(heard[r])
    BY DEF EmptyIsExact
  <2>1. TypeOK /\ OffsetsOf(r)
    BY DEF RingInv, Offsets
  <2>2. pc[Writer(r)] # "write"
    <3>1. Writer(r) \in Sides /\ Entry(Writer(r)).write = r /\ Writer(r) # "nobody"
      BY RingFacts
    <3>. QED BY <3>1 DEF RingInv, Inside, InsideAs
  <2>3. /\ read[r] \in 0 .. Size + 1 /\ write[r] \in 0 .. Size + 1 /\ Size \in Nat
        /\ said[r] \in Nat /\ Len(heard[r]) \in Nat
    BY <2>1, ByteTypes, SizeAssumption
  <2>4. /\ Unread(r) \in 0 .. Size
        /\ write[r] - read[r] = Unread(r) \/ write[r] - read[r] = Unread(r) - (Size + 1)
        /\ write[r] = 0 => said[r] = 0 /\ read[r] = 0
    BY <2>1, <2>2 DEF OffsetsOf
  <2>5. Unread(r) = 0 <=> said[r] = Len(heard[r])
    BY <2>3 DEF Unread
  <2>. QED BY <2>3, <2>4, <2>5
<1>. QED BY <1>1, RingInductive, PTL

(* What two offsets tell getIPCStatus, selectIPC, readIPC and writeIPC is true. *)
THEOREM OffsetsAreTrue == Spec => []OffsetsTell
BY StatusIsTrue, EqualMeansEmpty, PTL DEF OffsetsTell

-----------------------------------------------------------------------------
(***************************************************************************)
(* Who waits for whom                                                      *)
(***************************************************************************)
(* If neither side moves, the one that is behind is to read what the other has
   written: were they at the same message, its writer would find its ring empty. *)
LEMMA SomebodyMoves ==
  ASSUME RingInv, EmptyIsExact
  PROVE  WaitsForAByte
<1>. SUFFICES ASSUME ~ AllOver, \A p \in Sides : ~ CanGo(p) PROVE \E p \in Sides : OneByteShort(p)
  BY DEF WaitsForAByte
<1>0. /\ TypeOK /\ Len(talk) \in Nat /\ Size \in Nat \ {0}
      /\ \A p \in Sides : InsideAs(p) /\ at[p] \in Nat /\ at[p] >= 1
  BY TalkFacts, SizeAssumption DEF RingInv, Inside
<1>1. \A p \in Sides : pc[p] \in {"idle", "told"}
  BY <1>0 DEF CanGo, TypeOK
<1>2. \A r \in Rings : sem[r] = "nobody"
  <2>1. ASSUME NEW r \in Rings, NEW p \in Sides, sem[r] = p PROVE FALSE
    <3>1. r = Entry(p).read \/ r = Entry(p).write
      BY RingFacts
    <3>. QED BY <1>0, <1>1, <2>1, <3>1 DEF InsideAs
  <2>. QED BY <1>0, <2>1 DEF TypeOK
<1>3. ASSUME NEW p \in Sides, ~ Over(p)
      PROVE  /\ at[p] \in 1 .. Len(talk) /\ Wanted(p) \in Nat /\ Wanted(p) > 0 /\ Wanted(p) <= Size
             /\ Mine(p) \/ Theirs(p)
  <2>1. at[p] \in 1 .. Len(talk) /\ Wanted(p) \in Nat /\ Wanted(p) > 0
    BY <1>0, <1>3, TalkFacts
  <2>2. Wanted(p) <= Size
    BY <1>0, <1>1, <1>3, <2>1 DEF CanGo, InsideAs
  <2>. QED BY <1>3, <2>1, <2>2 DEF Mine, Theirs
\* The messages of a ring that both sides know of.
<1>4. ASSUME NEW p \in Sides, NEW q \in Sides \ {p}
      PROVE  LET r == Entry(q).read IN
             /\ r \in Rings /\ Entry(p).write = r /\ Writer(r) = p /\ Reader(r) = q
             /\ at[q] = at[p] => said[r] = Len(heard[r])
             /\ at[q] < at[p] /\ Theirs(q) /\ Wanted(q) <= Size => Unread(r) >= Wanted(q)
  <2>. DEFINE r == Entry(q).read
  <2>1. r \in Rings /\ Entry(p).write = r /\ Writer(r) = p /\ Reader(r) = q
    BY RingFacts
  <2>2. PICK mark : Marks(r, mark, Furthest) /\ Counts(r, mark)
    BY <2>1 DEF RingInv, Accounts
  <2>3. said[r] = mark[at[p]] + 0 /\ Len(heard[r]) = mark[at[q]] + 0
    BY <1>1, <2>1, <2>2 DEF Counts, Written, Taken
  <2>4. mark[at[p]] \in Nat /\ mark[at[q]] \in Nat /\ mark[at[q] + 1] \in Nat
    <3>1. mark \in [Nat -> Nat]
      BY <2>2 DEF Marks
    <3>2. at[p] \in Nat /\ at[q] \in Nat /\ at[q] + 1 \in Nat
      BY <1>0
    <3>. QED BY <3>1, <3>2
  <2>5. ASSUME at[q] < at[p], Theirs(q), Wanted(q) <= Size PROVE Unread(r) >= Wanted(q)
    <3>1. at[q] \in 1 .. Furthest - 1 /\ at[q] + 1 \in 1 .. Furthest /\ at[p] \in 1 .. Furthest /\ at[q] + 1 <= at[p]
      BY <1>0, <2>5, FurthestFacts
    <3>2. mark[at[q] + 1] = mark[at[q]] + Adds(r, at[q]) /\ mark[at[q] + 1] <= mark[at[p]]
      BY <2>2, <3>1 DEF Marks
    <3>3. Wanted(q) \in Nat /\ talk[at[q]].from \in Sides /\ talk[at[q]].from # q
      BY <1>0, <2>5, TalkFacts DEF Theirs
    <3>4. Adds(r, at[q]) = Wanted(q)
      BY <1>0, <2>1, <2>5, <3>3 DEF Adds, Refused, Wanted, Sides
    <3>. QED BY <2>3, <2>4, <3>2, <3>3, <3>4 DEF Unread
  <2>. QED BY <2>1, <2>3, <2>4, <2>5
<1>5. ASSUME NEW p \in Sides, NEW q \in Sides \ {p}, at[p] = at[q], Mine(p) PROVE FALSE
  <2>. DEFINE r == Entry(p).write
  <2>1. r \in Rings /\ said[r] = Len(heard[r])
    BY <1>4, <1>5
  <2>2. read[r] = write[r]
    BY <1>2, <2>1 DEF EmptyIsExact
  <2>3. pc[p] = "idle" /\ Wanted(p) <= Size
    BY <1>0, <1>1, <1>3, <1>5 DEF Mine, Theirs, InsideAs
  <2>. QED BY <1>2, <1>5, <2>1, <2>2, <2>3 DEF CanGo, HasRoom
<1>6. ASSUME NEW p \in Sides, NEW q \in Sides \ {p}, at[q] <= at[p] PROVE OneByteShort(q)
  <2>. DEFINE r == Entry(q).read
  <2>1. ~ Over(q)
    BY <1>0, <1>6 DEF AllOver, Over, Sides
  <2>2. at[q] < at[p]
    <3>1. SUFFICES ASSUME at[q] = at[p] PROVE FALSE
      BY <1>0, <1>6
    <3>2. ~ Mine(p) /\ ~ Mine(q)
      BY <1>5, <3>1
    <3>3. talk[at[q]].from \in Sides /\ ~ Over(p)
      BY <1>0, <1>3, <2>1, <3>1, TalkFacts DEF Over
    <3>. QED BY <2>1, <3>1, <3>2, <3>3 DEF Mine, Sides
  <2>3. Theirs(q)
    <3>1. talk[at[q]].from = p \/ Refused(at[q])
      BY <1>0, <2>2 DEF RingInv, InTurn
    <3>. QED BY <1>0, <1>3, <2>1, <3>1 DEF Refused, Wanted, Theirs
  <2>4. Unread(r) >= Wanted(q) /\ r \in Rings
    BY <1>3, <1>4, <2>1, <2>2, <2>3
  <2>5. ~ HasBytes(r, Wanted(q))
    BY <1>2, <1>3, <2>1, <2>3, <2>4 DEF CanGo
  <2>6. /\ read[r] \in Int /\ write[r] \in Int /\ Unread(r) \in 0 .. Size
        /\ write[r] - read[r] = Unread(r) \/ write[r] - read[r] = Unread(r) - (Size + 1)
    BY <1>0, <2>4, RingTypes DEF RingInv, Offsets, OffsetsOf, TypeOK
  <2>7. read[r] > write[r] /\ Wanted(q) = Size - read[r] + write[r] + 1 /\ Unread(r) = Wanted(q)
    BY <1>0, <1>3, <2>1, <2>4, <2>5, <2>6 DEF HasBytes
  <2>. QED BY <1>1, <2>3, <2>7 DEF OneByteShort, Unread
<1>7. at["father"] <= at["child"] \/ at["child"] <= at["father"]
  BY <1>0 DEF Sides
<1>. QED BY <1>6, <1>7 DEF Sides

(* Whatever the size of the buffers and the conversation, the two sides never
   both wait, in readIPC and writeIPC, but for the one byte that readIPC does not
   count in a ring that has wrapped. *)
THEOREM OnlyAByteIsWaitedFor == Spec => []WaitsForAByte
<1>1. RingInv /\ EmptyIsExact => WaitsForAByte
  BY SomebodyMoves
<1>. QED BY <1>1, RingInductive, EqualMeansEmpty, PTL

-----------------------------------------------------------------------------
Line(r, k) == [n \in 1 .. k |-> Byte(r, n)]

LEMMA LineFacts ==
  ASSUME NEW r \in Rings, NEW k \in Nat
  PROVE  /\ Line(r, k) \in Seq(Int) /\ Len(Line(r, k)) = k
         /\ \A n \in 1 .. k : Line(r, k)[n] = Byte(r, n)
         /\ Line(r, k + 1) = Append(Line(r, k), Byte(r, k + 1))
         /\ Line(r, 0) = <<>>
<1>1. \A n \in Nat : Byte(r, n) \in Int
  BY DEF Byte
<1>2. \A m \in Nat : Line(r, m) \in Seq(Int) /\ Len(Line(r, m)) = m /\ \A n \in 1 .. m : Line(r, m)[n] = Byte(r, n)
  BY <1>1 DEF Line
<1>3. Line(r, k + 1) = Append(Line(r, k), Byte(r, k + 1))
  <2>1. /\ Append(Line(r, k), Byte(r, k + 1)) \in Seq(Int)
        /\ Len(Append(Line(r, k), Byte(r, k + 1))) = k + 1
        /\ \A n \in 1 .. k + 1 : Append(Line(r, k), Byte(r, k + 1))[n] = Byte(r, n)
    <3>1. Byte(r, k + 1) \in Int /\ Line(r, k) \in Seq(Int) /\ Len(Line(r, k)) = k
      BY <1>1, <1>2
    <3>2. /\ Append(Line(r, k), Byte(r, k + 1)) \in Seq(Int)
          /\ Len(Append(Line(r, k), Byte(r, k + 1))) = k + 1
          /\ \A n \in 1 .. k : Append(Line(r, k), Byte(r, k + 1))[n] = Line(r, k)[n]
          /\ Append(Line(r, k), Byte(r, k + 1))[k + 1] = Byte(r, k + 1)
      BY <3>1, AppendProperties
    <3>3. \A n \in 1 .. k + 1 : n \in 1 .. k \/ n = k + 1
      OBVIOUS
    <3>. QED BY <1>2, <3>2, <3>3
  <2>2. /\ Line(r, k + 1) \in Seq(Int) /\ Len(Line(r, k + 1)) = k + 1
        /\ \A n \in 1 .. k + 1 : Line(r, k + 1)[n] = Byte(r, n)
    BY <1>2
  <2>. QED BY <2>1, <2>2, SeqEqual
<1>4. Line(r, 0) = <<>>
  BY <1>2, EmptySeq
<1>. QED BY <1>2, <1>3, <1>4

(* The two rings are a channel for each direction: a byte is read after it has
   been written, once, in the order of the writing and unchanged. *)
THEOREM BytesAreGivenOnce == Spec => ChannelSpec
<1>2. Init => TheChannel!Init
  <2>. SUFFICES ASSUME Init PROVE TheChannel!Init
    OBVIOUS
  <2>1. \A r \in Rings : said[r] = 0
    BY DEF Init
  <2>2. SaidNow = [r \in Rings |-> <<>>]
    BY <2>1, LineFacts DEF SaidNow, Line
  <2>. QED BY <2>2 DEF Init, TheChannel!Init
<1>3. RingInv /\ [Next]_vars => [TheChannel!Next]_TheChannel!cvars
  <2>. SUFFICES ASSUME RingInv, [Next]_vars PROVE [TheChannel!Next]_TheChannel!cvars
    OBVIOUS
  <2>0. TypeOK
    BY DEF RingInv
  <2>1. ASSUME NEW p \in Sides, WriteByte(p) PROVE TheChannel!Next
    <3>. DEFINE w == Entry(p).write
    <3>1. w \in Rings /\ said' = [said EXCEPT ![w] = said[w] + 1] /\ heard' = heard
      BY <2>1, RingFacts DEF WriteByte
    <3>2. said \in [Rings -> Nat] /\ said[w] \in Nat
      BY <2>0, <3>1, ByteTypes
    <3>3. SaidNow'[w] = Line(w, said[w] + 1)
      BY <3>1, <3>2 DEF SaidNow, Line
    <3>4. SaidNow[w] = Line(w, said[w])
      BY <3>1 DEF SaidNow, Line
    <3>5. \A r \in Rings \ {w} : SaidNow'[r] = SaidNow[r]
      BY <3>1, <3>2 DEF SaidNow
    <3>6. /\ Len(SaidNow'[w]) = said[w] + 1 /\ SaidNow'[w][said[w] + 1] = Byte(w, said[w] + 1)
          /\ SaidNow'[w] # <<>> /\ Byte(w, said[w] + 1) \in Int
          /\ SaidNow'[w] = Append(SaidNow[w], Byte(w, said[w] + 1))
      <4>1. Byte(w, said[w] + 1) \in Int
        BY <3>2 DEF Byte
      <4>2. said[w] + 1 \in Nat /\ said[w] + 1 \in 1 .. said[w] + 1 /\ said[w] + 1 # 0
        BY <3>2
      <4>3. /\ Len(Line(w, said[w] + 1)) = said[w] + 1
            /\ Line(w, said[w] + 1)[said[w] + 1] = Byte(w, said[w] + 1)
        BY <3>1, <4>2, LineFacts
      <4>4. Line(w, said[w] + 1) = Append(Line(w, said[w]), Byte(w, said[w] + 1))
        BY <3>1, <3>2, LineFacts
      <4>5. SaidNow'[w] # <<>>
        BY <3>3, <4>2, <4>3, EmptySeq
      <4>. QED BY <3>3, <3>4, <4>1, <4>3, <4>4, <4>5
    <3>7. SaidNow' = [SaidNow EXCEPT ![w] = Append(SaidNow[w], Byte(w, said[w] + 1))]
      BY <3>5, <3>6 DEF SaidNow
    <3>8. TheChannel!Say(w)
      BY <3>1, <3>6, <3>7 DEF TheChannel!Say
    <3>. QED BY <3>1, <3>8 DEF TheChannel!Next
  <2>2. ASSUME NEW p \in Sides, ReadByte(p) PROVE TheChannel!Next
    <3>. DEFINE r == Entry(p).read
    <3>1. r \in Rings /\ said' = said
      BY <2>2, RingFacts DEF ReadByte
    <3>2. heard'[r] = Append(heard[r], Byte(r, Len(heard[r]) + 1)) /\ Len(heard[r]) < said[r]
      BY <2>2, <3>1, ByteRead
    <3>3. heard \in [Rings -> Seq(Int)] /\ said[r] \in Nat /\ Len(heard[r]) \in Nat
      BY <2>0, <3>1, ByteTypes
    <3>4. heard' = [heard EXCEPT ![r] = heard'[r]]
      BY <2>2, <3>1, <3>3 DEF ReadByte
    <3>5. SaidNow[r] = Line(r, said[r]) /\ SaidNow' = SaidNow
      BY <3>1 DEF SaidNow, Line
    <3>6. Len(heard[r]) + 1 \in 1 .. said[r]
      BY <3>2, <3>3
    <3>7. Len(SaidNow[r]) = said[r] /\ SaidNow[r][Len(heard[r]) + 1] = Byte(r, Len(heard[r]) + 1)
      BY <3>1, <3>3, <3>5, <3>6, LineFacts
    <3>8. TheChannel!Hear(r)
      BY <3>2, <3>4, <3>5, <3>7 DEF TheChannel!Hear
    <3>. QED BY <3>1, <3>8 DEF TheChannel!Next
  <2>3. CASE UNCHANGED <<said, heard>>
    BY <2>3 DEF SaidNow, TheChannel!cvars
  <2>. QED BY <2>1, <2>2, <2>3
    DEF Next, Step, BeginWrite, WrapWrite, EndWrite, Look, BeginRead, WrapRead, EndRead, Finish, Refuse,
        sideVars, ringVars, vars
<1>. QED BY <1>2, <1>3, RingInductive, PTL DEF Spec, ChannelSpec, TheChannel!Spec
=============================================================================
