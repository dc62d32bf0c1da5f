----------------------------- MODULE ThreadsProof -----------------------------
(***************************************************************************)
(* Theorems about the threads of a grouph, for every table, every set of   *)
(* restrictions and every number of faults.                                *)
(***************************************************************************)
EXTENDS GrouphThreadsProperties, ConditionsProof, SequenceTheorems, WellFoundedInduction

(***************************************************************************)
(* The inductive invariant.  A round goes from the first pthread_create to *)
(* the end of the polling; Begun are the threads it has started so far.    *)
(***************************************************************************)
InRound == mpc \in {"spawn", "poll"}
Begun == IF mpc = "spawn" THEN 0 .. j - 1 ELSE 0 .. Amm - 1

\* Those that have taken their place and let the mutex go.
Counted == {k \in Begun : tpc[k] \in {"collect", "report", "done"}}

ThreadTypes ==
  /\ table \in Tables
  /\ mpc \in {"begin", "spawn", "poll", "combine", "ask", "whole", "none", "failed", "crash"}
  /\ j \in 0 .. Amm - 1
  /\ threadsFlag \in BOOLEAN
  /\ tpc \in [Threads -> {"none", "lock", "locked", "collect", "report", "done"}]
  /\ myIndex \in [Threads -> Nat]
  /\ mutexIndex \in Threads \cup {-1}
  /\ threadsIndex \in Nat
  /\ threadsRet \in [Threads -> {0, 1, NoMem}]

Mutex == \A k \in Threads : mutexIndex = k <=> tpc[k] = "locked"

\* Only the threads of this round run.
OfThisRound == \A k \in Running : InRound /\ k \in Begun

\* threadsIndex counts; the places taken are below it, and are different.
Places ==
  InRound =>
    /\ threadsIndex = Cardinality(Counted)
    /\ \A k \in Counted : myIndex[k] < threadsIndex
    /\ \A k, l \in Counted : myIndex[k] = myIndex[l] => k = l
    /\ \A k \in Begun : tpc[k] = "locked" => myIndex[k] = threadsIndex

\* What is written was written by the thread whose place it is.
Answers ==
  InRound => \A x \in Threads : threadsRet[x] # 0 =>
               \E k \in Begun : tpc[k] = "done" /\ myIndex[k] = x

\* What the turn of the polling loop has seen so far.
Seen == mpc = "poll" /\ threadsFlag => \A x \in 0 .. j - 1 : threadsRet[x] # 0

ThreadsInv == ThreadTypes /\ Mutex /\ OfThisRound /\ Places /\ Answers /\ Seen

-----------------------------------------------------------------------------
(* There are as many threads as restrictions, two to four. *)
LEMMA AmmFacts ==
  ASSUME table \in Tables
  PROVE  Amm \in 2 .. 4 /\ 0 .. Amm - 1 \subseteq Threads
<1>. DEFINE C == table[0].conds
            a == {"same"}
            b == a \cup {"weak"}
            c == b \cup {"champ"}
            d == c \cup {"death"}
<1>1. C \subseteq Flags /\ CondAmm(table, 0) >= 2
  BY TablesOK DEF Country
<1>2. IsFiniteSet(a) /\ Cardinality(a) = 1
  BY FS_Singleton
<1>3. IsFiniteSet(b) /\ Cardinality(b) = 2
  BY <1>2, FS_AddElement
<1>4. IsFiniteSet(c) /\ Cardinality(c) = 3
  BY <1>3, FS_AddElement
<1>5. IsFiniteSet(d) /\ Cardinality(d) = 4
  BY <1>4, FS_AddElement
<1>6. Flags = d
  BY DEF Flags
<1>. HIDE DEF d
<1>7. IsFiniteSet(C) /\ Cardinality(C) <= 4 /\ Cardinality(C) \in Nat
  BY <1>1, <1>5, <1>6, FS_Subset, FS_CardinalityType
<1>8. Amm \in 2 .. 4
  BY <1>1, <1>7 DEF Amm, CondAmm
<1>. QED BY <1>8 DEF Threads

LEMMA BegunFacts ==
  ASSUME ThreadTypes
  PROVE  /\ Begun \subseteq 0 .. Amm - 1 /\ Begun \subseteq Threads
         /\ IsFiniteSet(0 .. Amm - 1) /\ Cardinality(0 .. Amm - 1) = Amm
         /\ IsFiniteSet(Counted) /\ Cardinality(Counted) \in Nat /\ Cardinality(Counted) <= Amm
<1>1. Amm \in 2 .. 4 /\ 0 .. Amm - 1 \subseteq Threads
  BY AmmFacts DEF ThreadTypes
<1>2. Begun \subseteq 0 .. Amm - 1
  BY <1>1 DEF Begun, ThreadTypes
<1>3. IsFiniteSet(0 .. Amm - 1) /\ Cardinality(0 .. Amm - 1) = Amm
  <2>1. /\ IsFiniteSet(0 .. Amm - 1)
        /\ Cardinality(0 .. Amm - 1) = IF 0 > Amm - 1 THEN 0 ELSE Amm - 1 - 0 + 1
    BY <1>1, FS_Interval
  <2>. QED BY <1>1, <2>1
<1>4. Counted \subseteq 0 .. Amm - 1
  BY <1>2 DEF Counted
<1>. QED BY <1>1, <1>2, <1>3, <1>4, FS_Subset, FS_CardinalityType

\* A place that is taken is one of the four of threadsRet.
LEMMA PlacesExist ==
  ASSUME ThreadsInv, InRound, NEW k \in Begun, tpc[k] \in {"locked", "collect", "report", "done"}
  PROVE  myIndex[k] \in Threads
<1>1. Amm \in 2 .. 4 /\ ThreadTypes /\ k \in Threads
  BY AmmFacts, BegunFacts DEF ThreadsInv, ThreadTypes
<1>2. myIndex[k] \in Nat
  BY <1>1 DEF ThreadTypes
<1>3. CASE k \in Counted
  BY <1>1, <1>2, <1>3, BegunFacts DEF ThreadsInv, Places, Threads
<1>4. CASE k \notin Counted
  <2>1. myIndex[k] = Cardinality(Counted)
    BY <1>4 DEF ThreadsInv, Places, Counted
  <2>2. Cardinality(Counted \cup {k}) = Cardinality(Counted) + 1
    BY <1>1, <1>4, BegunFacts, FS_AddElement
  <2>3. Counted \cup {k} \subseteq 0 .. Amm - 1
    BY <1>1, BegunFacts DEF Counted
  <2>4. Cardinality(Counted \cup {k}) <= Amm
    BY <1>1, <2>3, BegunFacts, FS_Subset
  <2>. QED BY <1>1, <2>1, <2>2, <2>4, BegunFacts DEF Threads
<1>. QED BY <1>3, <1>4

\* The place of a thread that has not answered has not been written.
LEMMA PlaceIsFree ==
  ASSUME ThreadsInv, InRound, NEW k \in Begun, tpc[k] \in {"locked", "collect", "report"}
  PROVE  myIndex[k] \in Threads /\ threadsRet[myIndex[k]] = 0
<1>1. myIndex[k] \in Threads
  BY PlacesExist
<1>2. SUFFICES ASSUME threadsRet[myIndex[k]] # 0 PROVE FALSE
  BY <1>1
<1>3. PICK l \in Begun : tpc[l] = "done" /\ myIndex[l] = myIndex[k]
  BY <1>1, <1>2 DEF ThreadsInv, Answers
<1>4. l \in Counted /\ l # k
  BY <1>3 DEF Counted
<1>5. k \notin Counted
  BY <1>3, <1>4 DEF ThreadsInv, Places
<1>6. myIndex[k] = threadsIndex /\ myIndex[l] < threadsIndex
  BY <1>4, <1>5 DEF Counted, ThreadsInv, Places
<1>. QED BY <1>3, <1>6 DEF ThreadsInv, ThreadTypes

-----------------------------------------------------------------------------
LEMMA ThreadsInit == Init => ThreadsInv
<1>. SUFFICES ASSUME Init PROVE ThreadsInv
  OBVIOUS
<1>1. Amm \in 2 .. 4
  BY AmmFacts DEF Init
<1>2. ThreadTypes
  <2>1. /\ table \in Tables /\ threadsFlag \in BOOLEAN
        /\ mpc \in {"begin", "spawn", "poll", "combine", "ask", "whole", "none", "failed", "crash"}
    BY DEF Init
  <2>2. j \in 0 .. Amm - 1 /\ threadsIndex \in Nat /\ mutexIndex \in Threads \cup {-1}
    BY <1>1 DEF Init
  <2>3. tpc \in [Threads -> {"none", "lock", "locked", "collect", "report", "done"}]
    BY DEF Init
  <2>4. myIndex \in [Threads -> Nat] /\ threadsRet \in [Threads -> {0, 1, NoMem}]
    BY DEF Init
  <2>. QED BY <2>1, <2>2, <2>3, <2>4 DEF ThreadTypes
<1>3. Mutex /\ OfThisRound
  BY DEF Init, Mutex, OfThisRound, Running, Threads
<1>. QED BY <1>2, <1>3 DEF Init, ThreadsInv, Places, Answers, Seen, InRound

\* Outside a round nothing but the types, the mutex and the silence matters.
LEMMA MainSteps ==
  ASSUME ThreadsInv, BeginRound \/ Combine \/ (\E response \in BOOLEAN : ReadAnswer(response))
  PROVE  ThreadsInv'
<1>0. ThreadTypes /\ Mutex /\ OfThisRound
  BY DEF ThreadsInv
<1>1. Running = {} /\ table' = table /\ tpc' = tpc /\ mutexIndex' = mutexIndex
  BY <1>0 DEF OfThisRound, InRound, BeginRound, Combine, ReadAnswer
<1>2. Amm' = Amm /\ Amm \in 2 .. 4
  BY <1>0, <1>1, AmmFacts DEF Amm, ThreadTypes
<1>3. Mutex' /\ OfThisRound'
  BY <1>0, <1>1 DEF Mutex, OfThisRound, Running
<1>4. CASE BeginRound
  <2>1. /\ mpc' = "spawn" /\ j' = 0 /\ threadsIndex' = 0 /\ threadsRet' = [k \in Threads |-> 0]
        /\ UNCHANGED <<threadsFlag, myIndex>>
    BY <1>4 DEF BeginRound
  <2>2. ThreadTypes'
    BY <1>0, <1>1, <1>2, <2>1 DEF ThreadTypes
  <2>3. Begun' = {} /\ Counted' = {}
    BY <2>1 DEF Begun, Counted
  <2>4. Places'
    BY <2>1, <2>3, FS_EmptySet DEF Places
  <2>5. Answers' /\ Seen'
    BY <2>1 DEF Answers, Seen
  <2>. QED BY <1>3, <2>2, <2>4, <2>5 DEF ThreadsInv
<1>5. CASE ~ BeginRound
  <2>1. /\ mpc' \in {"begin", "ask", "whole", "none", "crash"}
        /\ UNCHANGED <<j, threadsFlag, myIndex, threadsIndex, threadsRet>>
    BY <1>5 DEF Combine, ReadAnswer
  <2>2. ThreadTypes'
    BY <1>0, <1>1, <1>2, <2>1 DEF ThreadTypes
  <2>3. Places' /\ Answers' /\ Seen'
    BY <2>1 DEF Places, Answers, Seen, InRound
  <2>. QED BY <1>3, <2>2, <2>3 DEF ThreadsInv
<1>. QED BY <1>4, <1>5

LEMMA SpawnStep == ASSUME ThreadsInv, NEW fails \in BOOLEAN, Spawn(fails) PROVE ThreadsInv'
<1>0. ThreadTypes /\ Mutex /\ OfThisRound /\ Places /\ Answers
  BY DEF ThreadsInv
<1>1. /\ mpc = "spawn" /\ UNCHANGED <<table, myIndex, mutexIndex, threadsIndex, threadsRet>>
      /\ tpc' = [tpc EXCEPT ![j] = IF fails THEN "none" ELSE "lock"]
      /\ \/ j + 1 < Amm /\ j' = j + 1 /\ mpc' = "spawn" /\ threadsFlag' = threadsFlag
         \/ ~ (j + 1 < Amm) /\ j' = 0 /\ mpc' = "poll" /\ threadsFlag' = TRUE
  BY DEF Spawn
<1>2. Amm' = Amm /\ Amm \in 2 .. 4 /\ j \in Threads /\ j \in 0 .. Amm - 1
  BY <1>0, <1>1, AmmFacts DEF Amm, ThreadTypes
<1>3. Begun = 0 .. j - 1 /\ Begun' = Begun \cup {j} /\ j \notin Begun
  BY <1>1, <1>2 DEF Begun
<1>4. tpc'[j] \in {"none", "lock"} /\ \A k \in Threads \ {j} : tpc'[k] = tpc[k]
  BY <1>0, <1>1, <1>2 DEF ThreadTypes
<1>5. tpc[j] \notin {"lock", "locked", "collect", "report"}
  BY <1>0, <1>2, <1>3 DEF OfThisRound, Running
<1>6. ThreadTypes'
  <2>1. tpc' \in [Threads -> {"none", "lock", "locked", "collect", "report", "done"}]
    BY <1>0, <1>1 DEF ThreadTypes
  <2>2. j' \in 0 .. Amm' - 1
    BY <1>1, <1>2
  <2>3. mpc' \in {"spawn", "poll"} /\ threadsFlag' \in BOOLEAN
    BY <1>0, <1>1 DEF ThreadTypes
  <2>. QED BY <1>0, <1>1, <2>1, <2>2, <2>3 DEF ThreadTypes
<1>7. Mutex'
  BY <1>0, <1>1, <1>2, <1>4, <1>5 DEF Mutex
<1>8. OfThisRound'
  BY <1>0, <1>1, <1>3, <1>4 DEF OfThisRound, Running, InRound
<1>9. Counted' = Counted
  BY <1>0, <1>2, <1>3, <1>4, BegunFacts DEF Counted
<1>10. Places'
  BY <1>0, <1>1, <1>3, <1>4, <1>9, BegunFacts DEF Places, InRound
<1>11. Answers'
  BY <1>0, <1>1, <1>3, <1>4, BegunFacts DEF Answers, InRound
<1>12. Seen'
  BY <1>1, <1>2 DEF Seen
<1>. QED BY <1>6, <1>7, <1>8, <1>10, <1>11, <1>12 DEF ThreadsInv

\* Who has seen an answer in every place has seen every thread answer.
LEMMA AllHaveAnswered ==
  ASSUME ThreadsInv, mpc = "poll", \A x \in 0 .. Amm - 1 : threadsRet[x] # 0
  PROVE  Running = {}
<1>. DEFINE D == {k \in Begun : tpc[k] = "done"}
            R == 0 .. Amm - 1
            who(x) == CHOOSE k \in D : myIndex[k] = x
            f == [x \in R |-> who(x)]
            W == {who(x) : x \in R}
<1>1. ThreadTypes /\ Begun = R /\ R \subseteq Threads /\ IsFiniteSet(R) /\ Cardinality(R) = Amm
  BY BegunFacts, AmmFacts DEF ThreadsInv, ThreadTypes, Begun
<1>2. \A x \in R : who(x) \in D /\ myIndex[who(x)] = x
  <2>. SUFFICES ASSUME NEW x \in R PROVE \E k \in D : myIndex[k] = x
    OBVIOUS
  <2>. QED BY <1>1 DEF ThreadsInv, Answers, InRound
<1>. HIDE DEF who
<1>3. f \in [R -> W] /\ (\A w \in W : \E x \in R : f[x] = w) /\ \A x, y \in R : f[x] = f[y] => x = y
  BY <1>2
<1>. HIDE DEF f
<1>4. f \in Surjection(R, W) /\ f \in Injection(R, W)
  BY <1>3 DEF Surjection, Injection, IsInjective
<1>5. Cardinality(W) = Amm
  BY <1>1, <1>4, FS_Surjection
<1>6. W \subseteq D /\ D \subseteq R
  BY <1>1, <1>2
<1>. HIDE DEF W
<1>7. W = R
  BY <1>1, <1>5, <1>6, FS_Subset
<1>8. \A k \in R : tpc[k] = "done"
  BY <1>6, <1>7
<1>. QED BY <1>1, <1>8 DEF ThreadsInv, OfThisRound, Running

LEMMA PollStep == ASSUME ThreadsInv, Poll PROVE ThreadsInv'
<1>0. ThreadTypes /\ Mutex /\ OfThisRound /\ Places /\ Answers /\ Seen
  BY DEF ThreadsInv
<1>1. /\ mpc = "poll"
      /\ UNCHANGED <<table, tpc, myIndex, mutexIndex, threadsIndex, threadsRet>>
  BY DEF Poll
<1>2. Amm' = Amm /\ Amm \in 2 .. 4 /\ j \in Threads /\ j \in 0 .. Amm - 1
  BY <1>0, <1>1, AmmFacts DEF Amm, ThreadTypes
<1>3. ~ (threadsRet[j] < 0)
  BY <1>0, <1>2 DEF ThreadTypes, NoMem
<1>4. Mutex' /\ Running' = Running
  BY <1>0, <1>1 DEF Mutex, Running
<1>5. CASE j + 1 < Amm
  <2>1. j' = j + 1 /\ threadsFlag' = (threadsFlag /\ threadsRet[j] # 0) /\ mpc' = mpc
    BY <1>3, <1>5 DEF Poll
  <2>2. ThreadTypes'
    BY <1>0, <1>1, <1>2, <1>5, <2>1 DEF ThreadTypes
  <2>3. Begun' = Begun
    BY <1>1, <1>2, <2>1 DEF Begun
  <2>4. Counted' = Counted
    BY <1>1, <2>3 DEF Counted
  <2>5. OfThisRound' /\ Places' /\ Answers'
    BY <1>0, <1>1, <1>4, <2>1, <2>3, <2>4 DEF OfThisRound, Places, Answers, InRound
  <2>6. Seen'
    <3>1. ASSUME threadsFlag' = TRUE PROVE \A x \in 0 .. j : threadsRet[x] # 0
      <4>1. threadsFlag /\ threadsRet[j] # 0
        BY <2>1, <3>1
      <4>2. \A x \in 0 .. j - 1 : threadsRet[x] # 0
        BY <1>0, <1>1, <4>1 DEF Seen
      <4>3. \A x \in 0 .. j : x = j \/ x \in 0 .. j - 1
        BY <1>2
      <4>. QED BY <4>1, <4>2, <4>3
    <3>2. 0 .. j' - 1 = 0 .. j
      BY <1>2, <2>1
    <3>3. threadsFlag' \in BOOLEAN
      BY <2>2 DEF ThreadTypes
    <3>. QED BY <1>1, <3>1, <3>2, <3>3 DEF Seen
  <2>. QED BY <1>4, <2>2, <2>5, <2>6 DEF ThreadsInv
<1>6. CASE ~ (j + 1 < Amm)
  <2>1. /\ j' = 0 /\ threadsFlag' = TRUE
        /\ \/ mpc' = "poll"
           \/ mpc' = "combine" /\ threadsFlag /\ threadsRet[j] # 0
    BY <1>1, <1>3, <1>6 DEF Poll
  <2>2. ThreadTypes'
    BY <1>0, <1>1, <1>2, <2>1 DEF ThreadTypes
  <2>3. Seen'
    BY <2>1 DEF Seen
  <2>4. CASE mpc' = "poll"
    <3>1. Begun' = Begun
      BY <1>1, <1>2, <2>4 DEF Begun
    <3>2. Counted' = Counted
      BY <1>1, <3>1 DEF Counted
    <3>3. OfThisRound' /\ Places' /\ Answers'
      BY <1>0, <1>1, <1>4, <2>4, <3>1, <3>2 DEF OfThisRound, Places, Answers, InRound
    <3>. QED BY <1>4, <2>2, <2>3, <3>3 DEF ThreadsInv
  <2>5. CASE mpc' = "combine" /\ threadsFlag /\ threadsRet[j] # 0
    <3>1. \A x \in 0 .. Amm - 1 : threadsRet[x] # 0
      BY <1>0, <1>1, <1>2, <1>6, <2>5 DEF Seen
    <3>2. Running' = {}
      BY <1>1, <1>4, <3>1, AllHaveAnswered
    <3>3. OfThisRound' /\ Places' /\ Answers'
      BY <2>5, <3>2 DEF OfThisRound, Places, Answers, InRound
    <3>. QED BY <1>4, <2>2, <2>3, <3>3 DEF ThreadsInv
  <2>. QED BY <2>1, <2>4, <2>5
<1>. QED BY <1>5, <1>6

LEMMA ThreadSteps ==
  ASSUME ThreadsInv, NEW k \in Threads, ThreadStep(k) \/ CollectFails(k)
  PROVE  ThreadsInv'
<1>0. ThreadTypes /\ Mutex /\ OfThisRound /\ Places /\ Answers /\ Seen
  BY DEF ThreadsInv
<1>1. k \in Running /\ UNCHANGED mainVars
  BY DEF ThreadStep, TakeIndex, CountIndex, Collect, CollectFails, ReportDone, Running
<1>2. InRound /\ k \in Begun /\ Amm' = Amm /\ Amm \in 2 .. 4
  BY <1>0, <1>1, AmmFacts DEF OfThisRound, ThreadTypes, mainVars, Amm
<1>3. Begun' = Begun /\ InRound' /\ Begun \subseteq Threads
  BY <1>0, <1>1, <1>2, BegunFacts DEF Begun, InRound, mainVars
<1>4. /\ \A l \in Threads \ {k} : tpc'[l] = tpc[l] /\ myIndex'[l] = myIndex[l]
      /\ tpc'[k] \in {"locked", "collect", "report", "done"}
  BY <1>0 DEF ThreadStep, TakeIndex, CountIndex, Collect, CollectFails, ReportDone, ThreadTypes
<1>5. OfThisRound'
  BY <1>0, <1>2, <1>3, <1>4 DEF OfThisRound, Running
<1>6. CASE TakeIndex(k)
  <2>1. /\ tpc[k] = "lock" /\ mutexIndex = -1 /\ mutexIndex' = k /\ tpc'[k] = "locked"
        /\ myIndex'[k] = threadsIndex /\ UNCHANGED <<threadsIndex, threadsRet>>
    BY <1>0, <1>6 DEF TakeIndex, ThreadTypes
  <2>2. ThreadTypes'
    BY <1>0, <1>1, <1>2, <1>6 DEF TakeIndex, ThreadTypes, mainVars
  <2>3. Mutex'
    BY <1>0, <1>4, <2>1 DEF Mutex, Threads
  <2>4. Counted' = Counted
    BY <1>3, <1>4, <2>1 DEF Counted
  <2>5. k \notin Counted
    BY <2>1 DEF Counted
  <2>6. Places'
    <3>1. \A l \in Begun \ {k} : tpc'[l] # "locked"
      <4>1. \A l \in Threads : l # -1
        BY DEF Threads
      <4>2. \A l \in Threads : tpc[l] # "locked"
        BY <1>0, <2>1, <4>1 DEF Mutex
      <4>. QED BY <1>3, <1>4, <4>2
    <3>2. \A l \in Counted : myIndex'[l] = myIndex[l]
      BY <1>3, <1>4, <2>5 DEF Counted
    <3>. QED BY <1>0, <1>2, <1>3, <2>1, <2>4, <3>1, <3>2 DEF Places
  <2>7. Answers'
    BY <1>0, <1>2, <1>3, <1>4, <2>1 DEF Answers
  <2>8. Seen'
    BY <1>0, <1>1, <2>1 DEF Seen, mainVars
  <2>. QED BY <1>5, <2>2, <2>3, <2>6, <2>7, <2>8 DEF ThreadsInv
<1>7. CASE CountIndex(k)
  <2>1. /\ tpc[k] = "locked" /\ mutexIndex' = -1 /\ tpc'[k] = "collect"
        /\ threadsIndex' = threadsIndex + 1 /\ UNCHANGED <<myIndex, threadsRet>>
    BY <1>0, <1>7 DEF CountIndex, ThreadTypes
  <2>2. ThreadTypes'
    BY <1>0, <1>1, <1>2, <1>7 DEF CountIndex, ThreadTypes, mainVars
  <2>3. Mutex'
    BY <1>0, <1>4, <2>1 DEF Mutex, Threads
  <2>4. Counted' = Counted \cup {k} /\ k \notin Counted
    BY <1>2, <1>3, <1>4, <2>1 DEF Counted
  <2>5. Cardinality(Counted') = Cardinality(Counted) + 1
    BY <1>0, <2>4, BegunFacts, FS_AddElement
  <2>6. myIndex[k] = threadsIndex /\ threadsIndex \in Nat /\ \A l \in Counted : myIndex[l] \in Nat
    BY <1>0, <1>2, <1>3, <2>1 DEF Places, ThreadTypes, Counted
  <2>7. Places'
    <3>1. \A l \in Begun : tpc'[l] # "locked"
      BY <1>0, <1>3, <1>4, <2>1 DEF Mutex, Threads
    <3>2. threadsIndex' = Cardinality(Counted')
      BY <1>0, <1>2, <2>1, <2>5 DEF Places
    <3>3. \A l \in Counted' : myIndex'[l] < threadsIndex'
      BY <1>0, <1>2, <2>1, <2>4, <2>6 DEF Places
    <3>4. \A l, m \in Counted' : myIndex'[l] = myIndex'[m] => l = m
      BY <1>0, <1>2, <2>1, <2>4, <2>6 DEF Places
    <3>. QED BY <1>3, <3>1, <3>2, <3>3, <3>4 DEF Places
  <2>8. Answers'
    BY <1>0, <1>2, <1>3, <1>4, <2>1 DEF Answers
  <2>9. Seen'
    BY <1>0, <1>1, <2>1 DEF Seen, mainVars
  <2>. QED BY <1>5, <2>2, <2>3, <2>7, <2>8, <2>9 DEF ThreadsInv
<1>8. CASE Collect(k) \/ CollectFails(k) \/ ReportDone(k)
  <2>1. /\ tpc[k] \in {"collect", "report"} /\ tpc'[k] \in {"report", "done"}
        /\ UNCHANGED <<myIndex, mutexIndex, threadsIndex>>
    BY <1>0, <1>8 DEF Collect, CollectFails, ReportDone, ThreadTypes
  <2>2. /\ myIndex[k] \in Threads
        /\ \/ threadsRet' = threadsRet
           \/ /\ tpc'[k] = "done" /\ threadsRet'[myIndex[k]] # 0
              /\ threadsRet' \in [Threads -> {0, 1, NoMem}]
              /\ \A x \in Threads \ {myIndex[k]} : threadsRet'[x] = threadsRet[x]
    <3>1. myIndex[k] \in Threads
      BY <1>2, <2>1, PlaceIsFree
    <3>. QED BY <1>0, <1>8, <3>1 DEF Collect, CollectFails, ReportDone, ThreadTypes, NoMem
  <2>3. ThreadTypes'
    <3>1. tpc' \in [Threads -> {"none", "lock", "locked", "collect", "report", "done"}]
      BY <1>0, <1>8 DEF Collect, CollectFails, ReportDone, ThreadTypes
    <3>2. threadsRet' \in [Threads -> {0, 1, NoMem}]
      BY <1>0, <2>2 DEF ThreadTypes
    <3>. QED BY <1>0, <1>1, <1>2, <2>1, <3>1, <3>2 DEF ThreadTypes, mainVars
  <2>4. Mutex'
    BY <1>0, <1>4, <2>1 DEF Mutex
  <2>5. Counted' = Counted
    BY <1>3, <1>4, <2>1 DEF Counted
  <2>6. Places'
    BY <1>0, <1>2, <1>3, <1>4, <2>1, <2>5 DEF Places
  <2>7. Answers'
    <3>1. ASSUME NEW x \in Threads, threadsRet'[x] # 0
          PROVE  \E l \in Begun : tpc'[l] = "done" /\ myIndex'[l] = x
      <4>1. CASE threadsRet[x] # 0
        <5>1. PICK l \in Begun : tpc[l] = "done" /\ myIndex[l] = x
          BY <1>0, <1>2, <4>1 DEF Answers
        <5>2. l # k
          BY <2>1, <5>1
        <5>. QED BY <1>3, <1>4, <2>1, <5>1, <5>2
      <4>2. CASE threadsRet[x] = 0
        <5>1. x = myIndex[k] /\ tpc'[k] = "done"
          BY <2>2, <3>1, <4>2
        <5>. QED BY <1>2, <2>1, <5>1
      <4>. QED BY <4>1, <4>2
    <3>. QED BY <1>3, <3>1 DEF Answers
  <2>8. Seen'
    <3>1. \A x \in Threads : threadsRet[x] # 0 => threadsRet'[x] # 0
      BY <2>2
    <3>2. 0 .. j - 1 \subseteq Threads
      BY <1>0, <1>2 DEF ThreadTypes, Threads
    <3>. QED BY <1>0, <1>1, <3>1, <3>2 DEF Seen, mainVars
  <2>. QED BY <1>5, <2>3, <2>4, <2>6, <2>7, <2>8 DEF ThreadsInv
<1>. QED BY <1>6, <1>7, <1>8 DEF ThreadStep

LEMMA ThreadsInductive == Spec => []ThreadsInv
<1>1. ThreadsInv /\ UNCHANGED vars => ThreadsInv'
  BY DEF vars, mainVars, ThreadsInv, ThreadTypes, Mutex, OfThisRound, Places, Answers, Seen,
     InRound, Begun, Counted, Running, Amm
<1>2. ThreadsInv /\ [Next]_vars => ThreadsInv'
  BY <1>1, MainSteps, SpawnStep, PollStep, ThreadSteps DEF Next, MainStep, Fault, Ended
<1>. QED BY ThreadsInit, <1>2, PTL DEF Spec

-----------------------------------------------------------------------------
(* Every thread has a place of threadsRet to itself, whatever the order in
   which the threads run and whichever of them fails: threadsIndex is counted
   under the mutex, and begins again when nobody is left to count. *)
THEOREM PlacesAreDistinct == Spec => []OnePlaceEach
<1>1. ThreadsInv => OnePlaceEach
  <2>. SUFFICES ASSUME ThreadsInv, NEW k \in Placed
                PROVE  threadsRet[myIndex[k]] = 0 /\ \A l \in Placed \ {k} : myIndex[l] # myIndex[k]
    BY DEF OnePlaceEach
  <2>1. \A l \in Placed : InRound /\ l \in Begun /\ tpc[l] \in {"locked", "collect", "report"}
    BY DEF Placed, ThreadsInv, OfThisRound, Running
  <2>2. threadsRet[myIndex[k]] = 0
    BY <2>1, PlaceIsFree
  <2>3. ASSUME NEW l \in Placed \ {k} PROVE myIndex[l] # myIndex[k]
    <3>1. CASE l \in Counted /\ k \in Counted
      BY <2>1, <3>1 DEF ThreadsInv, Places
    <3>2. CASE l \notin Counted /\ k \notin Counted
      <4>1. tpc[l] = "locked" /\ tpc[k] = "locked"
        BY <2>1, <3>2 DEF Counted
      <4>. QED BY <4>1, <2>3 DEF ThreadsInv, Mutex, Placed
    <3>3. CASE ~ (l \in Counted <=> k \in Counted)
      <4>1. myIndex[l] # threadsIndex <=> myIndex[k] = threadsIndex
        BY <2>1, <3>3 DEF ThreadsInv, Places, Counted, ThreadTypes
      <4>. QED BY <4>1
    <3>. QED BY <3>1, <3>2, <3>3
  <2>. QED BY <2>2, <2>3
<1>. QED BY ThreadsInductive, <1>1, PTL

(* No condition thread is left when the main thread leaves the polling loop:
   as many answers in as many places are the answers of all. *)
THEOREM NobodyStraggles == Spec => []NoStragglers
<1>1. ThreadsInv => NoStragglers
  BY DEF ThreadsInv, OfThisRound, NoStragglers, InRound
<1>. QED BY ThreadsInductive, <1>1, PTL

-----------------------------------------------------------------------------
(***************************************************************************)
(* Recursion and induction over the natural numbers, for sets.             *)
(***************************************************************************)
LEMMA LeastNat ==
  ASSUME NEW S \in SUBSET Nat, S # {}
  PROVE  \E m \in S : \A k \in S : m <= k
<1>. DEFINE Below(n) == 1 .. n
            T == {Below(n) : n \in S}
<1>1. ASSUME NEW n \in S PROVE Below(n) \in FiniteSubsetsOf(Nat)
  <2>1. n \in Int /\ 1 \in Int /\ Below(n) \subseteq Nat
    OBVIOUS
  <2>2. IsFiniteSet(1 .. n)
    BY <2>1, FS_Interval
  <2>. QED BY <2>1, <2>2 DEF FiniteSubsetsOf
<1>2. T \subseteq FiniteSubsetsOf(Nat) /\ T # {}
  BY <1>1
<1>3. \E x \in T : \A y \in T : ~ (<<y, x>> \in StrictSubsetOrdering(Nat))
  <2>. HIDE DEF T
  <2>. QED BY <1>2, WFMin, FS_StrictSubsetOrderingWellFounded
<1>4. PICK m \in S : \A k \in S : ~ (<<Below(k), Below(m)>> \in StrictSubsetOrdering(Nat))
  BY <1>3
<1>5. ASSUME NEW k \in S, k < m PROVE FALSE
  <2>1. Below(k) \subseteq Below(m) /\ m \in Below(m) /\ m \notin Below(k)
    BY <1>5
  <2>2. Below(k) \in SUBSET Nat /\ Below(m) \in SUBSET Nat
    OBVIOUS
  <2>. QED BY <1>4, <2>1, <2>2 DEF StrictSubsetOrdering
<1>. QED BY <1>5

LEMMA SetInduction ==
  ASSUME NEW S, 0 \in S, \A n \in Nat : n \in S => n + 1 \in S
  PROVE  Nat \subseteq S
<1>. SUFFICES ASSUME Nat \ S # {} PROVE FALSE
  OBVIOUS
<1>1. PICK n \in Nat \ S : \A m \in Nat \ S : n <= m
  BY LeastNat
<1>2. n # 0 /\ n - 1 \in Nat
  BY <1>1
<1>3. n - 1 \in S
  BY <1>1, <1>2
<1>. QED BY <1>1, <1>2, <1>3

\* There is a function that begins at first and goes on by step.
Recurs(v, N, first, step) == v = [n \in 0 .. N |-> IF n = 0 THEN first ELSE step[<<n, v[n - 1]>>]]

LEMMA Recursion ==
  ASSUME NEW R, NEW first \in R, NEW step, \A n \in Nat, r \in R : step[<<n, r>>] \in R, NEW N \in Nat
  PROVE  \E v \in [0 .. N -> R] : Recurs(v, N, first, step)
<1>. DEFINE E(v, n) == IF n = 0 THEN first ELSE step[<<n, v[n - 1]>>]
            Good == {n \in Nat : \E v \in [0 .. n -> R] : \A m \in 0 .. n : v[m] = E(v, m)}
<1>1. 0 \in Good
  <2>. DEFINE v == [m \in 0 .. 0 |-> first]
  <2>1. v \in [0 .. 0 -> R] /\ \A m \in 0 .. 0 : v[m] = E(v, m)
    OBVIOUS
  <2>. HIDE DEF v, E
  <2>. QED BY <2>1
<1>2. ASSUME NEW n \in Nat, n \in Good PROVE n + 1 \in Good
  <2>1. PICK v \in [0 .. n -> R] : \A m \in 0 .. n : v[m] = E(v, m)
    BY <1>2
  <2>. DEFINE w == [m \in 0 .. n + 1 |-> IF m = n + 1 THEN step[<<n + 1, v[n]>>] ELSE v[m]]
  <2>2. v[n] \in R /\ step[<<n + 1, v[n]>>] \in R
    BY <2>1
  <2>3. w \in [0 .. n + 1 -> R]
    BY <2>1, <2>2
  <2>4. ASSUME NEW m \in 0 .. n + 1 PROVE w[m] = E(w, m)
    <3>1. CASE m = n + 1
      <4>1. w[m] = step[<<m, v[n]>>] /\ w[m - 1] = v[n] /\ m # 0
        BY <3>1
      <4>2. m - 1 = n
        BY <3>1
      <4>. HIDE DEF w
      <4>. QED BY <4>1
    <3>2. CASE m = 0
      <4>1. 0 \in 0 .. n /\ m # n + 1
        BY <3>2
      <4>2. w[m] = v[m]
        BY <4>1
      <4>3. v[0] = first
        BY <2>1, <4>1
      <4>. HIDE DEF w
      <4>. QED BY <3>2, <4>2, <4>3
    <3>3. CASE m \in 1 .. n
      <4>1. w[m] = v[m] /\ w[m - 1] = v[m - 1]
        BY <3>3
      <4>. HIDE DEF w
      <4>. QED BY <2>1, <3>3, <4>1
    <3>. QED BY <3>1, <3>2, <3>3
  <2>. HIDE DEF w, E
  <2>. QED BY <2>3, <2>4
<1>. HIDE DEF Good
<1>3. N \in Good
  BY <1>1, <1>2, SetInduction
<1>4. PICK v \in [0 .. N -> R] : \A m \in 0 .. N : v[m] = E(v, m)
  BY <1>3 DEF Good
<1>5. v = [m \in 0 .. N |-> v[m]]
  OBVIOUS
<1>6. v = [m \in 0 .. N |-> E(v, m)]
  <2>. HIDE DEF E
  <2>. QED BY <1>4, <1>5
<1>. QED BY <1>6 DEF Recurs

-----------------------------------------------------------------------------
(***************************************************************************)
(* The sets as ascending arrays.                                           *)
(***************************************************************************)
Ascending(l) == l \in Seq(Nat) /\ \A p, q \in DOMAIN l : p < q => l[p] < l[q]

LEMMA EmptyAscends == Ascending(<<>>) /\ Range(<<>>) = {}
BY DEF Ascending, Range

LEMMA AppendAscends ==
  ASSUME NEW l, Ascending(l), NEW c \in Nat, \A p \in DOMAIN l : l[p] < c
  PROVE  Ascending(Append(l, c)) /\ Range(Append(l, c)) = Range(l) \cup {c}
<1>. DEFINE m == Append(l, c)
<1>1. l \in Seq(Nat) /\ Len(l) \in Nat /\ DOMAIN l = 1 .. Len(l)
  BY DEF Ascending
<1>2. /\ m \in Seq(Nat) /\ DOMAIN m = 1 .. Len(l) + 1 /\ m[Len(l) + 1] = c
      /\ \A p \in 1 .. Len(l) : m[p] = l[p]
  BY <1>1, AppendProperties
<1>. HIDE DEF m
<1>3. ASSUME NEW p \in DOMAIN m, NEW q \in DOMAIN m, p < q PROVE m[p] < m[q]
  <2>1. p \in 1 .. Len(l)
    BY <1>1, <1>2, <1>3
  <2>2. CASE q = Len(l) + 1
    BY <1>1, <1>2, <2>1, <2>2
  <2>3. CASE q \in 1 .. Len(l)
    BY <1>1, <1>2, <1>3, <2>1, <2>3 DEF Ascending
  <2>. QED BY <1>1, <1>2, <2>2, <2>3
<1>4. Range(m) = Range(l) \cup {c}
  <2>1. ASSUME NEW x \in Range(m) PROVE x \in Range(l) \cup {c}
    BY <1>1, <1>2 DEF Range
  <2>2. ASSUME NEW p \in DOMAIN l PROVE l[p] \in Range(m)
    <3>1. p \in DOMAIN m /\ m[p] = l[p]
      BY <1>1, <1>2
    <3>. QED BY <3>1 DEF Range
  <2>3. c \in Range(m)
    <3>1. Len(l) + 1 \in DOMAIN m
      BY <1>1, <1>2
    <3>. QED BY <1>2, <3>1 DEF Range
  <2>. QED BY <2>1, <2>2, <2>3 DEF Range
<1>. QED BY <1>2, <1>3, <1>4 DEF Ascending, m

(* The loop over the table lists exactly a set, in ascending order. *)
LEMMA ListedMeans ==
  ASSUME table \in Tables, NEW S \in SUBSET DOMAIN table
  PROVE  Ascending(Listed(S)) /\ Range(Listed(S)) = S
<1>. DEFINE N == Cardinality(DOMAIN table)
            R == Seq(Nat)
            step == [p \in Nat \X R |-> IF p[1] - 1 \in S THEN Append(p[2], p[1] - 1) ELSE p[2]]
            Is(v) == v = [n \in 0 .. N |->
                            IF n = 0 THEN <<>> ELSE IF n - 1 \in S THEN Append(v[n - 1], n - 1) ELSE v[n - 1]]
<1>1. N \in Nat /\ DOMAIN table = 0 .. N - 1
  BY TablesOK, FS_CardinalityType
<1>2. S \subseteq Nat /\ \A c \in S : c < N
  BY <1>1
<1>. HIDE DEF N
<1>3. ASSUME NEW n \in Nat, NEW r \in R
      PROVE  step[<<n, r>>] = (IF n - 1 \in S THEN Append(r, n - 1) ELSE r) /\ step[<<n, r>>] \in R
  BY <1>2
<1>4. \E v : Is(v)
  <2>1. \A n \in Nat, r \in R : step[<<n, r>>] \in R
    BY <1>3
  <2>. HIDE DEF step
  <2>2. <<>> \in R
    OBVIOUS
  <2>. HIDE DEF R
  <2>3. PICK v \in [0 .. N -> R] : Recurs(v, N, <<>>, step)
    BY <1>1, <2>1, <2>2, Recursion
  <2>4. \A n \in 0 .. N : n # 0 => step[<<n, v[n - 1]>>] = IF n - 1 \in S THEN Append(v[n - 1], n - 1) ELSE v[n - 1]
    <3>. TAKE n \in 0 .. N
    <3>1. n # 0 => n \in Nat /\ v[n - 1] \in R
      BY <1>1, <2>3
    <3>. QED BY <1>3, <3>1
  <2>5. Is(v)
    BY <2>3, <2>4 DEF Recurs
  <2>. QED BY <2>5
<1>. DEFINE list == CHOOSE v : Is(v)
<1>5. Is(list)
  BY <1>4
<1>6. Listed(S) = list[N]
  BY DEF Listed, N
<1>. HIDE DEF list
<1>11. ASSUME NEW n \in 0 .. N
       PROVE  list[n] = IF n = 0 THEN <<>> ELSE IF n - 1 \in S THEN Append(list[n - 1], n - 1) ELSE list[n - 1]
  BY <1>5
<1>. DEFINE Good == {n \in Nat : n <= N => /\ Ascending(list[n])
                                        /\ Range(list[n]) = {c \in S : c < n}}
<1>7. 0 \in Good
  <2>1. list[0] = <<>>
    <3>1. 0 \in 0 .. N
      BY <1>1
    <3>. QED BY <1>5, <3>1
  <2>2. {c \in S : c < 0} = {}
    BY <1>2
  <2>. QED BY <2>1, <2>2, EmptyAscends
<1>8. ASSUME NEW n \in Nat, n \in Good PROVE n + 1 \in Good
  <2>. SUFFICES ASSUME n + 1 <= N
                PROVE  Ascending(list[n + 1]) /\ Range(list[n + 1]) = {c \in S : c < n + 1}
    OBVIOUS
  <2>1. Ascending(list[n]) /\ Range(list[n]) = {c \in S : c < n}
    BY <1>1, <1>8
  <2>2. list[n + 1] = IF n \in S THEN Append(list[n], n) ELSE list[n]
    <3>1. n + 1 \in 0 .. N /\ n + 1 # 0 /\ n + 1 - 1 = n
      BY <1>1
    <3>2. list[n + 1] = IF n + 1 = 0 THEN <<>>
                        ELSE IF n + 1 - 1 \in S THEN Append(list[n + 1 - 1], n + 1 - 1) ELSE list[n + 1 - 1]
      BY <1>11, <3>1
    <3>. HIDE DEF Is
    <3>. QED BY <3>1, <3>2
  <2>3. CASE n \in S
    <3>1. \A p \in DOMAIN list[n] : list[n][p] < n
      BY <2>1 DEF Range
    <3>2. Ascending(Append(list[n], n)) /\ Range(Append(list[n], n)) = {c \in S : c < n} \cup {n}
      BY <2>1, <3>1, AppendAscends
    <3>3. {c \in S : c < n} \cup {n} = {c \in S : c < n + 1}
      BY <1>2, <2>3
    <3>. QED BY <2>2, <2>3, <3>2, <3>3
  <2>4. CASE n \notin S
    <3>1. {c \in S : c < n} = {c \in S : c < n + 1}
      BY <1>2, <2>4
    <3>. QED BY <2>1, <2>2, <2>4, <3>1
  <2>. QED BY <2>3, <2>4
<1>. HIDE DEF Good
<1>9. N \in Good
  BY <1>1, <1>7, <1>8, SetInduction
<1>10. {c \in S : c < N} = S
  BY <1>2
<1>. QED BY <1>1, <1>6, <1>9, <1>10 DEF Good

-----------------------------------------------------------------------------
(***************************************************************************)
(* The merge loop of intersect leaves what two ascending arrays have in    *)
(* common, from each pair of positions on.                                 *)
(***************************************************************************)
From(a, x) == {a[i] : i \in x .. Len(a)}

Pairs(a, b) == (1 .. Len(a) + 1) \X (1 .. Len(b) + 1)

\* The steps that may be left from a pair of positions.
Left(a, b, p) == (Len(a) + 1 - p[1]) + (Len(b) + 1 - p[2])

MergeStep(a, b, m, p) ==
  IF p[1] > Len(a) \/ p[2] > Len(b) THEN <<>>
  ELSE IF a[p[1]] = b[p[2]] THEN <<a[p[1]]>> \o m[<<p[1] + 1, p[2] + 1>>]
  ELSE IF a[p[1]] < b[p[2]] THEN m[<<p[1] + 1, p[2]>>]
  ELSE m[<<p[1], p[2] + 1>>]

LEMMA FromSteps ==
  ASSUME NEW a, Ascending(a), NEW x \in 1 .. Len(a)
  PROVE  /\ a[x] \in Nat
         /\ From(a, x) = {a[x]} \cup From(a, x + 1)
         /\ \A d \in From(a, x + 1) : d \in Nat /\ a[x] < d
<1>1. a \in Seq(Nat) /\ Len(a) \in Nat /\ DOMAIN a = 1 .. Len(a)
  BY DEF Ascending
<1>2. x .. Len(a) = {x} \cup x + 1 .. Len(a)
  BY <1>1
<1>3. From(a, x) = {a[x]} \cup From(a, x + 1)
  BY <1>2 DEF From
<1>4. ASSUME NEW i \in x + 1 .. Len(a) PROVE a[i] \in Nat /\ a[x] < a[i]
  <2>1. i \in DOMAIN a /\ x \in DOMAIN a /\ x < i
    BY <1>1
  <2>. QED BY <1>1, <2>1 DEF Ascending
<1>5. \A d \in From(a, x + 1) : d \in Nat /\ a[x] < d
  BY <1>4 DEF From
<1>6. a[x] \in Nat
  BY <1>1
<1>. QED BY <1>3, <1>5, <1>6

LEMMA PrependAscends ==
  ASSUME NEW l, Ascending(l), NEW c \in Nat, \A d \in Range(l) : c < d
  PROVE  Ascending(<<c>> \o l) /\ Range(<<c>> \o l) = {c} \cup Range(l)
<1>. DEFINE m == <<c>> \o l
<1>1. l \in Seq(Nat) /\ Len(l) \in Nat /\ DOMAIN l = 1 .. Len(l)
  BY DEF Ascending
<1>2. /\ m \in Seq(Nat) /\ DOMAIN m = 1 .. Len(l) + 1 /\ m[1] = c
      /\ \A p \in 1 .. Len(l) : m[p + 1] = l[p]
  <2>1. <<c>> \in Seq(Nat) /\ Len(<<c>>) = 1 /\ <<c>>[1] = c
    OBVIOUS
  <2>2. m \in Seq(Nat) /\ Len(m) = 1 + Len(l)
    BY <1>1, <2>1, ConcatProperties
  <2>3. \A p \in 1 .. Len(m) : m[p] = IF p <= 1 THEN <<c>>[p] ELSE l[p - 1]
    BY <1>1, <2>1, ConcatProperties
  <2>. HIDE DEF m
  <2>4. DOMAIN m = 1 .. Len(l) + 1
    BY <1>1, <2>2
  <2>5. m[1] = c
    BY <1>1, <2>1, <2>2, <2>3
  <2>6. ASSUME NEW p \in 1 .. Len(l) PROVE m[p + 1] = l[p]
    <3>1. p + 1 \in 1 .. Len(m) /\ ~ (p + 1 <= 1) /\ p + 1 - 1 = p
      BY <1>1, <2>2
    <3>2. m[p + 1] = IF p + 1 <= 1 THEN <<c>>[p + 1] ELSE l[p + 1 - 1]
      BY <2>3, <3>1
    <3>. QED BY <3>1, <3>2
  <2>. QED BY <2>2, <2>4, <2>5, <2>6
<1>. HIDE DEF m
<1>3. ASSUME NEW p \in 1 .. Len(l) PROVE l[p] \in Range(l) /\ l[p] \in Nat
  BY <1>1 DEF Range
<1>4. ASSUME NEW p \in DOMAIN m, NEW q \in DOMAIN m, p < q PROVE m[p] < m[q]
  <2>1. q - 1 \in 1 .. Len(l) /\ q - 1 + 1 = q
    BY <1>1, <1>2, <1>4
  <2>2. m[q] = l[q - 1]
    BY <1>2, <2>1
  <2>3. CASE p = 1
    BY <1>2, <1>3, <2>1, <2>2, <2>3
  <2>4. CASE p # 1
    <3>1. p - 1 \in 1 .. Len(l) /\ p - 1 + 1 = p /\ p - 1 < q - 1
      BY <1>1, <1>2, <1>4, <2>1, <2>4
    <3>2. m[p] = l[p - 1]
      BY <1>2, <3>1
    <3>. QED BY <1>1, <2>1, <2>2, <3>1, <3>2 DEF Ascending
  <2>. QED BY <2>3, <2>4
<1>5. Range(m) = {c} \cup Range(l)
  <2>1. ASSUME NEW p \in DOMAIN m PROVE m[p] \in {c} \cup Range(l)
    <3>1. CASE p = 1
      BY <1>2, <3>1
    <3>2. CASE p # 1
      <4>1. p - 1 \in 1 .. Len(l) /\ p - 1 + 1 = p
        BY <1>1, <1>2, <3>2
      <4>. QED BY <1>2, <1>3, <4>1
    <3>. QED BY <3>1, <3>2
  <2>2. ASSUME NEW p \in DOMAIN l PROVE l[p] \in Range(m)
    <3>1. p + 1 \in DOMAIN m /\ m[p + 1] = l[p]
      BY <1>1, <1>2
    <3>. QED BY <3>1 DEF Range
  <2>3. c \in Range(m)
    <3>1. 1 \in DOMAIN m
      BY <1>1, <1>2
    <3>. QED BY <1>2, <3>1 DEF Range
  <2>. QED BY <2>1, <2>2, <2>3 DEF Range
<1>. QED BY <1>2, <1>4, <1>5 DEF Ascending, m

\* Each way to go on leaves less.
LEMMA LeftFalls ==
  ASSUME NEW a, NEW b, Len(a) \in Nat, Len(b) \in Nat,
         NEW x \in 1 .. Len(a), NEW k \in 1 .. Len(b)
  PROVE  /\ Left(a, b, <<x + 1, k + 1>>) < Left(a, b, <<x, k>>)
         /\ Left(a, b, <<x + 1, k>>) < Left(a, b, <<x, k>>)
         /\ Left(a, b, <<x, k + 1>>) < Left(a, b, <<x, k>>)
<1>1. ASSUME NEW y \in Nat, NEW z \in Nat
      PROVE  Left(a, b, <<y, z>>) = (Len(a) + 1 - y) + (Len(b) + 1 - z)
  BY DEF Left
<1>2. /\ Left(a, b, <<x, k>>) = (Len(a) + 1 - x) + (Len(b) + 1 - k)
      /\ Left(a, b, <<x + 1, k + 1>>) = (Len(a) + 1 - (x + 1)) + (Len(b) + 1 - (k + 1))
      /\ Left(a, b, <<x + 1, k>>) = (Len(a) + 1 - (x + 1)) + (Len(b) + 1 - k)
      /\ Left(a, b, <<x, k + 1>>) = (Len(a) + 1 - x) + (Len(b) + 1 - (k + 1))
  BY <1>1
<1>. QED BY <1>2

LEMMA MergeExists ==
  ASSUME NEW a, NEW b, Ascending(a), Ascending(b)
  PROVE  \E m : m = [p \in Pairs(a, b) |-> MergeStep(a, b, m, p)]
<1>. DEFINE D == Pairs(a, b)
            Good == {n \in Nat : \E m : \A p \in D : Left(a, b, p) <= n => m[p] = MergeStep(a, b, m, p)}
<1>1. Len(a) \in Nat /\ Len(b) \in Nat
  BY DEF Ascending
<1>2. ASSUME NEW p \in D
      PROVE  /\ p[1] \in 1 .. Len(a) + 1 /\ p[2] \in 1 .. Len(b) + 1
             /\ Left(a, b, p) \in Nat
             /\ Left(a, b, p) <= Len(a) + Len(b)
  BY <1>1 DEF Pairs, Left
<1>3. ASSUME NEW p \in D, NEW m, NEW w,
             \A q \in D : Left(a, b, q) < Left(a, b, p) => w[q] = m[q]
      PROVE  MergeStep(a, b, w, p) = MergeStep(a, b, m, p)
  <2>1. CASE p[1] > Len(a) \/ p[2] > Len(b)
    BY <2>1 DEF MergeStep
  <2>2. CASE p[1] \in 1 .. Len(a) /\ p[2] \in 1 .. Len(b)
    <3>. DEFINE q1 == <<p[1] + 1, p[2] + 1>>
                q2 == <<p[1] + 1, p[2]>>
                q3 == <<p[1], p[2] + 1>>
    <3>1. q1 \in D /\ q2 \in D /\ q3 \in D
      BY <1>1, <2>2 DEF Pairs
    <3>2. /\ Left(a, b, q1) < Left(a, b, p)
          /\ Left(a, b, q2) < Left(a, b, p)
          /\ Left(a, b, q3) < Left(a, b, p)
      <4>1. p = <<p[1], p[2]>>
        BY DEF Pairs
      <4>. QED BY <1>1, <2>2, <4>1, LeftFalls
    <3>3. w[q1] = m[q1] /\ w[q2] = m[q2] /\ w[q3] = m[q3]
      <4>. HIDE DEF q1, q2, q3, D
      <4>. QED BY <1>3, <3>1, <3>2
    <3>. QED BY <3>3 DEF MergeStep
  <2>. QED BY <1>1, <1>2, <2>1, <2>2
<1>. HIDE DEF D
<1>4. 0 \in Good
  <2>. DEFINE m == [p \in D |-> <<>>]
  <2>1. ASSUME NEW p \in D, Left(a, b, p) <= 0 PROVE m[p] = MergeStep(a, b, m, p)
    <3>1. p[1] > Len(a)
      BY <1>1, <1>2, <2>1 DEF Left
    <3>. QED BY <3>1 DEF MergeStep
  <2>. HIDE DEF m
  <2>. QED BY <2>1
<1>5. ASSUME NEW n \in Nat, n \in Good PROVE n + 1 \in Good
  <2>1. PICK m : \A p \in D : Left(a, b, p) <= n => m[p] = MergeStep(a, b, m, p)
    BY <1>5
  <2>. DEFINE w == [p \in D |-> IF Left(a, b, p) = n + 1 THEN MergeStep(a, b, m, p) ELSE m[p]]
  <2>2. ASSUME NEW p \in D, Left(a, b, p) <= n + 1 PROVE w[p] = MergeStep(a, b, w, p)
    <3>1. ASSUME NEW q \in D, Left(a, b, q) < Left(a, b, p) PROVE w[q] = m[q]
      <4>1. Left(a, b, q) # n + 1
        BY <1>2, <2>2, <3>1
      <4>. QED BY <4>1
    <3>. DEFINE next == MergeStep(a, b, m, p)
    <3>2. w[p] = IF Left(a, b, p) = n + 1 THEN next ELSE m[p]
      OBVIOUS
    <3>. HIDE DEF w
    <3>3. MergeStep(a, b, w, p) = next
      BY <1>3, <3>1
    <3>4. Left(a, b, p) # n + 1 => m[p] = next
      <4>1. Left(a, b, p) # n + 1 => Left(a, b, p) <= n
        BY <1>2, <2>2
      <4>. QED BY <2>1, <4>1
    <3>. HIDE DEF next
    <3>. QED BY <3>2, <3>3, <3>4
  <2>. HIDE DEF w
  <2>. QED BY <2>2
<1>. DEFINE N == Len(a) + Len(b)
<1>. HIDE DEF Good
<1>6. N \in Good
  <2>1. N \in Nat
    BY <1>1
  <2>. HIDE DEF N
  <2>. QED BY <1>4, <1>5, <2>1, SetInduction
<1>7. PICK m : \A p \in D : Left(a, b, p) <= N => m[p] = MergeStep(a, b, m, p)
  BY <1>6 DEF Good
<1>. DEFINE w == [p \in D |-> m[p]]
<1>8. ASSUME NEW p \in D PROVE w[p] = MergeStep(a, b, w, p)
  <2>1. w[p] = MergeStep(a, b, m, p)
    BY <1>2, <1>7
  <2>2. \A q \in D : w[q] = m[q]
    OBVIOUS
  <2>. HIDE DEF w
  <2>. QED BY <1>3, <2>1, <2>2
<1>9. w = [p \in D |-> w[p]]
  OBVIOUS
<1>. HIDE DEF w
<1>10. w = [p \in D |-> MergeStep(a, b, w, p)]
  BY <1>8, <1>9
<1>. QED BY <1>10 DEF D

LEMMA MergeMeans ==
  ASSUME NEW a, NEW b, Ascending(a), Ascending(b)
  PROVE  Ascending(Merge(a, b)) /\ Range(Merge(a, b)) = Range(a) \cap Range(b)
<1>. DEFINE D == Pairs(a, b)
            Is(m) == m = [p \in Pairs(a, b) |-> MergeStep(a, b, m, p)]
            m == CHOOSE v : Is(v)
            Fits(p) == Ascending(m[p]) /\ Range(m[p]) = From(a, p[1]) \cap From(b, p[2])
            Good == {n \in Nat : \A p \in D : Left(a, b, p) <= n => Fits(p)}
<1>1. Len(a) \in Nat /\ Len(b) \in Nat /\ DOMAIN a = 1 .. Len(a) /\ DOMAIN b = 1 .. Len(b)
  BY DEF Ascending
<1>2. Is(m)
  BY MergeExists
<1>3. Merge(a, b) = m[<<1, 1>>]
  BY DEF Merge, Pairs, MergeStep
<1>. HIDE DEF m
<1>4. ASSUME NEW p \in D PROVE m[p] = MergeStep(a, b, m, p)
  <2>. DEFINE v == [q \in Pairs(a, b) |-> MergeStep(a, b, m, q)]
  <2>1. v[p] = MergeStep(a, b, m, p)
    OBVIOUS
  <2>2. m = v
    BY <1>2
  <2>. HIDE DEF v, Is
  <2>. QED BY <2>1, <2>2
<1>. HIDE DEF Is
<1>5. ASSUME NEW p \in D
      PROVE  /\ p[1] \in 1 .. Len(a) + 1 /\ p[2] \in 1 .. Len(b) + 1
             /\ Left(a, b, p) \in Nat
             /\ Left(a, b, p) <= Len(a) + Len(b)
  BY <1>1 DEF Pairs, Left
<1>6. ASSUME NEW p \in D, p[1] > Len(a) \/ p[2] > Len(b) PROVE Fits(p)
  <2>1. m[p] = <<>>
    BY <1>4, <1>6 DEF MergeStep
  <2>2. From(a, p[1]) = {} \/ From(b, p[2]) = {}
    BY <1>1, <1>5, <1>6 DEF From
  <2>. QED BY <2>1, <2>2, EmptyAscends
<1>7. 0 \in Good
  <2>1. ASSUME NEW p \in D, Left(a, b, p) <= 0 PROVE p[1] > Len(a)
    BY <1>1, <1>5, <2>1 DEF Left
  <2>. HIDE DEF Fits
  <2>. QED BY <1>6, <2>1
<1>8. ASSUME NEW n \in Nat, n \in Good PROVE n + 1 \in Good
  <2>. SUFFICES ASSUME NEW p \in D, Left(a, b, p) <= n + 1, p[1] <= Len(a), p[2] <= Len(b)
                PROVE  Fits(p)
    <3>. HIDE DEF Fits
    <3>1. ASSUME NEW p \in D PROVE (p[1] > Len(a) \/ p[2] > Len(b)) \/ (p[1] <= Len(a) /\ p[2] <= Len(b))
      BY <1>1, <1>5
    <3>. QED BY <1>6, <3>1
  <2>. DEFINE x == p[1]
              k == p[2]
              q1 == <<x + 1, k + 1>>
              q2 == <<x + 1, k>>
              q3 == <<x, k + 1>>
  <2>1. x \in 1 .. Len(a) /\ k \in 1 .. Len(b)
    BY <1>1, <1>5
  <2>2. m[p] = IF a[x] = b[k] THEN <<a[x]>> \o m[q1] ELSE IF a[x] < b[k] THEN m[q2] ELSE m[q3]
    <3>1. ~ (x > Len(a) \/ k > Len(b))
      BY <1>1, <2>1
    <3>. QED BY <1>4, <3>1 DEF MergeStep
  <2>3. /\ a[x] \in Nat /\ From(a, x) = {a[x]} \cup From(a, x + 1)
        /\ \A d \in From(a, x + 1) : d \in Nat /\ a[x] < d
    BY <2>1, FromSteps
  <2>4. /\ b[k] \in Nat /\ From(b, k) = {b[k]} \cup From(b, k + 1)
        /\ \A d \in From(b, k + 1) : d \in Nat /\ b[k] < d
    BY <2>1, FromSteps
  <2>5. /\ q1 \in D /\ q1[1] = x + 1 /\ q1[2] = k + 1 /\ Left(a, b, q1) <= n
        /\ q2 \in D /\ q2[1] = x + 1 /\ q2[2] = k /\ Left(a, b, q2) <= n
        /\ q3 \in D /\ q3[1] = x /\ q3[2] = k + 1 /\ Left(a, b, q3) <= n
    <3>1. q1 \in D /\ q2 \in D /\ q3 \in D
      BY <1>1, <2>1 DEF Pairs
    <3>2. /\ Left(a, b, q1) < Left(a, b, p)
          /\ Left(a, b, q2) < Left(a, b, p)
          /\ Left(a, b, q3) < Left(a, b, p)
      <4>1. p = <<x, k>>
        BY DEF Pairs
      <4>. QED BY <1>1, <2>1, <4>1, LeftFalls
    <3>3. /\ Left(a, b, q1) \in Nat /\ Left(a, b, q2) \in Nat /\ Left(a, b, q3) \in Nat
          /\ Left(a, b, p) \in Nat
      BY <1>5, <3>1
    <3>4. Left(a, b, q1) <= n /\ Left(a, b, q2) <= n /\ Left(a, b, q3) <= n
      BY <3>2, <3>3
    <3>. QED BY <3>1, <3>4
  <2>. HIDE DEF x, k, q1, q2, q3, D
  <2>6. /\ Ascending(m[q1]) /\ Range(m[q1]) = From(a, x + 1) \cap From(b, k + 1)
        /\ Ascending(m[q2]) /\ Range(m[q2]) = From(a, x + 1) \cap From(b, k)
        /\ Ascending(m[q3]) /\ Range(m[q3]) = From(a, x) \cap From(b, k + 1)
    BY <1>8, <2>5
  <2>7. Ascending(m[p]) /\ Range(m[p]) = From(a, x) \cap From(b, k)
    <3>1. CASE a[x] = b[k]
      <4>1. \A d \in Range(m[q1]) : a[x] < d
        BY <2>3, <2>6
      <4>2. /\ Ascending(<<a[x]>> \o m[q1])
            /\ Range(<<a[x]>> \o m[q1]) = {a[x]} \cup Range(m[q1])
        BY <2>3, <2>6, <4>1, PrependAscends
      <4>3. {a[x]} \cup Range(m[q1]) = From(a, x) \cap From(b, k)
        BY <2>3, <2>4, <2>6, <3>1
      <4>. QED BY <2>2, <3>1, <4>2, <4>3
    <3>2. CASE a[x] < b[k]
      <4>1. a[x] \notin From(b, k)
        BY <2>3, <2>4, <3>2
      <4>2. From(a, x) \cap From(b, k) = From(a, x + 1) \cap From(b, k)
        BY <2>3, <4>1
      <4>. QED BY <2>2, <2>3, <2>4, <2>6, <3>2, <4>2
    <3>3. CASE b[k] < a[x]
      <4>1. b[k] \notin From(a, x)
        BY <2>3, <2>4, <3>3
      <4>2. From(a, x) \cap From(b, k) = From(a, x) \cap From(b, k + 1)
        BY <2>4, <4>1
      <4>3. m[p] = m[q3]
        BY <2>2, <2>3, <2>4, <3>3
      <4>. QED BY <2>6, <4>2, <4>3
    <3>. QED BY <2>3, <2>4, <3>1, <3>2, <3>3
  <2>. QED BY <2>7 DEF x, k
<1>9. Fits(<<1, 1>>)
  <2>1. <<1, 1>> \in D /\ Len(a) + Len(b) \in Nat
    BY <1>1 DEF Pairs
  <2>2. Left(a, b, <<1, 1>>) <= Len(a) + Len(b)
    BY <1>5, <2>1
  <2>3. Len(a) + Len(b) \in Good
    <3>. HIDE DEF Good
    <3>. QED BY <1>7, <1>8, <2>1, SetInduction
  <2>. HIDE DEF Fits, D
  <2>. QED BY <2>1, <2>2, <2>3
<1>10. From(a, 1) = Range(a) /\ From(b, 1) = Range(b)
  BY <1>1 DEF From, Range
<1>. QED BY <1>3, <1>9, <1>10

(* intersect leaves what is in every set. *)
LEMMA IntersectMeans ==
  ASSUME table \in Tables, NEW s, \A k \in 0 .. Amm - 1 : Ascending(s[k])
  PROVE  /\ Ascending(Intersect(s))
         /\ \A c : c \in Range(Intersect(s)) <=> \A k \in 0 .. Amm - 1 : c \in Range(s[k])
<1>. DEFINE N == Amm - 1
            R == {l \in Seq(Nat) : Ascending(l)}
            step == [p \in Nat \X R |-> IF p[1] <= N THEN Merge(p[2], s[p[1]]) ELSE p[2]]
            Is(v) == v = [n \in 0 .. N |-> IF n = 0 THEN s[0] ELSE Merge(v[n - 1], s[n])]
            aux == CHOOSE v : Is(v)
            InAll(c, n) == \A k \in 0 .. n : c \in Range(s[k])
            Fits(n) == Ascending(aux[n]) /\ \A c : c \in Range(aux[n]) <=> InAll(c, n)
            Good == {n \in Nat : n <= N => Fits(n)}
<1>1. N \in Nat /\ 0 \in 0 .. N
  BY AmmFacts
<1>2. Intersect(s) = aux[N]
  BY DEF Intersect
<1>3. \A k \in 0 .. N : Ascending(s[k])
  OBVIOUS
<1>. HIDE DEF N
<1>4. ASSUME NEW n \in Nat, NEW r \in R
      PROVE  step[<<n, r>>] = (IF n <= N THEN Merge(r, s[n]) ELSE r) /\ step[<<n, r>>] \in R
  <2>1. step[<<n, r>>] = IF n <= N THEN Merge(r, s[n]) ELSE r
    <3>. HIDE DEF R
    <3>. QED OBVIOUS
  <2>2. n <= N => n \in 0 .. N
    BY <1>1
  <2>3. n <= N => Ascending(Merge(r, s[n]))
    BY <1>3, <2>2, MergeMeans
  <2>. HIDE DEF step
  <2>. QED BY <2>1, <2>3 DEF Ascending
<1>5. \E v : Is(v)
  <2>1. \A n \in Nat, r \in R : step[<<n, r>>] \in R
    BY <1>4
  <2>2. s[0] \in R
    BY <1>1, <1>3 DEF Ascending
  <2>. HIDE DEF step, R
  <2>3. PICK v \in [0 .. N -> R] : Recurs(v, N, s[0], step)
    BY <1>1, <2>1, <2>2, Recursion
  <2>4. \A n \in 0 .. N : n # 0 => step[<<n, v[n - 1]>>] = Merge(v[n - 1], s[n])
    <3>. TAKE n \in 0 .. N
    <3>1. n # 0 => n \in Nat /\ v[n - 1] \in R /\ n <= N
      BY <1>1, <2>3
    <3>. QED BY <1>4, <3>1
  <2>5. Is(v)
    BY <2>3, <2>4 DEF Recurs
  <2>. QED BY <2>5
<1>6. Is(aux)
  BY <1>5
<1>. HIDE DEF aux
<1>7. ASSUME NEW n \in 0 .. N PROVE aux[n] = IF n = 0 THEN s[0] ELSE Merge(aux[n - 1], s[n])
  BY <1>6
<1>. HIDE DEF Is
<1>8. 0 \in Good
  <2>1. aux[0] = s[0] /\ 0 .. 0 = {0}
    BY <1>1, <1>7
  <2>2. Fits(0)
    BY <1>1, <1>3, <2>1
  <2>. QED BY <2>2
<1>9. ASSUME NEW n \in Nat, n \in Good PROVE n + 1 \in Good
  <2>. SUFFICES ASSUME n + 1 <= N PROVE Fits(n + 1)
    <3>. HIDE DEF Fits
    <3>. QED OBVIOUS
  <2>1. Fits(n)
    <3>1. n <= N
      BY <1>1
    <3>. HIDE DEF Fits
    <3>. QED BY <1>9, <3>1
  <2>2. n + 1 \in 0 .. N /\ n + 1 # 0 /\ n + 1 - 1 = n
    BY <1>1
  <2>3. aux[n + 1] = Merge(aux[n], s[n + 1])
    <3>1. aux[n + 1] = IF n + 1 = 0 THEN s[0] ELSE Merge(aux[n + 1 - 1], s[n + 1])
      BY <1>7, <2>2
    <3>. QED BY <2>2, <3>1
  <2>4. Ascending(aux[n + 1]) /\ Range(aux[n + 1]) = Range(aux[n]) \cap Range(s[n + 1])
    BY <1>3, <2>1, <2>2, <2>3, MergeMeans
  <2>5. ASSUME NEW c PROVE InAll(c, n + 1) <=> InAll(c, n) /\ c \in Range(s[n + 1])
    <3>1. 0 .. n + 1 = (0 .. n) \cup {n + 1}
      OBVIOUS
    <3>. QED BY <3>1
  <2>. HIDE DEF InAll
  <2>. QED BY <2>1, <2>4, <2>5
<1>10. N \in Good
  <2>. HIDE DEF Good
  <2>. QED BY <1>1, <1>8, <1>9, SetInduction
<1>11. Fits(N)
  <2>. HIDE DEF Fits
  <2>. QED BY <1>1, <1>10
<1>. QED BY <1>2, <1>11 DEF N

(* checkConditions lists each restriction of the head once. *)
LEMMA EveryConditionIsListed ==
  ASSUME table \in Tables
  PROVE  {Cond(k) : k \in 0 .. Amm - 1} = table[0].conds
<1>. DEFINE C == table[0].conds
            L(f) == Listing(f)
            Met(F, l) == /\ l \in Seq(Flags) /\ Range(l) = C \cap F
                         /\ IsFiniteSet(C \cap F) /\ Len(l) = Cardinality(C \cap F)
<1>1. C \subseteq Flags
  BY TablesOK DEF Country
<1>2. ASSUME NEW F, NEW l, Met(F, l), NEW f \in Flags, f \notin F
      PROVE  Met(F \cup {f}, l \o L(f))
  <2>1. L(f) \in Seq(Flags) /\ Range(L(f)) = C \cap {f} /\ Len(L(f)) = IF f \in C THEN 1 ELSE 0
    BY DEF Listing, Range
  <2>. HIDE DEF L, C
  <2>2. /\ l \o L(f) \in Seq(Flags) /\ Len(l \o L(f)) = Len(l) + Len(L(f))
        /\ Range(l \o L(f)) = Range(l) \cup Range(L(f))
    BY <1>2, <2>1, ConcatProperties, RangeConcatenation
  <2>3. C \cap (F \cup {f}) = IF f \in C THEN (C \cap F) \cup {f} ELSE C \cap F
    OBVIOUS
  <2>4. /\ IsFiniteSet(C \cap (F \cup {f}))
        /\ Cardinality(C \cap (F \cup {f})) = Cardinality(C \cap F) + (IF f \in C THEN 1 ELSE 0)
    <3>1. CASE f \in C
      <4>. DEFINE G == C \cap F
      <4>1. f \notin G /\ IsFiniteSet(G)
        BY <1>2
      <4>2. C \cap (F \cup {f}) = G \cup {f}
        BY <2>3, <3>1
      <4>. HIDE DEF G
      <4>3. IsFiniteSet(G \cup {f}) /\ Cardinality(G \cup {f}) = Cardinality(G) + 1
        BY <4>1, FS_AddElement
      <4>. QED BY <3>1, <4>2, <4>3 DEF G
    <3>2. CASE f \notin C
      <4>. DEFINE G == C \cap F
      <4>1. IsFiniteSet(G) /\ Cardinality(G) \in Nat
        BY <1>2, FS_CardinalityType
      <4>2. C \cap (F \cup {f}) = G
        BY <2>3, <3>2
      <4>. HIDE DEF G
      <4>3. Cardinality(G) = Cardinality(G) + (IF f \in C THEN 1 ELSE 0)
        BY <3>2, <4>1
      <4>. QED BY <4>1, <4>2, <4>3 DEF G
    <3>. QED BY <3>1, <3>2
  <2>5. Range(l \o L(f)) = C \cap (F \cup {f})
    BY <1>2, <2>1, <2>2
  <2>6. Len(l \o L(f)) = Cardinality(C \cap (F \cup {f}))
    BY <1>2, <2>1, <2>2, <2>4
  <2>. QED BY <2>2, <2>4, <2>5, <2>6
<1>. DEFINE s1 == L("same")
            s2 == s1 \o L("weak")
            s3 == s2 \o L("champ")
            s4 == s3 \o L("death")
<1>3. Met({}, <<>>)
  BY FS_EmptySet DEF Range
<1>4. "same" \in Flags /\ "weak" \in Flags /\ "champ" \in Flags /\ "death" \in Flags
  BY DEF Flags
<1>5. <<>> \o s1 = s1 /\ CondOrder = s4
  <2>1. s1 \in Seq(Flags)
    BY <1>4 DEF Listing
  <2>. QED BY <2>1, ConcatEmptySeq DEF CondOrder
<1>. HIDE DEF Met, L, C
<1>6. Met({} \cup {"same"}, s1)
  BY <1>2, <1>3, <1>4, <1>5
<1>7. Met(({} \cup {"same"}) \cup {"weak"}, s2)
  BY <1>2, <1>4, <1>6
<1>8. Met((({} \cup {"same"}) \cup {"weak"}) \cup {"champ"}, s3)
  BY <1>2, <1>4, <1>7
<1>9. Met(((({} \cup {"same"}) \cup {"weak"}) \cup {"champ"}) \cup {"death"}, s4)
  BY <1>2, <1>4, <1>8
<1>10. C \cap (((({} \cup {"same"}) \cup {"weak"}) \cup {"champ"}) \cup {"death"}) = C
  BY <1>1 DEF Flags
<1>11. CondOrder \in Seq(Flags) /\ Range(CondOrder) = C /\ Len(CondOrder) = Cardinality(C)
  BY <1>5, <1>9, <1>10 DEF Met
<1>12. Amm \in Nat /\ Len(CondOrder) = Amm
  BY <1>11, AmmFacts DEF C, Amm, CondAmm
<1>13. Range(CondOrder) = {CondOrder[i] : i \in 1 .. Amm}
  BY <1>11, <1>12, RangeEquality
<1>14. {Cond(k) : k \in 0 .. Amm - 1} = {CondOrder[i] : i \in 1 .. Amm}
  <2>1. ASSUME NEW i \in 1 .. Amm PROVE i - 1 \in 0 .. Amm - 1 /\ i - 1 + 1 = i
    BY <1>12
  <2>2. ASSUME NEW k \in 0 .. Amm - 1 PROVE k + 1 \in 1 .. Amm
    BY <1>12
  <2>. QED BY <2>1, <2>2 DEF Cond
<1>. QED BY <1>11, <1>13, <1>14 DEF C

-----------------------------------------------------------------------------
(***************************************************************************)
(* The sets of a round: each one that is there is that of a restriction,   *)
(* as it was when the round began, and while nothing fails none is missing *)
(* of the threads that have collected.                                     *)
(***************************************************************************)
InDraw == mpc \in {"spawn", "poll", "combine"}
Accepted(f) == SetOf(f, table, 0, used)

SetsFilled ==
  InDraw => \A x \in DOMAIN sets :
              \E f \in table[0].conds : x = SlotOf(f) /\ sets[x] = Listed(Accepted(f))

NoneMissing ==
  InDraw /\ faults = 0 =>
    \A k \in Begun : /\ tpc[k] # "none"
                     /\ tpc[k] \in {"report", "done"} => SlotOf(Cond(k)) \in DOMAIN sets

Asks == mpc = "ask" => \A f \in table[0].conds : request \in Accepted(f)

SetsInv == used \subseteq DOMAIN table /\ faults \in Nat /\ SetsFilled /\ NoneMissing /\ Asks

LEMMA AcceptedAreFree ==
  ASSUME NEW t, NEW h, NEW u, NEW f \in Flags
  PROVE  SetOf(f, t, h, u) \subseteq Free(t, u)
BY DEF SetOf, SameContinent, DeathGroup, WeakGroup, ChampGroup, Flags

\* What a restriction lists stays what it is while the table and its flags do.
ListOf(size, S) ==
  LET list[n \in 0 .. size] ==
        IF n = 0 THEN <<>>
        ELSE IF n - 1 \in S THEN Append(list[n - 1], n - 1) ELSE list[n - 1]
  IN  list[size]

LEMMA ListsStay ==
  ASSUME UNCHANGED <<table, used>>, NEW f
  PROVE  Listed(Accepted(f))' = Listed(Accepted(f))
<1>1. \A S : Listed(S) = ListOf(Cardinality(DOMAIN table), S)
  BY DEF Listed, ListOf
<1>2. Listed(Accepted(f)) = ListOf(Cardinality(DOMAIN table), SetOf(f, table, 0, used))
  BY <1>1 DEF Accepted
<1>3. Listed(Accepted(f))' = ListOf(Cardinality(DOMAIN table'), SetOf(f, table', 0, used'))
  BY DEF Listed, ListOf, Accepted
<1>. QED BY <1>2, <1>3

LEMMA SetsStay ==
  ASSUME UNCHANGED <<table, used, sets>>, SetsFilled, InDraw
  PROVE  SetsFilled'
BY ListsStay DEF SetsFilled, InDraw

(* What the main thread finds when it combines the sets: if as many pointers
   as there are restrictions are not NULL, then what is in all sets is what all
   restrictions accept, whatever has failed. *)
LEMMA CombineMeans ==
  ASSUME ThreadsInv, SetsInv, mpc = "combine",
         NEW s, s = SortPointers(sets), 0 .. Amm - 1 \subseteq DOMAIN s
  PROVE  /\ Ascending(Intersect(s))
         /\ Range(Intersect(s)) =
              {c \in Free(table, used) : \A f \in table[0].conds : c \in Accepted(f)}
<1>. DEFINE C == table[0].conds
            S == {Listed(Accepted(f)) : f \in C}
            D == {SlotOf(f) : f \in C}
<1>1. table \in Tables /\ C \subseteq Flags /\ Amm \in 2 .. 4
  BY AmmFacts, TablesOK DEF ThreadsInv, ThreadTypes, Country
<1>2. C # {}
  <2>1. Cardinality(C) # 0
    BY <1>1 DEF Amm, CondAmm
  <2>. QED BY <2>1, FS_EmptySet
<1>3. IsFiniteSet(D) /\ Cardinality(D) <= Amm /\ Cardinality(D) \in Nat
  <2>1. DOMAIN Slots(table, 0, used) = D
    BY DEF Slots
  <2>2. Holds(Slots(table, 0, used), {SetOf(f, table, 0, used) : f \in C}, CondAmm(table, 0))
    BY <1>1, SlotsHold
  <2>. QED BY <2>1, <2>2, FS_CardinalityType DEF Holds, Amm
<1>4. \A x \in DOMAIN sets : \E f \in C : x = SlotOf(f) /\ sets[x] = Listed(Accepted(f))
  BY DEF SetsInv, SetsFilled, InDraw
<1>5. \A f, e \in C : SlotOf(f) = SlotOf(e) => f = e
  BY <1>1 DEF SlotOf, Flags
<1>. HIDE DEF C
<1>6. Holds(sets, S, Amm)
  <2>1. DOMAIN sets \subseteq D
    BY <1>4
  <2>2. /\ IsFiniteSet(DOMAIN sets) /\ Cardinality(DOMAIN sets) \in Nat
        /\ Cardinality(DOMAIN sets) <= Cardinality(D)
        /\ Cardinality(DOMAIN sets) = Cardinality(D) => DOMAIN sets = D
    BY <1>3, <2>1, FS_Subset, FS_CardinalityType
  <2>3. \A k \in DOMAIN sets : sets[k] \in S
    BY <1>4
  <2>4. ASSUME ~ (Cardinality(DOMAIN sets) < Amm), NEW f \in C
        PROVE  \E k \in DOMAIN sets : sets[k] = Listed(Accepted(f))
    <3>1. DOMAIN sets = D
      BY <1>1, <1>3, <2>2, <2>4
    <3>2. SlotOf(f) \in DOMAIN sets
      BY <3>1
    <3>. QED BY <1>4, <1>5, <3>2
  <2>5. Cardinality(DOMAIN sets) <= Amm
    BY <1>1, <1>3, <2>2
  <2>6. Cardinality(DOMAIN sets) < Amm \/ \A x \in S : \E k \in DOMAIN sets : sets[k] = x
    BY <2>4
  <2>. QED BY <2>2, <2>3, <2>5, <2>6 DEF Holds
<1>7. /\ \A k \in 0 .. Amm - 1 : s[k] \in S
      /\ \A x \in S : \E k \in 0 .. Amm - 1 : s[k] = x
  <2>1. Amm \in Nat /\ Holds(s, S, Amm)
    BY <1>1, <1>6, SortHolds
  <2>. HIDE DEF S
  <2>. QED BY <2>1, NoneIsForgotten
<1>8. ASSUME NEW f \in C
      PROVE  Ascending(Listed(Accepted(f))) /\ Range(Listed(Accepted(f))) = Accepted(f)
  <2>1. Accepted(f) \in SUBSET DOMAIN table
    BY <1>1, AcceptedAreFree DEF Accepted, Free
  <2>. QED BY <1>1, <2>1, ListedMeans
<1>9. \A k \in 0 .. Amm - 1 : Ascending(s[k])
  BY <1>7, <1>8
<1>10. /\ Ascending(Intersect(s))
       /\ \A c : c \in Range(Intersect(s)) <=> \A k \in 0 .. Amm - 1 : c \in Range(s[k])
  BY <1>1, <1>9, IntersectMeans
<1>11. ASSUME NEW c
       PROVE  (\A k \in 0 .. Amm - 1 : c \in Range(s[k])) <=> \A f \in C : c \in Accepted(f)
  <2>1. ASSUME \A k \in 0 .. Amm - 1 : c \in Range(s[k]), NEW f \in C PROVE c \in Accepted(f)
    <3>1. PICK k \in 0 .. Amm - 1 : s[k] = Listed(Accepted(f))
      BY <1>7
    <3>2. c \in Range(s[k])
      BY <2>1
    <3>. QED BY <1>8, <3>1, <3>2
  <2>2. ASSUME \A f \in C : c \in Accepted(f), NEW k \in 0 .. Amm - 1 PROVE c \in Range(s[k])
    <3>1. PICK f \in C : s[k] = Listed(Accepted(f))
      BY <1>7
    <3>. QED BY <1>8, <2>2, <3>1
  <2>. QED BY <2>1, <2>2
<1>12. ASSUME NEW c, \A f \in C : c \in Accepted(f) PROVE c \in Free(table, used)
  BY <1>1, <1>2, <1>12, AcceptedAreFree DEF Accepted
<1>. HIDE DEF S, D
<1>13. Range(Intersect(s)) = {c \in Free(table, used) : \A f \in C : c \in Accepted(f)}
  BY <1>10, <1>11, <1>12
<1>. QED BY <1>10, <1>13 DEF C

LEMMA AskedIsAccepted ==
  ASSUME ThreadsInv, SetsInv, Combine
  PROVE  Asks'
<1>1. /\ mpc = "combine" /\ UNCHANGED <<table, used>>
      /\ sets' = SortPointers(sets)
      /\ \/ mpc' \in {"crash", "none"}
         \/ /\ 0 .. Amm - 1 \subseteq DOMAIN sets'
            /\ \E p \in DOMAIN Intersect(sets') : request' = Intersect(sets')[p]
  BY DEF Combine
<1>. SUFFICES ASSUME mpc' = "ask" PROVE \A f \in table[0].conds : request' \in Accepted(f)
  BY <1>1 DEF Asks, Accepted
<1>2. PICK s : s = sets'
  OBVIOUS
<1>3. /\ s = SortPointers(sets) /\ 0 .. Amm - 1 \subseteq DOMAIN s
      /\ \E p \in DOMAIN Intersect(s) : request' = Intersect(s)[p]
  BY <1>1, <1>2
<1>4. request' \in Range(Intersect(s))
  BY <1>3 DEF Range
<1>5. Range(Intersect(s)) =
        {c \in Free(table, used) : \A f \in table[0].conds : c \in Accepted(f)}
  BY <1>1, <1>3, CombineMeans
<1>. QED BY <1>4, <1>5

LEMMA SetsInit == Init => SetsInv
<1>. SUFFICES ASSUME Init PROVE SetsInv
  OBVIOUS
<1>1. used \subseteq DOMAIN table /\ faults \in Nat
  BY TakenOK DEF Init
<1>. QED BY <1>1 DEF Init, SetsInv, SetsFilled, NoneMissing, Asks, InDraw

LEMMA SetsMainSteps ==
  ASSUME ThreadsInv, SetsInv, MainStep \/ Spawn(TRUE)
  PROVE  SetsInv'
<1>0. used \subseteq DOMAIN table /\ faults \in Nat /\ SetsFilled /\ NoneMissing /\ Asks /\ ThreadTypes
  BY DEF SetsInv, ThreadsInv
<1>1. Amm \in 2 .. 4 /\ table \in Tables /\ table[0].conds \subseteq Flags
  BY <1>0, AmmFacts, TablesOK DEF ThreadTypes, Country
<1>2. table' = table /\ Amm' = Amm
  BY DEF MainStep, BeginRound, Spawn, Poll, Combine, ReadAnswer, Amm
<1>3. CASE BeginRound
  <2>1. /\ mpc' = "spawn" /\ j' = 0 /\ sets' = <<>> /\ UNCHANGED <<used, faults>>
    BY <1>3 DEF BeginRound
  <2>2. Begun' = {} /\ DOMAIN sets' = {}
    BY <2>1 DEF Begun
  <2>3. SetsFilled' /\ NoneMissing' /\ Asks'
    BY <2>1, <2>2 DEF SetsFilled, NoneMissing, Asks
  <2>. QED BY <1>0, <1>2, <2>1, <2>3 DEF SetsInv
<1>4. ASSUME NEW fails \in BOOLEAN, Spawn(fails) PROVE SetsInv'
  <2>1. /\ mpc = "spawn" /\ mpc' \in {"spawn", "poll"}
        /\ UNCHANGED <<used, sets>>
        /\ tpc' = [tpc EXCEPT ![j] = IF fails THEN "none" ELSE "lock"]
        /\ faults' = IF fails THEN faults + 1 ELSE faults
        /\ \/ j + 1 < Amm /\ j' = j + 1 /\ mpc' = "spawn"
           \/ ~ (j + 1 < Amm) /\ mpc' = "poll"
    BY <1>4 DEF Spawn
  <2>2. j \in 0 .. Amm - 1 /\ j \in Threads
    BY <1>0, <1>1, AmmFacts DEF ThreadTypes
  <2>3. Begun = 0 .. j - 1 /\ Begun' = Begun \cup {j} /\ j \notin Begun /\ Begun \subseteq Threads
    BY <1>0, <1>1, <1>2, <2>1, <2>2, BegunFacts DEF Begun
  <2>4. SetsFilled'
    BY <1>0, <1>2, <2>1, SetsStay DEF InDraw
  <2>5. NoneMissing'
    <3>1. SUFFICES ASSUME faults' = 0, NEW k \in Begun'
                   PROVE  /\ tpc'[k] # "none"
                          /\ tpc'[k] \in {"report", "done"} => SlotOf(Cond(k)) \in DOMAIN sets
      BY <1>2, <2>1 DEF NoneMissing, Cond, CondOrder, Listing
    <3>2. ~ fails /\ faults = 0
      BY <1>0, <2>1, <3>1
    <3>3. CASE k = j
      BY <1>0, <2>1, <2>2, <3>2, <3>3 DEF ThreadTypes
    <3>4. CASE k \in Begun
      <4>1. tpc'[k] = tpc[k]
        BY <1>0, <2>1, <2>2, <2>3, <3>4 DEF ThreadTypes
      <4>. QED BY <1>0, <2>1, <3>2, <3>4, <4>1 DEF NoneMissing, InDraw
    <3>. QED BY <2>3, <3>3, <3>4
  <2>6. Asks' /\ faults' \in Nat
    BY <1>0, <2>1 DEF Asks
  <2>. QED BY <1>0, <1>2, <2>1, <2>4, <2>5, <2>6 DEF SetsInv
<1>5. CASE Poll
  <2>1. /\ mpc = "poll" /\ mpc' \in {"failed", "poll", "combine"}
        /\ UNCHANGED <<used, tpc, sets, faults>>
    BY <1>5 DEF Poll
  <2>2. SetsFilled'
    BY <1>0, <1>2, <2>1, SetsStay DEF InDraw
  <2>3. NoneMissing'
    <3>1. mpc' \in {"poll", "combine"} => Begun' = Begun
      BY <1>2, <2>1 DEF Begun
    <3>. QED BY <1>0, <1>2, <2>1, <3>1 DEF NoneMissing, InDraw, Cond, CondOrder, Listing
  <2>. QED BY <1>0, <1>2, <2>1, <2>2, <2>3 DEF SetsInv, Asks
<1>6. CASE Combine
  <2>1. mpc' \in {"crash", "none", "ask"} /\ UNCHANGED <<used, faults>>
    BY <1>6 DEF Combine
  <2>2. SetsFilled' /\ NoneMissing'
    BY <2>1 DEF SetsFilled, NoneMissing, InDraw
  <2>3. Asks'
    BY <1>6, AskedIsAccepted
  <2>. QED BY <1>0, <1>2, <2>1, <2>2, <2>3 DEF SetsInv
<1>7. ASSUME NEW response \in BOOLEAN, ReadAnswer(response) PROVE SetsInv'
  <2>1. /\ mpc = "ask" /\ mpc' \in {"whole", "begin"}
        /\ used' = used \cup {request} /\ faults' = faults
    BY <1>7 DEF ReadAnswer
  <2>2. request \in DOMAIN table
    <3>1. PICK f : f \in table[0].conds
      <4>1. Cardinality(table[0].conds) # 0
        BY <1>1 DEF Amm, CondAmm
      <4>. QED BY <4>1, FS_EmptySet
    <3>2. request \in Accepted(f)
      BY <1>0, <2>1, <3>1 DEF Asks
    <3>. QED BY <1>1, <3>1, <3>2, AcceptedAreFree DEF Accepted, Free
  <2>3. SetsFilled' /\ NoneMissing' /\ Asks'
    BY <2>1 DEF SetsFilled, NoneMissing, InDraw, Asks
  <2>. QED BY <1>0, <1>2, <2>1, <2>2, <2>3 DEF SetsInv
<1>. QED BY <1>3, <1>4, <1>5, <1>6, <1>7 DEF MainStep

LEMMA SetsThreadSteps ==
  ASSUME ThreadsInv, SetsInv, NEW k \in Threads, ThreadStep(k) \/ CollectFails(k)
  PROVE  SetsInv'
<1>0. used \subseteq DOMAIN table /\ faults \in Nat /\ SetsFilled /\ NoneMissing /\ Asks /\ ThreadTypes
  BY DEF SetsInv, ThreadsInv
<1>1. k \in Running /\ UNCHANGED mainVars
  BY DEF ThreadStep, TakeIndex, CountIndex, Collect, CollectFails, ReportDone, Running
<1>2. InRound /\ k \in Begun /\ Begun \subseteq Threads /\ Begun \subseteq 0 .. Amm - 1
  BY <1>0, <1>1, BegunFacts DEF ThreadsInv, OfThisRound
<1>3. InDraw /\ InDraw' /\ Begun' = Begun /\ mpc # "ask" /\ mpc' # "ask" /\ UNCHANGED <<table, used>>
  BY <1>1, <1>2 DEF InDraw, InRound, Begun, mainVars, Amm
<1>4. Asks' /\ used' \subseteq DOMAIN table'
  BY <1>0, <1>3 DEF Asks
<1>5. \A l \in Threads \ {k} : tpc'[l] = tpc[l]
  BY <1>0 DEF ThreadStep, TakeIndex, CountIndex, Collect, CollectFails, ReportDone, ThreadTypes
<1>6. \A l \in Threads : Cond(l)' = Cond(l)
  BY <1>3 DEF Cond, CondOrder, Listing
<1>7. ASSUME faults' = 0 => /\ faults = 0 /\ DOMAIN sets \subseteq DOMAIN sets'
                            /\ tpc'[k] # "none"
                            /\ tpc'[k] \in {"report", "done"} => SlotOf(Cond(k)) \in DOMAIN sets'
      PROVE  NoneMissing'
  <2>. SUFFICES ASSUME faults' = 0, NEW l \in Begun
                PROVE  /\ tpc'[l] # "none"
                       /\ tpc'[l] \in {"report", "done"} => SlotOf(Cond(l)) \in DOMAIN sets'
    BY <1>2, <1>3, <1>6 DEF NoneMissing
  <2>0. /\ faults = 0 /\ DOMAIN sets \subseteq DOMAIN sets'
        /\ tpc'[k] # "none"
        /\ tpc'[k] \in {"report", "done"} => SlotOf(Cond(k)) \in DOMAIN sets'
    BY <1>7
  <2>1. CASE l = k
    BY <2>0, <2>1
  <2>2. CASE l # k
    <3>1. tpc'[l] = tpc[l]
      BY <1>2, <1>5, <2>2
    <3>2. tpc[l] # "none" /\ (tpc[l] \in {"report", "done"} => SlotOf(Cond(l)) \in DOMAIN sets)
      BY <1>0, <1>3, <2>0 DEF NoneMissing
    <3>. QED BY <2>0, <3>1, <3>2
  <2>. QED BY <2>1, <2>2
<1>8. CASE TakeIndex(k) \/ CountIndex(k)
  <2>1. UNCHANGED <<sets, faults>> /\ tpc'[k] \in {"locked", "collect"}
    BY <1>0, <1>8 DEF TakeIndex, CountIndex, ThreadTypes
  <2>2. SetsFilled'
    BY <1>0, <1>3, <2>1, SetsStay
  <2>. QED BY <1>0, <1>4, <1>7, <2>1, <2>2 DEF SetsInv
<1>9. CASE CollectFails(k)
  <2>1. sets' = sets /\ faults' = faults + 1
    BY <1>9 DEF CollectFails
  <2>2. SetsFilled'
    BY <1>0, <1>3, <2>1, SetsStay
  <2>. QED BY <1>0, <1>4, <1>7, <2>1, <2>2 DEF SetsInv
<1>10. CASE ReportDone(k)
  <2>1. UNCHANGED <<sets, faults>> /\ tpc[k] = "report" /\ tpc'[k] = "done"
    BY <1>0, <1>10 DEF ReportDone, ThreadTypes
  <2>2. SetsFilled'
    BY <1>0, <1>3, <2>1, SetsStay
  <2>3. faults = 0 => SlotOf(Cond(k)) \in DOMAIN sets
    BY <1>0, <1>2, <1>3, <2>1 DEF NoneMissing
  <2>. QED BY <1>0, <1>4, <1>7, <2>1, <2>2, <2>3 DEF SetsInv
<1>11. CASE Collect(k)
  <2>. DEFINE slot == SlotOf(Cond(k))
              ans  == Listed(Accepted(Cond(k)))
  <2>1. /\ sets' = [s \in DOMAIN sets \cup {slot} |-> IF s = slot THEN ans ELSE sets[s]]
        /\ faults' = faults /\ tpc'[k] = "report"
    BY <1>0, <1>11 DEF Collect, Accepted, ThreadTypes
  <2>2. Cond(k) \in table[0].conds
    BY <1>0, <1>2, EveryConditionIsListed DEF ThreadTypes
  <2>3. \A f : Listed(Accepted(f))' = Listed(Accepted(f))
    BY <1>3, ListsStay
  <2>. HIDE DEF slot, ans
  <2>4. ASSUME NEW x \in DOMAIN sets'
        PROVE  \E f \in table[0].conds : x = SlotOf(f) /\ sets'[x] = Listed(Accepted(f))
    <3>1. CASE x = slot
      <4>1. sets'[x] = ans
        BY <2>1, <3>1
      <4>. QED BY <2>2, <3>1, <4>1 DEF slot, ans
    <3>2. CASE x # slot
      <4>1. x \in DOMAIN sets /\ sets'[x] = sets[x]
        BY <2>1, <3>2
      <4>. QED BY <1>0, <1>3, <4>1 DEF SetsFilled
    <3>. QED BY <3>1, <3>2
  <2>5. SetsFilled'
    BY <1>3, <2>3, <2>4 DEF SetsFilled
  <2>6. DOMAIN sets' = DOMAIN sets \cup {slot}
    BY <2>1
  <2>7. NoneMissing'
    BY <1>7, <2>1, <2>6 DEF slot
  <2>. QED BY <1>0, <1>4, <2>1, <2>5, <2>7 DEF SetsInv
<1>. QED BY <1>8, <1>9, <1>10, <1>11 DEF ThreadStep

LEMMA SetsInductive == Spec => [](ThreadsInv /\ SetsInv)
<1>1. ThreadsInv /\ SetsInv /\ UNCHANGED vars => SetsInv'
  <2>. SUFFICES ASSUME SetsInv, UNCHANGED vars PROVE SetsInv'
    OBVIOUS
  <2>1. UNCHANGED <<table, used, sets, mpc, j, tpc, faults, request>>
    BY DEF vars, mainVars
  <2>2. SetsFilled'
    <3>1. CASE InDraw
      BY <2>1, <3>1, SetsStay DEF SetsInv
    <3>2. CASE ~ InDraw
      BY <2>1, <3>2 DEF SetsFilled, InDraw
    <3>. QED BY <3>1, <3>2
  <2>3. NoneMissing'
    BY <2>1 DEF SetsInv, NoneMissing, InDraw, Begun, Amm, Cond, CondOrder, Listing
  <2>4. Asks'
    BY <2>1 DEF SetsInv, Asks, Accepted
  <2>. QED BY <2>1, <2>2, <2>3, <2>4 DEF SetsInv
<1>2. ThreadsInv /\ SetsInv /\ [Next]_vars => SetsInv'
  BY <1>1, SetsMainSteps, SetsThreadSteps DEF Next, Fault, Ended
<1>. QED BY ThreadsInductive, SetsInit, <1>2, PTL DEF Spec

(* A country is asked for only when it is free and every restriction accepts
   it, whatever has failed. *)
THEOREM AsksWithAll == Spec => []AsksByTheRules
<1>1. ThreadsInv /\ SetsInv => AsksByTheRules
  <2>. SUFFICES ASSUME ThreadsInv, SetsInv, mpc = "ask", NEW k \in 0 .. Amm - 1
                PROVE  request \in SetOf(Cond(k), table, 0, used)
    BY DEF AsksByTheRules
  <2>1. Cond(k) \in table[0].conds
    BY EveryConditionIsListed DEF ThreadsInv, ThreadTypes
  <2>. QED BY <2>1 DEF SetsInv, Asks, Accepted
<1>. QED BY SetsInductive, <1>1, PTL

\* GroupRound has the operators of Conditions.
LEMMA SameConditions ==
  /\ TheRound!Dies(table, 0, used) <=> Dies(table, 0, used)
  /\ TheRound!Candidates(table, 0, used) = Candidates(table, 0, used)
<1>1. TheRound!Slots(table, 0, used) = Slots(table, 0, used)
  BY DEF TheRound!Slots, TheRound!SlotOf, TheRound!SetOf, TheRound!SameContinent, TheRound!DeathGroup,
         TheRound!ChampGroup, TheRound!WeakGroup, TheRound!WeakLimit, TheRound!Free,
         Slots, SlotOf, SetOf, SameContinent, DeathGroup, ChampGroup, WeakGroup, WeakLimit, Free
<1>2. TheRound!CondAmm(table, 0) = CondAmm(table, 0)
  BY DEF TheRound!CondAmm, TheRound!Cardinality, CondAmm, Cardinality
<1>3. \A s, a, b : TheRound!Move(s, a, b) = Move(s, a, b)
  BY DEF TheRound!Move, Move
<1>4. \A s : TheRound!SortPointers(s) = SortPointers(s)
  BY <1>3 DEF TheRound!SortPointers, SortPointers
<1>5. TheRound!Free(table, used) = Free(table, used)
  BY DEF TheRound!Free, Free
<1>6. TheRound!Sorted(table, 0, used) = Sorted(table, 0, used)
  BY <1>1, <1>2, <1>4 DEF TheRound!Sorted, Sorted
<1>. QED
  BY <1>2, <1>5, <1>6 DEF TheRound!Dies, Dies, TheRound!Candidates, Candidates,
                          TheRound!SlotsPresent, SlotsPresent

(* While nothing fails, a round of threads, polling, sorting and merging is one
   step of a grouph without threads: it asks for one of the countries that all
   restrictions leave, or finds that there is none, or dies of a hole among
   its sets, each exactly when that grouph does. *)
LEMMA CombineIsARound ==
  ASSUME ThreadsInv, SetsInv, Combine, faults = 0
  PROVE  TheRound!Ask \/ TheRound!NoCandidate \/ TheRound!Die
<1>1. /\ mpc = "combine" /\ UNCHANGED <<table, used, drawn>>
      /\ sets' = SortPointers(sets)
      /\ \/ ~ (0 .. Amm - 1 \subseteq DOMAIN sets') /\ mpc' = "crash" /\ request' = request
         \/ /\ 0 .. Amm - 1 \subseteq DOMAIN sets'
            /\ Intersect(sets') = <<>> /\ mpc' = "none" /\ request' = request
         \/ /\ 0 .. Amm - 1 \subseteq DOMAIN sets' /\ Intersect(sets') # <<>>
            /\ \E p \in DOMAIN Intersect(sets') : request' = Intersect(sets')[p]
            /\ mpc' = "ask"
  BY DEF Combine
<1>2. PICK s : s = sets'
  OBVIOUS
<1>3. /\ s = SortPointers(sets)
      /\ \/ ~ (0 .. Amm - 1 \subseteq DOMAIN s) /\ mpc' = "crash" /\ request' = request
         \/ /\ 0 .. Amm - 1 \subseteq DOMAIN s
            /\ Intersect(s) = <<>> /\ mpc' = "none" /\ request' = request
         \/ /\ 0 .. Amm - 1 \subseteq DOMAIN s
            /\ \E p \in DOMAIN Intersect(s) : request' = Intersect(s)[p]
            /\ mpc' = "ask"
  BY <1>1, <1>2
<1>4. table \in Tables /\ Amm \in 2 .. 4 /\ Amm = CondAmm(table, 0) /\ table[0].conds \subseteq Flags
  BY AmmFacts, TablesOK DEF ThreadsInv, ThreadTypes, Amm, Country
<1>5. DOMAIN sets = DOMAIN Slots(table, 0, used)
  <2>1. \A k \in 0 .. Amm - 1 : SlotOf(Cond(k)) \in DOMAIN sets
    <3>. TAKE k \in 0 .. Amm - 1
    <3>1. k \in Begun /\ k \in Threads /\ k \notin Running
      BY <1>1, <1>4, AmmFacts DEF Begun, ThreadsInv, OfThisRound, InRound
    <3>2. tpc[k] # "none"
      BY <1>1, <3>1 DEF SetsInv, NoneMissing, InDraw
    <3>3. tpc[k] = "done"
      BY <3>1, <3>2 DEF ThreadsInv, ThreadTypes, Running
    <3>. QED BY <1>1, <3>1, <3>3 DEF SetsInv, NoneMissing, InDraw
  <2>2. \A f \in table[0].conds : SlotOf(f) \in DOMAIN sets
    <3>. TAKE f \in table[0].conds
    <3>1. PICK k \in 0 .. Amm - 1 : f = Cond(k)
      BY <1>4, EveryConditionIsListed
    <3>. QED BY <2>1, <3>1
  <2>3. \A x \in DOMAIN sets : \E f \in table[0].conds : x = SlotOf(f)
    BY <1>1 DEF SetsInv, SetsFilled, InDraw
  <2>4. DOMAIN Slots(table, 0, used) = {SlotOf(f) : f \in table[0].conds}
    BY DEF Slots
  <2>. QED BY <2>2, <2>3, <2>4
<1>6. DOMAIN s = DOMAIN Sorted(table, 0, used)
  <2>1. Sorted(table, 0, used) = SortPointers(Slots(table, 0, used))
    BY <1>4 DEF Sorted
  <2>. QED BY <1>3, <1>5, <2>1, SortMovesTheSame
<1>7. Dies(table, 0, used) <=> ~ (0 .. Amm - 1 \subseteq DOMAIN s)
  BY <1>4, <1>6 DEF Dies, SlotsPresent
<1>8. ASSUME 0 .. Amm - 1 \subseteq DOMAIN s
      PROVE  /\ Ascending(Intersect(s))
             /\ Range(Intersect(s)) = Candidates(table, 0, used)
  <2>1. SlotsPresent(table, 0, used)
    BY <1>4, <1>6, <1>8 DEF SlotsPresent
  <2>2. Candidates(table, 0, used) =
          {c \in Free(table, used) : \A f \in table[0].conds : c \in SetOf(f, table, 0, used)}
    BY <1>4, <2>1, NoRestrictionIsForgotten
  <2>. QED BY <1>1, <1>3, <1>8, <2>2, CombineMeans DEF Accepted
<1>9. StateNow = "draw" /\ (mpc' \in {"crash", "none", "ask"} => StateNow' = mpc')
  BY <1>1 DEF StateNow
<1>10. CASE ~ (0 .. Amm - 1 \subseteq DOMAIN s)
  <2>1. mpc' = "crash" /\ request' = request
    BY <1>3, <1>10
  <2>. QED BY <1>1, <1>7, <1>9, <1>10, <2>1, SameConditions DEF TheRound!Die
<1>11. CASE 0 .. Amm - 1 \subseteq DOMAIN s /\ Intersect(s) = <<>> /\ mpc' = "none" /\ request' = request
  <2>1. Candidates(table, 0, used) = {}
    BY <1>8, <1>11, EmptyAscends
  <2>. QED BY <1>1, <1>7, <1>9, <1>11, <2>1, SameConditions DEF TheRound!NoCandidate
<1>12. CASE /\ 0 .. Amm - 1 \subseteq DOMAIN s
            /\ \E p \in DOMAIN Intersect(s) : request' = Intersect(s)[p]
            /\ mpc' = "ask"
  <2>1. request' \in Range(Intersect(s))
    BY <1>12 DEF Range
  <2>2. request' \in Candidates(table, 0, used)
    BY <1>8, <1>12, <2>1
  <2>. QED BY <1>1, <1>7, <1>9, <1>12, <2>2, SameConditions DEF TheRound!Ask
<1>. QED BY <1>3, <1>10, <1>11, <1>12

THEOREM RoundsAreRounds == Spec => RoundSpec
<1>1. Init => TheRound!Init
  <2>. SUFFICES ASSUME Init PROVE TheRound!Init
    OBVIOUS
  <2>1. used \subseteq DOMAIN table
    BY TakenOK DEF Init
  <2>. QED BY <2>1 DEF Init, TheRound!Init, StateNow
<1>2. ThreadsInv /\ SetsInv /\ [Next]_vars => [faults' = 0 => TheRound!Next]_(TheRound!rvars)
  <2>. SUFFICES ASSUME ThreadsInv, SetsInv, [Next]_vars, faults' = 0
                PROVE  TheRound!Next \/ UNCHANGED TheRound!rvars
    OBVIOUS
  <2>1. CASE UNCHANGED vars \/ Ended
    BY <2>1 DEF Ended, vars, mainVars, TheRound!rvars, StateNow
  <2>2. CASE BeginRound \/ (\E fails \in BOOLEAN : Spawn(fails))
    BY <2>2 DEF BeginRound, Spawn, TheRound!rvars, StateNow
  <2>3. CASE Poll
    <3>1. ~ (threadsRet[j] < 0)
      BY AmmFacts DEF ThreadsInv, ThreadTypes, NoMem
    <3>2. mpc = "poll" /\ mpc' \in {"poll", "combine"} /\ UNCHANGED <<table, used, drawn, request>>
      BY <2>3, <3>1 DEF Poll
    <3>. QED BY <3>2 DEF TheRound!rvars, StateNow
  <2>4. CASE Combine
    <3>1. faults = 0
      BY <2>4 DEF Combine
    <3>. QED BY <2>4, <3>1, CombineIsARound DEF TheRound!Next
  <2>5. ASSUME NEW response \in BOOLEAN, ReadAnswer(response) PROVE TheRound!Next
    <3>1. StateNow = "ask" /\ StateNow' = IF Len(drawn') = 3 THEN "whole" ELSE "draw"
      BY <2>5 DEF ReadAnswer, StateNow
    <3>2. TheRound!ReadAnswer(response)
      BY <2>5, <3>1 DEF ReadAnswer, TheRound!ReadAnswer
    <3>. QED BY <3>2 DEF TheRound!Next
  <2>6. ASSUME NEW k \in Threads, ThreadStep(k) \/ CollectFails(k) PROVE UNCHANGED TheRound!rvars
    BY <2>6 DEF ThreadStep, TakeIndex, CountIndex, Collect, CollectFails, ReportDone, mainVars,
                TheRound!rvars, StateNow
  <2>. QED BY <2>1, <2>2, <2>3, <2>4, <2>5, <2>6 DEF Next, MainStep, Fault
<1>. QED BY SetsInductive, <1>1, <1>2, PTL DEF Spec, RoundSpec
=============================================================================
