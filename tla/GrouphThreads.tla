---------------------------- MODULE GrouphThreads ----------------------------
(***************************************************************************)
(* The rounds of buildSubfixture (grouph.c) for a head with two or more    *)
(* restrictions, in detail: a detached thread per restriction              *)
(* (conditions.c) collects the countries it accepts, the main thread polls *)
(* threadsRet until all have answered, closes the gaps between the sets    *)
(* and intersects them.  fifa is the environment: it answers a request     *)
(* either way.                                                             *)
(*                                                                         *)
(* In Fifa a whole round is the action Ask, NoCandidate or Die; here it is *)
(* shown to be one.  The polled array is a plain variable read while it is *)
(* written; the build (-O) reads it again on every turn of the loop.       *)
(***************************************************************************)
EXTENDS Conditions, SequencesExt

CONSTANTS
  Tables,      \* the tables a grouph may receive; its head is country 0
  Taken,       \* the countries marked as used when the table arrives
  MaxFaults    \* bound: allocations and thread creations that fail

ASSUME TablesOK ==
  \A t \in Tables : /\ IsFiniteSet(DOMAIN t) /\ DOMAIN t = 0 .. Cardinality(DOMAIN t) - 1
                    /\ 0 \in DOMAIN t /\ CondAmm(t, 0) >= 2
                    /\ \A c \in DOMAIN t : t[c] \in Country
ASSUME TakenOK == \A t \in Tables : \A u \in Taken : u \subseteq DOMAIN t
ASSUME FaultsOK == MaxFaults \in Nat

NoMem == 12  \* ENOMEM: errno is above 0

VARIABLES
  table, used, drawn,   \* its copy of the table, and its group
  mpc,                  \* where the main thread is
  j,                    \* the thread it starts, or polls, next
  threadsFlag,
  request,              \* the country it asks for
  tpc,                  \* where the thread of each restriction is
  myIndex,
  mutexIndex,           \* the thread that holds the mutex, or -1
  threadsIndex,
  threadsRet,
  sets,                 \* condArgs->sets: the slots that are not NULL
  faults

mainVars == <<table, used, drawn, mpc, j, threadsFlag, request>>
vars == <<mainVars, tpc, myIndex, mutexIndex, threadsIndex, threadsRet, sets, faults>>

\* The conditions in the order checkConditions lists them.
Listing(f) == IF f \in table[0].conds THEN <<f>> ELSE <<>>
CondOrder == Listing("same") \o Listing("weak") \o Listing("champ") \o Listing("death")
Amm == CondAmm(table, 0)
Threads == 0 .. 3
Cond(k) == CondOrder[k + 1]

-----------------------------------------------------------------------------
(***************************************************************************)
(* The sets as the code keeps them: ascending arrays of indices.           *)
(***************************************************************************)
\* The loop over the table in each condition.
Listed(S) ==
  LET size == Cardinality(DOMAIN table)
      list[n \in 0 .. size] ==
        IF n = 0 THEN <<>>
        ELSE IF n - 1 \in S THEN Append(list[n - 1], n - 1) ELSE list[n - 1]
  IN  list[size]

\* Mutant: the comparison that decides which list advances is swapped.
MergeSwapped(a, b) ==
  LET m[p \in (1 .. Len(a) + 1) \X (1 .. Len(b) + 1)] ==
        LET x == p[1]
            k == p[2]
        IN  IF x > Len(a) \/ k > Len(b) THEN <<>>
            ELSE IF a[x] = b[k] THEN <<a[x]>> \o m[<<x + 1, k + 1>>]
            ELSE IF a[x] > b[k] THEN m[<<x + 1, k>>]
            ELSE m[<<x, k + 1>>]
  IN  m[<<1, 1>>]

\* The merge loop of intersect, from positions x and k on.
Merge(a, b) ==
  LET m[p \in (1 .. Len(a) + 1) \X (1 .. Len(b) + 1)] ==
        LET x == p[1]
            k == p[2]
        IN  IF x > Len(a) \/ k > Len(b) THEN <<>>
            ELSE IF a[x] = b[k] THEN <<a[x]>> \o m[<<x + 1, k + 1>>]
            ELSE IF a[x] < b[k] THEN m[<<x + 1, k>>]
            ELSE m[<<x, k + 1>>]
  IN  m[<<1, 1>>]

\* aux[n] is what the first sets have in common, from set 0 to set n.
Intersect(s) ==
  LET aux[n \in 0 .. Amm - 1] == IF n = 0 THEN s[0] ELSE Merge(aux[n - 1], s[n])
  IN  aux[Amm - 1]

-----------------------------------------------------------------------------
Init ==
  /\ table \in Tables
  /\ used \in Taken
  /\ drawn = <<>>
  /\ mpc = "begin"
  /\ j = 0
  /\ threadsFlag = FALSE
  /\ request = -1
  /\ tpc = [k \in Threads |-> "none"]
  /\ myIndex = [k \in Threads |-> 0]
  /\ mutexIndex = -1
  /\ threadsIndex = 0
  /\ threadsRet = [k \in Threads |-> 0]
  /\ sets = <<>>
  /\ faults = 0

(***************************************************************************)
(* The main thread                                                         *)
(***************************************************************************)
\* Mutant: the index keeps counting from the round before.
BeginRoundKeepsIndex ==
  /\ mpc = "begin"
  /\ sets' = <<>>
  /\ threadsRet' = [k \in Threads |-> 0]
  /\ mpc' = "spawn" /\ j' = 0
  /\ UNCHANGED <<table, used, drawn, threadsFlag, request, tpc, myIndex, mutexIndex,
                 threadsIndex, faults>>

BeginRound ==
  /\ mpc = "begin"
  /\ sets' = <<>>
  /\ threadsIndex' = 0
  /\ threadsRet' = [k \in Threads |-> 0]
  /\ mpc' = "spawn" /\ j' = 0
  /\ UNCHANGED <<table, used, drawn, threadsFlag, request, tpc, myIndex, mutexIndex, faults>>

\* The result of pthread_create is not looked at.
Spawn(fails) ==
  /\ mpc = "spawn"
  /\ fails => faults < MaxFaults
  /\ tpc' = [tpc EXCEPT ![j] = IF fails THEN "none" ELSE "lock"]
  /\ faults' = IF fails THEN faults + 1 ELSE faults
  /\ IF j + 1 < Amm THEN j' = j + 1 /\ UNCHANGED <<mpc, threadsFlag>>
                    ELSE j' = 0 /\ mpc' = "poll" /\ threadsFlag' = TRUE
  /\ UNCHANGED <<table, used, drawn, request, myIndex, mutexIndex, threadsIndex, threadsRet, sets>>

\* Mutant: a thread that has not answered is forgotten when the next one has.
PollForgets ==
  /\ mpc = "poll"
  /\ LET flag == threadsRet[j] # 0 IN
     IF j + 1 < Amm
     THEN j' = j + 1 /\ threadsFlag' = flag /\ mpc' = mpc
     ELSE /\ j' = 0 /\ threadsFlag' = TRUE
          /\ mpc' = IF flag THEN "combine" ELSE "poll"
  /\ UNCHANGED <<table, used, drawn, request, tpc, myIndex, mutexIndex, threadsIndex, threadsRet,
                 sets, faults>>

\* One look at threadsRet[j]; after the last one, another turn or the end.
\* (An errno above 0 is no error to it.)
Poll ==
  /\ mpc = "poll"
  /\ LET flag == threadsFlag /\ threadsRet[j] # 0 IN
     IF threadsRet[j] < 0
     THEN mpc' = "failed" /\ UNCHANGED <<j, threadsFlag>>
     ELSE IF j + 1 < Amm
     THEN j' = j + 1 /\ threadsFlag' = flag /\ mpc' = mpc
     ELSE /\ j' = 0 /\ threadsFlag' = TRUE
          /\ mpc' = IF flag THEN "combine" ELSE "poll"
  /\ UNCHANGED <<table, used, drawn, request, tpc, myIndex, mutexIndex, threadsIndex, threadsRet,
                 sets, faults>>

\* Mutant: the sets that are there are intersected, however many they are.
CombineThoseLeft ==
  /\ mpc = "combine"
  /\ sets' = SortPointers(sets)
  /\ LET there == SelectSeq([p \in 1 .. 4 |-> p - 1], LAMBDA s : s \in DOMAIN sets')
         common == FoldLeft(Merge, sets'[0], [p \in DOMAIN there |-> sets'[there[p]]])
     IN  IF common = <<>>
         THEN mpc' = "none" /\ UNCHANGED request
         ELSE /\ \E p \in DOMAIN common : request' = common[p]
              /\ mpc' = "ask"
  /\ UNCHANGED <<table, used, drawn, j, threadsFlag, tpc, myIndex, mutexIndex, threadsIndex,
                 threadsRet, faults>>

\* sortPointers, intersect, and the choice of a country.  A NULL among the
\* sets kills the process.
Combine ==
  /\ mpc = "combine"
  /\ sets' = SortPointers(sets)
  /\ IF ~ (0 .. Amm - 1 \subseteq DOMAIN sets')
     THEN mpc' = "crash" /\ UNCHANGED request
     ELSE IF Intersect(sets') = <<>>
     THEN mpc' = "none" /\ UNCHANGED request
     ELSE /\ \E p \in DOMAIN Intersect(sets') : request' = Intersect(sets')[p]
          /\ mpc' = "ask"
  /\ UNCHANGED <<table, used, drawn, j, threadsFlag, tpc, myIndex, mutexIndex, threadsIndex,
                 threadsRet, faults>>

\* fifa's answer.
ReadAnswer(response) ==
  /\ mpc = "ask"
  /\ used' = used \cup {request}
  /\ drawn' = IF response THEN Append(drawn, request) ELSE drawn
  /\ mpc' = IF Len(drawn') = 3 THEN "whole" ELSE "begin"
  /\ UNCHANGED <<table, j, threadsFlag, request, tpc, myIndex, mutexIndex, threadsIndex,
                 threadsRet, sets, faults>>

-----------------------------------------------------------------------------
(***************************************************************************)
(* The thread of restriction k                                             *)
(***************************************************************************)
\* Mutant: the index is taken without the mutex.
TakeIndexUnlocked(k) ==
  /\ tpc[k] = "lock"
  /\ myIndex' = [myIndex EXCEPT ![k] = threadsIndex]
  /\ tpc' = [tpc EXCEPT ![k] = "locked"]
  /\ UNCHANGED <<mainVars, mutexIndex, threadsIndex, threadsRet, sets, faults>>

\* pthread_mutex_lock, and myIndex = threadsIndex.
TakeIndex(k) ==
  /\ tpc[k] = "lock"
  /\ mutexIndex = -1
  /\ mutexIndex' = k
  /\ myIndex' = [myIndex EXCEPT ![k] = threadsIndex]
  /\ tpc' = [tpc EXCEPT ![k] = "locked"]
  /\ UNCHANGED <<mainVars, threadsIndex, threadsRet, sets, faults>>

\* ++threadsIndex, and pthread_mutex_unlock.
CountIndex(k) ==
  /\ tpc[k] = "locked"
  /\ threadsIndex' = threadsIndex + 1
  /\ mutexIndex' = -1
  /\ tpc' = [tpc EXCEPT ![k] = "collect"]
  /\ UNCHANGED <<mainVars, myIndex, threadsRet, sets, faults>>

\* The countries that satisfy the condition, put in the slot of the condition.
Collect(k) ==
  /\ tpc[k] = "collect"
  /\ LET slot == SlotOf(Cond(k))
         ans  == Listed(SetOf(Cond(k), table, 0, used))
     IN  sets' = [s \in DOMAIN sets \cup {slot} |-> IF s = slot THEN ans ELSE sets[s]]
  /\ tpc' = [tpc EXCEPT ![k] = "report"]
  /\ UNCHANGED <<mainVars, myIndex, mutexIndex, threadsIndex, threadsRet, faults>>

\* A malloc fails: the slot stays NULL, and threadsRet says errno.
CollectFails(k) ==
  /\ tpc[k] = "collect"
  /\ faults < MaxFaults
  /\ threadsRet' = [threadsRet EXCEPT ![myIndex[k]] = NoMem]
  /\ faults' = faults + 1
  /\ tpc' = [tpc EXCEPT ![k] = "done"]
  /\ UNCHANGED <<mainVars, myIndex, mutexIndex, threadsIndex, sets>>

ReportDone(k) ==
  /\ tpc[k] = "report"
  /\ threadsRet' = [threadsRet EXCEPT ![myIndex[k]] = 1]
  /\ tpc' = [tpc EXCEPT ![k] = "done"]
  /\ UNCHANGED <<mainVars, myIndex, mutexIndex, threadsIndex, sets, faults>>

-----------------------------------------------------------------------------
MainStep ==
  \/ BeginRound
  \/ Spawn(FALSE)
  \/ Poll
  \/ Combine
  \/ \E response \in BOOLEAN : ReadAnswer(response)

ThreadStep(k) == TakeIndex(k) \/ CountIndex(k) \/ Collect(k) \/ ReportDone(k)

Fault == Spawn(TRUE) \/ \E k \in Threads : CollectFails(k)

\* The group is whole, or there is none, and the process ends.
Ended == mpc \in {"whole", "none", "failed", "crash"} /\ UNCHANGED vars

Next == MainStep \/ (\E k \in Threads : ThreadStep(k)) \/ Fault \/ Ended

Spec == Init /\ [][Next]_vars

\* Every thread that can run does, the polling one included.
FairSpec == Spec /\ WF_vars(MainStep) /\ \A k \in Threads : WF_vars(ThreadStep(k))
=============================================================================
