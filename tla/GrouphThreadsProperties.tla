----------------------- MODULE GrouphThreadsProperties -----------------------
(***************************************************************************)
(* What is expected of the threads of a grouph.                            *)
(***************************************************************************)
EXTENDS GrouphThreads

\* The threads that have their place in threadsRet and have not written it.
Placed == {k \in Threads : tpc[k] \in {"locked", "collect", "report"}}
Running == {k \in Threads : tpc[k] \in {"lock", "locked", "collect", "report"}}

(* Every thread has a place of threadsRet to itself: no two threads that hold
   an index hold the same one, and nobody has written the place of a thread
   that has yet to answer.  Otherwise one answer overwrites another and the
   main thread polls for ever, or leaves too early. *)
OnePlaceEach ==
  \A k \in Placed : /\ threadsRet[myIndex[k]] = 0
                    /\ \A l \in Placed \ {k} : myIndex[l] # myIndex[k]

(* When the main thread leaves the polling loop no condition thread is left
   that could still write a set, the index or a place: the reset of
   threadsIndex and the new threadsRet of the next round, done without the
   mutex, meet nobody. *)
NoStragglers == mpc \notin {"spawn", "poll"} => Running = {}

(* A country is asked for only when it is free and every restriction accepts it,
   also when a thread has failed: the errno it leaves in threadsRet is taken
   for an answer, but the set it does not leave kills the process before it can
   ask with a restriction forgotten. *)
AsksByTheRules ==
  mpc = "ask" => \A k \in 0 .. Amm - 1 : request \in SetOf(Cond(k), table, 0, used)

-----------------------------------------------------------------------------
(* The rounds of the threads refine rounds without threads. *)
StateNow == CASE mpc \in {"begin", "spawn", "poll", "combine"} -> "draw"
              [] OTHER -> mpc

TheRound == INSTANCE GroupRound WITH state <- StateNow

(* While nothing fails, a round of threads, polling, sorting and merging asks
   for exactly the countries that all restrictions leave in common, and finds
   none only when there is none. *)
RoundSpec == TheRound!Init /\ [][faults' = 0 => TheRound!Next]_(TheRound!rvars)

(* While nothing fails the process comes to the end of its group, one way or
   another: the main thread never polls for ever, and every round uses up a
   country. *)
GroupEnds == [](faults = 0) => <>(mpc \in {"whole", "none", "failed", "crash"})
==============================================================================
