------------------------------ MODULE Handshake ------------------------------
(***************************************************************************)
(* How a father and its children start to talk, over each of the four      *)
(* transports (pipeIPC.c, msqIPC.c, shmIPC.c, sckIPC.c): setupIPC and a    *)
(* fork per channel, addClient and loadIPC in each child, and synchronize  *)
(* in the father.  fifa does it once with its grouph, pipe with gates, and *)
(* gates with its levels in every round.                                   *)
(*                                                                         *)
(* The transports differ in how the pid of a child reaches the father: in  *)
(* a pipe of its own, as a message of a type of its own, in the header of  *)
(* a segment of its own, or over a connection the father accepts.  The     *)
(* child then waits for SIGALRM.  Each process has the disposition of the  *)
(* signal, its mask and a pending bit; the system delivers a signal that   *)
(* is not blocked at once, to the handler or as the death of the process.  *)
(***************************************************************************)
EXTENDS Integers, FiniteSets, Sequences

CONSTANTS
  N,          \* channels
  Transports, \* the transports the programs may be linked with
  Buckets,    \* the bucket each child's pid may hash to
  MaxFaults   \* bound: children that die

ASSUME ChannelsAssumption == N \in Nat \ {0}
ASSUME TransportsAssumption == Transports \subseteq {"pipe", "msq", "shm", "sck"}
ASSUME BucketsAssumption == Buckets \subseteq [0 .. N - 1 -> Nat]
ASSUME FaultsAssumption == MaxFaults \in Nat

Children == 0 .. N - 1

VARIABLES
  transport,
  bucket,      \* where hash() sends the pid of each child
  fpc, j,      \* where the father is, and its loop index
  registered,  \* the children in the father's table
  cpc,         \* where each child is
  written,     \* whether its pid is on its way, unread
  backlog,     \* the connections the father has not accepted, in order
  handler,     \* whether sigHandler is installed in it
  blocked,     \* whether it blocks SIGALRM
  pending,     \* whether a SIGALRM is pending for it
  flag,        \* its flag
  faults

signalVars == <<handler, blocked, pending, flag>>
given == <<transport, bucket>>
vars == <<given, fpc, j, registered, cpc, written, backlog, signalVars, faults>>

Gone(c) == cpc[c] \in {"dead", "killed"}

Init ==
  /\ transport \in Transports
  /\ bucket \in Buckets
  /\ fpc = "fork"
  /\ j = 0
  /\ registered = {}
  /\ cpc = [c \in Children |-> "none"]
  /\ written = [c \in Children |-> FALSE]
  /\ backlog = <<>>
  /\ handler = [c \in Children |-> FALSE]
  /\ blocked = [c \in Children |-> FALSE]
  /\ pending = [c \in Children |-> FALSE]
  /\ flag = [c \in Children |-> FALSE]
  /\ faults = 0

-----------------------------------------------------------------------------
(***************************************************************************)
(* The father                                                              *)
(***************************************************************************)
\* The next turn of a loop over the channels, or what comes after it.
Turn(next) == IF j + 1 < N THEN j' = j + 1 /\ UNCHANGED fpc
                           ELSE j' = 0 /\ fpc' = next

Fork ==
  /\ fpc = "fork"
  /\ cpc' = [cpc EXCEPT ![j] = "born"]
  /\ Turn("collect")
  /\ UNCHANGED <<given, registered, written, backlog, signalVars, faults>>

\* hashInsert finds the bucket taken: compareIPCIDs says 1 of two ids that
\* are equal, which hashInsert takes for different, and 0 of any others.
Collides(c) == \E r \in registered : bucket[r] = bucket[c]

\* The pid of c has arrived: it goes into the table, or synchronize fails.
Register(c, next) ==
  /\ written[c]
  /\ written' = [written EXCEPT ![c] = FALSE]
  /\ IF Collides(c)
     THEN fpc' = "failed" /\ UNCHANGED <<j, registered>>
     ELSE registered' = registered \cup {c} /\ next
  /\ UNCHANGED <<given, cpc, signalVars, faults>>

\* Mutant: a child is woken as soon as its pid is known.
CollectAndWake ==
  /\ fpc = "collect" /\ transport = "pipe"
  /\ written[j]
  /\ written' = [written EXCEPT ![j] = FALSE]
  /\ pending' = [pending EXCEPT ![j] = TRUE]
  /\ registered' = registered \cup {j} /\ Turn("wake")
  /\ UNCHANGED <<given, cpc, backlog, handler, blocked, flag, faults>>

\* The first loop of synchronize over pipes: the pids are read in turn.
Collect ==
  /\ fpc = "collect" /\ transport = "pipe"
  /\ Register(j, Turn("wake"))
  /\ UNCHANGED backlog

\* Every child holds the writing ends of all: the data end when all are gone.
CollectFails ==
  /\ fpc = "collect" /\ transport = "pipe"
  /\ ~ written[j] /\ \A c \in Children : Gone(c)
  /\ fpc' = "failed"
  /\ UNCHANGED <<given, j, registered, cpc, written, backlog, signalVars, faults>>

\* Over a message queue: the messages of types 1, 3, ... are received in
\* turn.  One that never comes is waited for without end.
Receive ==
  /\ fpc = "collect" /\ transport = "msq"
  /\ Register(j, Turn("wake"))
  /\ UNCHANGED backlog

\* Over shared memory: the father polls the headers until all have a pid,
\* and only then makes its table.
Poll ==
  /\ fpc = "collect" /\ transport = "shm"
  /\ \A c \in Children \ registered : written[c]
  /\ Register(j, Turn("wake"))
  /\ UNCHANGED backlog

\* Mutant: the father counts connections, with or without a pid.
AcceptUnheard ==
  /\ fpc = "collect" /\ transport = "sck"
  /\ backlog # <<>>
  /\ backlog' = Tail(backlog)
  /\ registered' = registered \cup {Head(backlog)}
  /\ fpc' = IF registered' = Children THEN "wake" ELSE fpc
  /\ UNCHANGED <<given, j, cpc, written, signalVars, faults>>

\* Over sockets: the first connection is accepted and its pid received.  (A
\* child connects once, so clientsAmm pids are the pids of all.)
Accept ==
  /\ fpc = "collect" /\ transport = "sck"
  /\ backlog # <<>>
  /\ backlog' = Tail(backlog)
  /\ Register(Head(backlog), /\ fpc' = IF registered' = Children THEN "wake" ELSE fpc
                             /\ UNCHANGED j)

\* The child at the other end has died without a word: recv returns 0.
AcceptFails ==
  /\ fpc = "collect" /\ transport = "sck"
  /\ backlog # <<>>
  /\ Gone(Head(backlog)) /\ ~ written[Head(backlog)]
  /\ backlog' = Tail(backlog)
  /\ fpc' = "failed"
  /\ UNCHANGED <<given, j, registered, cpc, written, signalVars, faults>>

\* The second loop of synchronize: kill(pid[j], SIGALRM).
Wake ==
  /\ fpc = "wake"
  /\ IF Gone(j) THEN UNCHANGED <<cpc, signalVars>>
     ELSE IF blocked[j] THEN /\ pending' = [pending EXCEPT ![j] = TRUE]
                             /\ UNCHANGED <<cpc, handler, blocked, flag>>
     ELSE IF handler[j] THEN /\ flag' = [flag EXCEPT ![j] = TRUE]
                             /\ UNCHANGED <<cpc, handler, blocked, pending>>
     ELSE cpc' = [cpc EXCEPT ![j] = "killed"] /\ UNCHANGED signalVars
  /\ Turn("done")
  /\ UNCHANGED <<given, registered, written, backlog, faults>>

-----------------------------------------------------------------------------
(***************************************************************************)
(* A child                                                                 *)
(***************************************************************************)
Move(c, from, to) == cpc[c] = from /\ cpc' = [cpc EXCEPT ![c] = to]

\* addClient leaves what the child needs to know of its channel in a file that
\* becomes the standard input of the program the child executes.
AddClient(c) ==
  /\ Move(c, "born", "load")
  /\ UNCHANGED <<given, fpc, j, registered, written, backlog, signalVars, faults>>

\* loadIPC: signal(SIGALRM, sigHandler).
Install(c) ==
  /\ Move(c, "load", "installed")
  /\ handler' = [handler EXCEPT ![c] = TRUE]
  /\ UNCHANGED <<given, fpc, j, registered, written, backlog, blocked, pending, flag, faults>>

\* sigprocmask(SIG_BLOCK, ...)
Block(c) ==
  /\ Move(c, "installed", "masked")
  /\ blocked' = [blocked EXCEPT ![c] = TRUE]
  /\ UNCHANGED <<given, fpc, j, registered, written, backlog, handler, pending, flag, faults>>

GivePid(c, from) ==
  /\ Move(c, from, "test")
  /\ written' = [written EXCEPT ![c] = TRUE]
  /\ UNCHANGED <<given, fpc, j, registered, backlog, signalVars, faults>>

\* The descriptors are read and the pid is written to the pipe.
WritePid(c) == transport = "pipe" /\ GivePid(c, "masked")

\* The type of its messages is read, and the pid sent as one of them.
SendPid(c) == transport = "msq" /\ GivePid(c, "masked")

\* The segment is attached and its semaphores opened; the pid comes last.
PublishPid(c) == transport = "shm" /\ GivePid(c, "masked")

\* The port is read; every 10 ms a connection is tried, which is refused as
\* long as the father does not listen.
Connect(c) ==
  /\ transport = "sck" /\ fpc = "collect"
  /\ Move(c, "masked", "connected")
  /\ backlog' = Append(backlog, c)
  /\ UNCHANGED <<given, fpc, j, registered, written, signalVars, faults>>

\* The pid is sent over the connection.
Introduce(c) == transport = "sck" /\ GivePid(c, "connected")

\* Mutant: the flag is polled with the signal blocked.
TestFlagSpins(c) ==
  /\ Move(c, "test", IF flag[c] THEN "awake" ELSE "test")
  /\ UNCHANGED <<given, fpc, j, registered, written, backlog, signalVars, faults>>

\* while (!flag)
TestFlag(c) ==
  /\ Move(c, "test", IF flag[c] THEN "awake" ELSE "wait")
  /\ UNCHANGED <<given, fpc, j, registered, written, backlog, signalVars, faults>>

\* sigsuspend begins to wait with the signal unblocked ...
Suspend(c) ==
  /\ Move(c, "wait", "suspended")
  /\ UNCHANGED <<given, fpc, j, registered, written, backlog, signalVars, faults>>

\* ... and ends when the handler has run.
Resume(c) ==
  /\ pending[c]
  /\ Move(c, "suspended", IF handler[c] THEN "test" ELSE "killed")
  /\ pending' = [pending EXCEPT ![c] = FALSE]
  /\ flag' = [flag EXCEPT ![c] = handler[c]]
  /\ UNCHANGED <<given, fpc, j, registered, written, backlog, handler, blocked, faults>>

\* sigprocmask(SIG_UNBLOCK, ...); its own table is empty, nothing collides.
Start(c) ==
  /\ Move(c, "awake", "ready")
  /\ blocked' = [blocked EXCEPT ![c] = FALSE]
  /\ UNCHANGED <<given, fpc, j, registered, written, backlog, handler, pending, flag, faults>>

Crash(c) ==
  /\ faults < MaxFaults
  /\ cpc[c] \notin {"none", "dead", "killed"}
  /\ cpc' = [cpc EXCEPT ![c] = "dead"]
  /\ faults' = faults + 1
  /\ UNCHANGED <<given, fpc, j, registered, written, backlog, signalVars>>

-----------------------------------------------------------------------------
FatherStep ==
  \/ Fork \/ Wake
  \/ Collect \/ CollectFails \/ Receive \/ Poll \/ Accept \/ AcceptFails

ChildStep(c) ==
  \/ AddClient(c) \/ Install(c) \/ Block(c)
  \/ WritePid(c) \/ SendPid(c) \/ PublishPid(c) \/ Connect(c) \/ Introduce(c)
  \/ TestFlag(c) \/ Suspend(c) \/ Resume(c) \/ Start(c)

Ended ==
  /\ fpc \in {"done", "failed"}
  /\ \A c \in Children : cpc[c] \in {"ready", "dead", "killed"}
  /\ UNCHANGED vars

Next == FatherStep \/ (\E c \in Children : ChildStep(c) \/ Crash(c)) \/ Ended

Spec == Init /\ [][Next]_vars

\* Father and children are processes of the system, which runs them all.
FairSpec == Spec /\ WF_vars(FatherStep) /\ \A c \in Children : WF_vars(ChildStep(c))
=============================================================================
