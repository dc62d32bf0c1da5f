----------------------- MODULE HandshakeProperties -----------------------
(***************************************************************************)
(* What is expected of the start of the transport.                         *)
(***************************************************************************)
EXTENDS Handshake

ChildPlaces == {"none", "born", "load", "installed", "masked", "connected", "test", "wait",
                "suspended", "awake", "ready", "dead", "killed"}

(* The type invariant: what the variables of the father, of the children and
   of their signals may hold. *)
TypeOK ==
  /\ transport \in Transports
  /\ bucket \in Buckets
  /\ fpc \in {"fork", "collect", "wake", "done", "failed"}
  /\ j \in Children
  /\ registered \subseteq Children
  /\ cpc \in [Children -> ChildPlaces]
  /\ written \in [Children -> BOOLEAN]
  /\ backlog \in Seq(Children)
  /\ handler \in [Children -> BOOLEAN]
  /\ blocked \in [Children -> BOOLEAN]
  /\ pending \in [Children -> BOOLEAN]
  /\ flag \in [Children -> BOOLEAN]
  /\ faults \in 0 .. MaxFaults

(* No child is killed by the signal that should wake it: it has installed its
   handler before the father can know its pid. *)
NobodyIsKilled == \A c \in Children : cpc[c] # "killed"

\* The children that have passed loadIPC.
Ready == {c \in Children : cpc[c] = "ready"}

(* A child that sleeps, or is about to, has not already been woken: the signal
   waits for it until sigsuspend lets it in, and is never spent on a child
   that has tested its flag and not yet gone to sleep. *)
NoWakeupIsLost ==
  \A c \in Children : cpc[c] \in {"wait", "suspended"} => ~ flag[c]

-----------------------------------------------------------------------------
(***************************************************************************)
(* The inductive invariant: how far a child must be for the father to know *)
(* its pid, and how far the father for a signal to be on its way.          *)
(***************************************************************************)
\* The places of a child after its pid is written and before it goes on.
Sleeping(c) == cpc[c] \in {"test", "wait", "suspended", "awake"}

HandshakeInv ==
  /\ TypeOK
  /\ NobodyIsKilled
  /\ NoWakeupIsLost
  /\ fpc \in {"wake", "done"} => registered = Children
  /\ fpc = "collect" /\ transport # "sck" => registered = 0 .. j - 1
  /\ fpc = "fork" => registered = {} /\ \A c \in Children : c >= j => cpc[c] = "none"
  /\ \A c \in Children :
       /\ written[c] \/ c \in registered => Sleeping(c) \/ cpc[c] \in {"ready", "dead"}
       /\ cpc[c] \in {"masked", "connected"} \/ Sleeping(c) => handler[c] /\ blocked[c]
       /\ cpc[c] = "installed" => handler[c]
       /\ cpc[c] = "ready" => handler[c] /\ flag[c]
       /\ cpc[c] = "awake" => flag[c]
       /\ flag[c] \/ pending[c] => fpc \in {"wake", "done"}

-----------------------------------------------------------------------------
TheBarrier == INSTANCE Barrier WITH arrived <- registered,
                                    released <- {c \in Children : flag[c]}

(* The start of the transport is a barrier: no child is let go on before the
   father has the pids of all, so the father's table is complete when the
   first message can arrive. *)
BarrierSpec == TheBarrier!Spec

(* Every child passes loadIPC, and the father synchronize, when nobody dies
   on the way: setupIPC to synchronize take any pids the system gives. *)
EverybodyStarts == [](faults = 0) => <>(fpc = "done" /\ Ready = Children)

(* The same of pids that hash() sends to buckets of their own. *)
EverybodyStartsApart ==
  (\A c, d \in Children : c # d => bucket[c] # bucket[d]) => EverybodyStarts
=============================================================================
