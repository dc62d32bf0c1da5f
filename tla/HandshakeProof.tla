------------------------- MODULE HandshakeProof -------------------------
(***************************************************************************)
(* Theorems about the start of a transport, for each of the four, every    *)
(* number of channels, every assignment of buckets and every number of     *)
(* crashes.                                                                *)
(***************************************************************************)
EXTENDS HandshakeProperties, TLAPS

LEMMA ChildrenFacts == 0 \in Children /\ Children \subseteq Nat
  BY ChannelsAssumption DEF Children

LEMMA InitInv == Init => HandshakeInv
  BY ChildrenFacts, FaultsAssumption
  DEF Init, HandshakeInv, TypeOK, ChildPlaces, NobodyIsKilled, NoWakeupIsLost, Sleeping

(* The loops over the channels stay within them. *)
LEMMA TurnStays ==
  ASSUME TypeOK, NEW next, Turn(next)
  PROVE  /\ j' \in Children
         /\ \/ j' = j + 1 /\ fpc' = fpc /\ j + 1 \in Children
            \/ j' = 0 /\ fpc' = next /\ j + 1 = N
  BY ChannelsAssumption DEF Turn, TypeOK, Children

LEMMA StepInv == HandshakeInv /\ [Next]_vars => HandshakeInv'
<1>. SUFFICES ASSUME HandshakeInv, [Next]_vars PROVE HandshakeInv'
  OBVIOUS
<1>. USE ChildrenFacts DEF TypeOK, HandshakeInv, NobodyIsKilled, NoWakeupIsLost, Sleeping
<1>1. CASE Fork
  <2>1. fpc = "fork" /\ Turn("collect") /\ cpc' = [cpc EXCEPT ![j] = "born"]
    BY <1>1 DEF Fork
  <2>2. /\ j' \in Children
        /\ \/ j' = j + 1 /\ fpc' = "fork"
           \/ j' = 0 /\ fpc' = "collect"
    BY <2>1, TurnStays
  <2>3. TypeOK'
    BY <1>1, <2>1, <2>2 DEF Fork, ChildPlaces, signalVars, given
  <2>4. \A c \in Children : ~ flag[c] /\ ~ pending[c]
    BY <2>1
  <2>5. \A c \in Children : c # j => cpc'[c] = cpc[c]
    BY <2>1
  <2>6. cpc[j] = "none" /\ cpc'[j] = "born"
    BY <2>1
  <2>7. ~ written[j] /\ j \notin registered
    BY <2>1, <2>6
  <2>8. registered' = {} /\ (j' = 0 => 0 .. j' - 1 = {})
    BY <1>1, <2>1 DEF Fork
  <2>9. fpc' = "fork" => \A c \in Children : c >= j' => cpc'[c] = "none"
    BY <2>1, <2>2, <2>5
  <2>. QED BY <1>1, <2>2, <2>3, <2>4, <2>5, <2>6, <2>7, <2>8, <2>9 DEF Fork, signalVars, given
<1>2. ASSUME fpc = "collect", transport # "sck", Register(j, Turn("wake")), UNCHANGED backlog
      PROVE  HandshakeInv'
  <2>1. written[j] /\ UNCHANGED <<cpc, handler, blocked, pending, flag, transport, bucket, faults>>
        /\ written' = [written EXCEPT ![j] = FALSE]
    BY <1>2 DEF Register, signalVars, given
  <2>2. \A c \in Children : ~ flag[c] /\ ~ pending[c]
    BY <1>2
  <2>3. CASE Collides(j)
    BY <1>2, <2>1, <2>2, <2>3 DEF Register, ChildPlaces
  <2>4. CASE ~ Collides(j)
    <3>1. registered' = registered \cup {j} /\ Turn("wake")
      BY <1>2, <2>4 DEF Register
    <3>2. /\ j' \in Children
          /\ \/ j' = j + 1 /\ fpc' = "collect"
             \/ j' = 0 /\ fpc' = "wake" /\ j + 1 = N
      BY <1>2, <3>1, TurnStays
    <3>3. registered' = 0 .. j
      BY <1>2, <3>1
    <3>4. fpc' = "wake" => registered' = Children
      BY <3>2, <3>3 DEF Children
    <3>5. fpc' = "collect" => registered' = 0 .. j' - 1
      BY <3>2, <3>3
    <3>. QED BY <1>2, <2>1, <2>2, <3>1, <3>2, <3>4, <3>5 DEF ChildPlaces
  <2>. QED BY <2>3, <2>4
<1>8. CASE Collect \/ Receive \/ Poll
  BY <1>2, <1>8 DEF Collect, Receive, Poll
<1>9. CASE Accept
  <2>. DEFINE c == Head(backlog)
  <2>1. /\ fpc = "collect" /\ transport = "sck" /\ c \in Children /\ written[c]
        /\ UNCHANGED <<cpc, handler, blocked, pending, flag, transport, bucket, faults>>
        /\ written' = [written EXCEPT ![c] = FALSE]
        /\ backlog' \in Seq(Children)
    BY <1>9 DEF Accept, Register, signalVars, given
  <2>2. \A d \in Children : ~ flag[d] /\ ~ pending[d]
    BY <2>1
  <2>3. CASE Collides(c)
    BY <1>9, <2>1, <2>2, <2>3 DEF Accept, Register, ChildPlaces
  <2>4. CASE ~ Collides(c)
    <3>1. /\ registered' = registered \cup {c} /\ j' = j
          /\ fpc' = IF registered' = Children THEN "wake" ELSE fpc
      BY <1>9, <2>4 DEF Accept, Register
    <3>. HIDE DEF c
    <3>. QED BY <2>1, <2>2, <3>1 DEF ChildPlaces
  <2>. QED BY <2>3, <2>4
<1>10. CASE AcceptFails
  BY <1>10 DEF AcceptFails, signalVars, given, ChildPlaces
<1>3. CASE CollectFails
  BY <1>3 DEF CollectFails, signalVars, given, ChildPlaces
<1>4. CASE Wake
  <2>1. fpc = "wake" /\ registered = Children /\ Turn("done") /\ UNCHANGED <<transport, bucket, registered, written, backlog, faults>>
    BY <1>4 DEF Wake, given
  <2>2. j' \in Children /\ fpc' \in {"wake", "done"}
    BY <2>1, TurnStays
  <2>3. Sleeping(j) \/ cpc[j] \in {"ready", "dead"}
    BY <2>1
  <2>4. CASE UNCHANGED <<cpc, signalVars>>
    BY <2>1, <2>2, <2>4 DEF ChildPlaces, signalVars
  <2>5. CASE pending' = [pending EXCEPT ![j] = TRUE] /\ UNCHANGED <<cpc, handler, blocked, flag>>
    BY <2>1, <2>2, <2>5 DEF ChildPlaces
  <2>6. CASE /\ ~ Gone(j) /\ ~ blocked[j]
             /\ flag' = [flag EXCEPT ![j] = TRUE] /\ UNCHANGED <<cpc, handler, blocked, pending>>
    <3>1. cpc[j] = "ready"
      BY <2>3, <2>6 DEF Gone
    <3>. QED BY <2>1, <2>2, <2>6, <3>1 DEF ChildPlaces
  <2>7. ~ (~ Gone(j) /\ ~ blocked[j] /\ ~ handler[j])
    BY <2>3 DEF Gone
  <2>. QED BY <1>4, <2>4, <2>5, <2>6, <2>7 DEF Wake
<1>5. ASSUME NEW c \in Children, ChildStep(c) PROVE HandshakeInv'
  <2>1. CASE AddClient(c)
    BY <2>1 DEF AddClient, Move, signalVars, given, ChildPlaces
  <2>2. CASE Install(c)
    BY <2>2 DEF Install, Move, signalVars, given, ChildPlaces
  <2>3. CASE Block(c)
    <3>1. /\ cpc[c] = "installed" /\ handler[c]
          /\ cpc' = [cpc EXCEPT ![c] = "masked"]
          /\ blocked' = [blocked EXCEPT ![c] = TRUE]
          /\ UNCHANGED <<transport, bucket, fpc, j, registered, written, backlog, handler, pending,
                         flag, faults>>
      BY <2>3 DEF Block, Move, given
    <3>2. TypeOK'
      BY <3>1 DEF ChildPlaces
    <3>3. /\ ~ written[c] /\ c \notin registered
          /\ cpc'[c] = "masked" /\ blocked'[c]
          /\ \A d \in Children : d # c => cpc'[d] = cpc[d] /\ blocked'[d] = blocked[d]
      BY <3>1
    <3>4. fpc = "fork" => \A d \in Children : d >= j => cpc'[d] = "none"
      BY <3>1
    <3>. QED BY <3>1, <3>2, <3>3, <3>4
  <2>4. CASE WritePid(c) \/ SendPid(c) \/ PublishPid(c)
    BY <2>4 DEF WritePid, SendPid, PublishPid, GivePid, Move, signalVars, given, ChildPlaces
  <2>9. CASE Connect(c)
    BY <2>9 DEF Connect, Move, signalVars, given, ChildPlaces
  <2>10. CASE Introduce(c)
    BY <2>10 DEF Introduce, GivePid, Move, signalVars, given, ChildPlaces
  <2>5. CASE TestFlag(c)
    BY <2>5 DEF TestFlag, Move, signalVars, given, ChildPlaces
  <2>6. CASE Suspend(c)
    BY <2>6 DEF Suspend, Move, signalVars, given, ChildPlaces
  <2>7. CASE Resume(c)
    BY <2>7 DEF Resume, Move, signalVars, given, ChildPlaces
  <2>8. CASE Start(c)
    BY <2>8 DEF Start, Move, signalVars, given, ChildPlaces
  <2>. QED BY <1>5, <2>1, <2>2, <2>3, <2>4, <2>5, <2>6, <2>7, <2>8, <2>9, <2>10 DEF ChildStep
<1>6. ASSUME NEW c \in Children, Crash(c) PROVE HandshakeInv'
  BY <1>6, FaultsAssumption DEF Crash, signalVars, given, ChildPlaces
<1>7. CASE UNCHANGED vars
  BY <1>7 DEF vars, signalVars, given, ChildPlaces
<1>. QED
  BY <1>1, <1>3, <1>4, <1>5, <1>6, <1>7, <1>8, <1>9, <1>10 DEF Next, FatherStep, Ended

-----------------------------------------------------------------------------
(* The inductive invariant holds in every reachable state. *)
THEOREM HandshakeInductive == Spec => []HandshakeInv
  BY InitInv, StepInv, PTL DEF Spec

(* No child dies of the signal that wakes it, and none sleeps through it,
   however many channels there are and whoever crashes. *)
THEOREM SignalsAreSafe == Spec => [](NobodyIsKilled /\ NoWakeupIsLost)
<1>1. HandshakeInv => NobodyIsKilled /\ NoWakeupIsLost
  BY DEF HandshakeInv
<1>. QED BY HandshakeInductive, <1>1, PTL

(* synchronize and loadIPC implement a barrier. *)
THEOREM HandshakeIsABarrier == Spec => BarrierSpec
<1>. DEFINE Released == {c \in Children : flag[c]}
<1>1. Init => TheBarrier!Init
  BY DEF Init, TheBarrier!Init
<1>2. HandshakeInv /\ [Next]_vars => [TheBarrier!Next]_TheBarrier!bvars
  <2>. SUFFICES ASSUME HandshakeInv, [Next]_vars
                PROVE  TheBarrier!Next \/ UNCHANGED <<registered, Released>>
    BY DEF TheBarrier!bvars
  <2>. USE DEF HandshakeInv, TypeOK
  <2>1. CASE UNCHANGED <<registered, flag>>
    BY <2>1
  <2>2. CASE Collect \/ Receive \/ Poll \/ Accept
    <3>1. PICK c \in Children : registered' = registered \/ registered' = registered \cup {c}
      BY <2>2 DEF Collect, Receive, Poll, Accept, Register
    <3>2. Released' = Released
      <4>1. flag' = flag
        BY <2>2 DEF Collect, Receive, Poll, Accept, Register, signalVars
      <4>. QED BY <4>1
    <3>3. CASE registered' = registered
      BY <3>2, <3>3
    <3>4. CASE registered' = registered \cup {c} /\ c \notin registered
      BY <3>2, <3>4 DEF TheBarrier!Next, TheBarrier!Arrive
    <3>. QED BY <3>1, <3>3, <3>4
  <2>3. ASSUME NEW c \in Children, registered = Children, UNCHANGED registered,
               flag' = [flag EXCEPT ![c] = TRUE]
        PROVE  TheBarrier!Next
    <3>1. Released' = Released \cup {c}
      BY <2>3
    <3>. QED BY <2>3, <3>1 DEF TheBarrier!Next, TheBarrier!Release
  <2>4. CASE Wake
    BY <2>1, <2>3, <2>4 DEF Wake, signalVars
  <2>5. ASSUME NEW c \in Children, ChildStep(c) PROVE TheBarrier!Next \/ UNCHANGED <<registered, Released>>
    <3>1. CASE Resume(c)
      <4>1. handler[c]
        BY <3>1 DEF Resume, Move, Sleeping
      <4>2. flag' = [flag EXCEPT ![c] = TRUE] /\ registered = Children /\ UNCHANGED registered
        BY <3>1, <4>1 DEF Resume
      <4>. QED BY <2>3, <4>2
    <3>. QED
      BY <2>1, <2>5, <3>1 DEF ChildStep, AddClient, Install, Block, WritePid, SendPid, PublishPid,
                         Connect, Introduce, GivePid, TestFlag, Suspend, Start, signalVars
  <2>. QED
    BY <2>1, <2>2, <2>4, <2>5 DEF Next, FatherStep, Fork, CollectFails, AcceptFails, Crash, Ended, vars, signalVars
<1>. QED BY HandshakeInductive, <1>1, <1>2, PTL DEF Spec, BarrierSpec, TheBarrier!Spec
=============================================================================
