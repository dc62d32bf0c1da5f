----------------------------- MODULE FifaProof ------------------------------
(***************************************************************************)
(* Theorems about fifa and its grouph children, for every table, every     *)
(* number of groups and every number of faults: the inductive invariant of *)
(* the protocol first, then what a draw comes to, that is what fifa        *)
(* receives, what a grouph that gives up may say, and that the processes   *)
(* implement Draw.                                                         *)
(***************************************************************************)
EXTENDS FifaProperties, ConditionsProof, SequenceTheorems

(* Every group has its head among the countries of the table. *)
LEMMA GroupsFacts ==
  GroupsAmm \in Nat \ {0} /\ Groups \subseteq Countries /\ Groups \subseteq Nat
<1>1. GroupsAmm \in Nat \ {0} /\ GroupsAmm <= N
  BY SizeAssumption DEF GroupsAmm
<1>. QED BY <1>1, SizeAssumption DEF Groups, Countries

(* A grouph only asks for countries its own copy of the table has as free. *)
LEMMA CandidatesAreFree ==
  ASSUME TypeOK, NEW i \in Groups, NEW c \in Candidates(table, i, cused[i])
  PROVE  c \in Countries \ cused[i]
<1>1. DOMAIN table = Countries
  BY TablesAssumption DEF TypeOK, FifaTypeOK, Countries
<1>. QED BY <1>1 DEF Candidates, Free

LEMMA InitInv == Init => IInv
<1>. SUFFICES ASSUME Init PROVE IInv
  OBVIOUS
<1>1. TypeOK
  <2>1. FifaTypeOK
    BY GroupsFacts, FaultAssumption DEF Init, FifaTypeOK, FifaPlaces, Outcomes
  <2>2. GrouphTypeOK
    BY DEF Init, GrouphTypeOK, GrouphPlaces
  <2>3. PipesTypeOK
    BY DEF Init, PipesTypeOK
  <2>. QED BY <2>1, <2>2, <2>3 DEF TypeOK
<1>2. Stages
  BY GroupsFacts DEF Init, Stages, StageOf, Idle
<1>3. FifaStages
  BY DEF Init, FifaStages
<1>4. Ledger
  <2>1. \A i \in Groups : drawn[i] = <<>> /\ down[i] = <<>> /\ cused[i] = {}
    BY DEF Init
  <2>2. \A i \in Groups : DOMAIN drawn[i] = {}
    BY <2>1
  <2>3. \A i \in Groups : DrawnSet(i) = {}
    BY <2>2, Zenon DEF DrawnSet
  <2>4. \A i \in Groups : Owed(i) = {}
    BY <2>1 DEF Owed
  <2>5. \A i \in Groups : Given(i) = {}
    BY <2>3, <2>4 DEF Given
  <2>. QED BY <2>1, <2>2, <2>3, <2>5 DEF Init, Ledger, Account
<1>. QED BY <1>1, <1>2, <1>3, <1>4 DEF IInv

-----------------------------------------------------------------------------
LEMMA TypeStep == IInv /\ [Next]_vars => TypeOK'
<1>. SUFFICES ASSUME FifaTypeOK, GrouphTypeOK, PipesTypeOK, FifaStages, Stages, [Next]_vars
              PROVE  TypeOK'
  BY DEF IInv, TypeOK
<1>. USE GroupsFacts DEF Codes
<1>1. ASSUME UNCHANGED grouphVars PROVE GrouphTypeOK'
  BY <1>1 DEF grouphVars, GrouphTypeOK
<1>2. ASSUME UNCHANGED <<fixture, up, down>> PROVE PipesTypeOK'
  BY <1>2 DEF PipesTypeOK
<1>3. ASSUME UNCHANGED <<table, fifaVars>>, faults' \in Nat PROVE FifaTypeOK'
  BY <1>3 DEF fifaVars, FifaTypeOK
<1>4. CASE StartChildren
  <2>1. FifaTypeOK'
    BY <1>4 DEF StartChildren, MarkedHeads, FifaTypeOK, FifaPlaces
  <2>2. GrouphTypeOK'
    BY <1>4 DEF StartChildren, GrouphTypeOK, GrouphPlaces
  <2>3. PipesTypeOK'
    BY <1>4, <1>2 DEF StartChildren
  <2>. QED BY <2>1, <2>2, <2>3 DEF TypeOK
<1>5. CASE SendTable
  <2>1. FifaTypeOK'
    <3>1. CASE AllGone
      BY <1>5, <3>1 DEF SendTable, FifaTypeOK, FifaPlaces, Outcomes
    <3>2. CASE ~ AllGone
      <4>1. sent' = sent + 1 /\ sent < GroupsAmm
        BY <1>5, <3>2 DEF SendTable, FifaStages
      <4>. QED BY <1>5, <3>2, <4>1 DEF SendTable, FifaTypeOK, FifaPlaces
    <3>. QED BY <3>1, <3>2
  <2>2. GrouphTypeOK'
    <3>1. cused' \in [Groups -> SUBSET Countries]
      <4>1. CASE AllGone
        BY <1>5, <4>1 DEF SendTable, GrouphTypeOK
      <4>2. CASE ~ AllGone
        BY <1>5, <4>2 DEF SendTable, GrouphTypeOK, FifaTypeOK
      <4>. QED BY <4>1, <4>2
    <3>. QED BY <1>5, <3>1 DEF SendTable, GrouphTypeOK
  <2>3. PipesTypeOK'
    BY <1>5, <1>2 DEF SendTable
  <2>. QED BY <2>1, <2>2, <2>3 DEF TypeOK
<1>6. CASE Synchronize
  <2>1. FifaTypeOK'
    BY <1>6 DEF Synchronize, FifaTypeOK, FifaPlaces
  <2>2. GrouphTypeOK' /\ PipesTypeOK'
    BY <1>6, <1>1, <1>2 DEF Synchronize
  <2>. QED BY <2>1, <2>2 DEF TypeOK
<1>7. CASE Select
  <2>1. FifaTypeOK'
    BY <1>7 DEF Select, FifaTypeOK, FifaPlaces
  <2>2. GrouphTypeOK' /\ PipesTypeOK'
    BY <1>7, <1>1, <1>2 DEF Select
  <2>. QED BY <2>1, <2>2 DEF TypeOK
<1>8. CASE SelectTimesOut
  <2>1. FifaTypeOK'
    BY <1>8 DEF SelectTimesOut, FifaTypeOK, FifaPlaces
  <2>2. GrouphTypeOK' /\ PipesTypeOK'
    BY <1>8, <1>1, <1>2 DEF SelectTimesOut
  <2>. QED BY <2>1, <2>2 DEF TypeOK
<1>9. CASE Skip
  <2>1. FifaTypeOK'
    BY <1>9 DEF Skip, FifaTypeOK, FifaPlaces
  <2>2. GrouphTypeOK' /\ PipesTypeOK'
    BY <1>9, <1>1, <1>2 DEF Skip
  <2>. QED BY <2>1, <2>2 DEF TypeOK
<1>10. CASE ReadFails
  <2>1. FifaTypeOK'
    BY <1>10 DEF ReadFails, FifaTypeOK, FifaPlaces, Outcomes
  <2>2. GrouphTypeOK' /\ PipesTypeOK'
    BY <1>10, <1>1, <1>2 DEF ReadFails
  <2>. QED BY <2>1, <2>2 DEF TypeOK
<1>11. CASE Reap
  <2>1. FifaTypeOK'
    BY <1>11 DEF Reap, FifaTypeOK, FifaPlaces
  <2>2. GrouphTypeOK' /\ PipesTypeOK'
    BY <1>11, <1>1, <1>2 DEF Reap
  <2>. QED BY <2>1, <2>2 DEF TypeOK
<1>12. CASE Report
  <2>1. FifaTypeOK'
    BY <1>12 DEF Report, FifaTypeOK, FifaPlaces, Outcomes
  <2>2. GrouphTypeOK' /\ PipesTypeOK'
    BY <1>12, <1>1, <1>2 DEF Report
  <2>. QED BY <2>1, <2>2 DEF TypeOK
<1>13. CASE Answer
  <2>. DEFINE c == Head(up[j])
  <2>1. j \in Groups /\ j + 1 \in 0 .. GroupsAmm
    BY <1>13 DEF Answer, Serving, FifaTypeOK, Groups
  <2>2. c \in Countries /\ Tail(up[j]) \in Seq(Countries \cup Codes)
    BY <1>13, <2>1 DEF Answer, PipesTypeOK, Countries
  <2>3. FifaTypeOK'
    BY <1>13, <2>1, <2>2 DEF Answer, FifaTypeOK, FifaPlaces, Outcomes
  <2>4. GrouphTypeOK'
    BY <1>13, <1>1 DEF Answer
  <2>5. PipesTypeOK'
    <3>1. up' \in [Groups -> Seq(Countries \cup Codes)]
      BY <1>13, <2>1, <2>2 DEF Answer, PipesTypeOK
    <3>2. down' \in [Groups -> Seq(BOOLEAN)]
      <4>1. Append(down[j], c \notin used) \in Seq(BOOLEAN)
        BY <2>1 DEF PipesTypeOK
      <4>. QED BY <1>13, <4>1 DEF Answer, PipesTypeOK
    <3>. QED BY <1>13, <3>1, <3>2 DEF Answer, PipesTypeOK
  <2>. QED BY <2>3, <2>4, <2>5 DEF TypeOK
<1>14. CASE GroupFollows
  <2>1. j \in Groups
    BY <1>14 DEF GroupFollows, Serving, FifaTypeOK, Groups
  <2>2. FifaTypeOK'
    BY <1>14, <2>1 DEF GroupFollows, FifaTypeOK, FifaPlaces
  <2>3. GrouphTypeOK'
    BY <1>14, <1>1 DEF GroupFollows
  <2>4. PipesTypeOK'
    BY <1>14, <2>1 DEF GroupFollows, PipesTypeOK
  <2>. QED BY <2>2, <2>3, <2>4 DEF TypeOK
<1>15. CASE GroupFails
  <2>1. j \in Groups
    BY <1>15 DEF GroupFails, Serving, FifaTypeOK, Groups
  <2>2. FifaTypeOK'
    BY <1>15, <2>1 DEF GroupFails, FifaTypeOK, FifaPlaces
  <2>3. GrouphTypeOK'
    BY <1>15, <1>1 DEF GroupFails
  <2>4. PipesTypeOK'
    BY <1>15, <2>1 DEF GroupFails, PipesTypeOK
  <2>. QED BY <2>2, <2>3, <2>4 DEF TypeOK
<1>16. CASE ReceiveCountry
  <2>1. j \in Groups /\ j + 1 \in 0 .. GroupsAmm
    BY <1>16 DEF ReceiveCountry, FifaStages, FifaTypeOK, Groups
  <2>2. Head(up[j]) \in Countries \cup Codes /\ Tail(up[j]) \in Seq(Countries \cup Codes)
    BY <1>16, <2>1 DEF ReceiveCountry, PipesTypeOK
  <2>3. FifaTypeOK'
    <3>1. finished' \subseteq Groups /\ headsAmm' \in Int
      <4>1. \/ finished' = finished /\ headsAmm' = headsAmm
            \/ finished' = finished \cup {j} /\ headsAmm' = headsAmm - 1
        BY <1>16, Zenon DEF ReceiveCountry
      <4>2. finished \subseteq Groups /\ headsAmm \in Int
        BY DEF FifaTypeOK
      <4>3. finished' \subseteq Groups
        BY <2>1, <4>1, <4>2, Zenon
      <4>4. headsAmm' \in Int
        BY <4>1, <4>2
      <4>. QED BY <4>3, <4>4
    <3>2. fpc' \in FifaPlaces /\ j' \in 0 .. GroupsAmm
      BY <1>16, <2>1 DEF ReceiveCountry, FifaTypeOK, FifaPlaces
    <3>. QED BY <1>16, <3>1, <3>2 DEF ReceiveCountry, FifaTypeOK
  <2>4. GrouphTypeOK'
    BY <1>16, <1>1 DEF ReceiveCountry
  <2>5. PipesTypeOK'
    BY <1>16, <2>1, <2>2 DEF ReceiveCountry, PipesTypeOK
  <2>. QED BY <2>3, <2>4, <2>5 DEF TypeOK
<1>17. ASSUME NEW i \in Groups, Load(i) PROVE TypeOK'
  <2>1. FifaTypeOK'
    BY <1>17, <1>3, FaultAssumption DEF Load, FifaTypeOK
  <2>2. GrouphTypeOK'
    BY <1>17 DEF Load, GrouphTypeOK, GrouphPlaces
  <2>3. PipesTypeOK'
    BY <1>17, <1>2 DEF Load, fifaVars
  <2>. QED BY <2>1, <2>2, <2>3 DEF TypeOK
<1>18. ASSUME NEW i \in Groups, Ask(i) PROVE TypeOK'
  <2>1. FifaTypeOK'
    BY <1>18, <1>3, FaultAssumption DEF Ask, FifaTypeOK
  <2>2. GrouphTypeOK'
    BY <1>18, CandidatesAreFree DEF Ask, TypeOK, GrouphTypeOK, GrouphPlaces
  <2>3. PipesTypeOK'
    <3>1. PICK c \in Candidates(table, i, cused[i]) : up' = [up EXCEPT ![i] = Append(@, c)]
      BY <1>18 DEF Ask
    <3>2. c \in Countries
      BY CandidatesAreFree DEF TypeOK
    <3>3. Append(up[i], c) \in Seq(Countries \cup Codes)
      BY <3>2 DEF PipesTypeOK
    <3>. QED BY <1>18, <3>1, <3>3 DEF Ask, PipesTypeOK, fifaVars
  <2>. QED BY <2>1, <2>2, <2>3 DEF TypeOK
<1>19. ASSUME NEW i \in Groups, NoCandidate(i) PROVE TypeOK'
  <2>1. FifaTypeOK'
    BY <1>19, <1>3, FaultAssumption DEF NoCandidate, FifaTypeOK
  <2>2. GrouphTypeOK'
    BY <1>19 DEF NoCandidate, GrouphTypeOK, GrouphPlaces
  <2>3. PipesTypeOK'
    BY <1>19, <1>2 DEF NoCandidate, fifaVars
  <2>. QED BY <2>1, <2>2, <2>3 DEF TypeOK
<1>20. ASSUME NEW i \in Groups, Die(i) PROVE TypeOK'
  <2>1. FifaTypeOK'
    BY <1>20, <1>3, FaultAssumption DEF Die, FifaTypeOK
  <2>2. GrouphTypeOK'
    BY <1>20 DEF Die, GrouphTypeOK, GrouphPlaces
  <2>3. PipesTypeOK'
    BY <1>20, <1>2 DEF Die, fifaVars
  <2>. QED BY <2>1, <2>2, <2>3 DEF TypeOK
<1>21. ASSUME NEW i \in Groups, ReadAnswer(i) PROVE TypeOK'
  <2>1. FifaTypeOK'
    BY <1>21, <1>3, FaultAssumption DEF ReadAnswer, FifaTypeOK
  <2>2. GrouphTypeOK'
    <3>1. req[i] \in Countries
      BY <1>21 DEF Stages, StageOf, Requesting, Answered, FifaTypeOK, ReadAnswer
    <3>2. drawn' \in [Groups -> Seq(Countries)]
      <4>1. Append(drawn[i], req[i]) \in Seq(Countries)
        BY <3>1 DEF GrouphTypeOK
      <4>2. \/ drawn' = [drawn EXCEPT ![i] = Append(drawn[i], req[i])]
            \/ drawn' = [drawn EXCEPT ![i] = drawn[i]]
        BY <1>21, Zenon DEF ReadAnswer
      <4>. QED BY <4>1, <4>2 DEF GrouphTypeOK
    <3>3. <<-1, i>> \o drawn'[i] \in Seq(Countries \cup Codes)
      BY <3>2
    <3>4. out' \in [Groups -> Seq(Countries \cup Codes)]
      BY <1>21, <3>3 DEF ReadAnswer, GrouphTypeOK
    <3>5. cpc' \in [Groups -> GrouphPlaces]
      BY <1>21 DEF ReadAnswer, GrouphTypeOK, GrouphPlaces
    <3>6. cused' \in [Groups -> SUBSET Countries]
      BY <1>21, <3>1 DEF ReadAnswer, GrouphTypeOK
    <3>. QED BY <1>21, <3>2, <3>4, <3>5, <3>6 DEF ReadAnswer, GrouphTypeOK
  <2>3. PipesTypeOK'
    <3>1. down' \in [Groups -> Seq(BOOLEAN)]
      <4>1. Tail(down[i]) \in Seq(BOOLEAN)
        BY <1>21, HeadTailProperties DEF ReadAnswer, PipesTypeOK
      <4>. QED BY <1>21, <4>1 DEF ReadAnswer, PipesTypeOK
    <3>. QED BY <1>21, <3>1 DEF ReadAnswer, PipesTypeOK, fifaVars
  <2>. QED BY <2>1, <2>2, <2>3 DEF TypeOK
<1>22. ASSUME NEW i \in Groups, Send(i) PROVE TypeOK'
  <2>1. FifaTypeOK'
    BY <1>22, <1>3, FaultAssumption DEF Send, FifaTypeOK
  <2>2. GrouphTypeOK'
    BY <1>22 DEF Send, GrouphTypeOK, GrouphPlaces
  <2>3. PipesTypeOK'
    BY <1>22 DEF Send, GrouphTypeOK, PipesTypeOK, fifaVars
  <2>. QED BY <2>1, <2>2, <2>3 DEF TypeOK
<1>23. ASSUME NEW i \in Groups, Exit(i) PROVE TypeOK'
  <2>1. FifaTypeOK'
    BY <1>23, <1>3, FaultAssumption DEF Exit, FifaTypeOK
  <2>2. GrouphTypeOK'
    BY <1>23 DEF Exit, GrouphTypeOK, GrouphPlaces
  <2>3. PipesTypeOK'
    BY <1>23, <1>2 DEF Exit, fifaVars
  <2>. QED BY <2>1, <2>2, <2>3 DEF TypeOK
<1>24. ASSUME NEW i \in Groups, OutOfMemory(i) PROVE TypeOK'
  <2>1. FifaTypeOK'
    BY <1>24, <1>3, FaultAssumption DEF OutOfMemory, FifaTypeOK
  <2>2. GrouphTypeOK'
    <3>1. <<-2>> \in Seq(Countries \cup Codes) /\ <<-3>> \in Seq(Countries \cup Codes)
      OBVIOUS
    <3>2. out' = [out EXCEPT ![i] = <<-2>>] \/ out' = [out EXCEPT ![i] = <<-3>>]
      BY <1>24 DEF OutOfMemory
    <3>3. out' \in [Groups -> Seq(Countries \cup Codes)]
      BY <3>1, <3>2 DEF GrouphTypeOK
    <3>. QED BY <1>24, <3>3 DEF OutOfMemory, GrouphTypeOK, GrouphPlaces
  <2>3. PipesTypeOK'
    BY <1>24, <1>2 DEF OutOfMemory, fifaVars
  <2>. QED BY <2>1, <2>2, <2>3 DEF TypeOK
<1>25. ASSUME NEW i \in Groups, Crash(i) PROVE TypeOK'
  <2>1. FifaTypeOK'
    BY <1>25, <1>3, FaultAssumption DEF Crash, FifaTypeOK
  <2>2. GrouphTypeOK'
    BY <1>25 DEF Crash, GrouphTypeOK, GrouphPlaces
  <2>3. PipesTypeOK'
    BY <1>25, <1>2 DEF Crash, fifaVars
  <2>. QED BY <2>1, <2>2, <2>3 DEF TypeOK
<1>26. CASE UNCHANGED vars
  BY <1>26, <1>1, <1>2, <1>3 DEF vars, fifaVars, TypeOK, FifaTypeOK
<1>. QED
  BY <1>4, <1>5, <1>6, <1>7, <1>8, <1>9, <1>10, <1>11, <1>12, <1>13, <1>14, <1>15, <1>16, <1>17, <1>18, <1>19, <1>20, <1>21, <1>22, <1>23, <1>24, <1>25, <1>26
     DEF Next, FifaStep, GrouphStep, Ended
-----------------------------------------------------------------------------
LEMMA FifaStagesStep == IInv /\ [Next]_vars => FifaStages'
<1>. SUFFICES ASSUME TypeOK, FifaStages, Stages, [Next]_vars
              PROVE  FifaStages'
  BY DEF IInv
<1>. USE GroupsFacts DEF TypeOK, FifaTypeOK
<1>1. ASSUME StartChildren \/ Synchronize PROVE FifaStages'
  BY <1>1 DEF StartChildren, Synchronize, FifaStages
<1>2. CASE SendTable
  BY <1>2 DEF SendTable, FifaStages
<1>3. ASSUME Select \/ SelectTimesOut \/ Skip \/ ReadFails \/ Reap \/ Report
      PROVE  FifaStages'
  BY <1>3 DEF Select, SelectTimesOut, Skip, ReadFails, Reap, Report, FifaStages
<1>4. ASSUME Answer \/ GroupFails PROVE FifaStages'
  BY <1>4 DEF Answer, GroupFails, Serving, FifaStages
<1>5. CASE GroupFollows
  <2>1. j \in Groups /\ j \notin finished /\ up[j] # <<>> /\ Head(up[j]) = -1
    BY <1>5 DEF GroupFollows, Serving, Groups
  <2>2. ~ Idle(j) /\ ~ Answered(j) /\ ~ Requesting(j)
    <3>1. Head(<<req[j]>>) = req[j]
      OBVIOUS
    <3>2. req[j] \in Countries => req[j] # -1
      BY DEF Countries
    <3>3. ~ Requesting(j)
      BY <2>1, <3>1, <3>2 DEF Requesting
    <3>. QED BY <2>1, <3>3 DEF Idle, Answered
  <2>3. cpc[j] \in {"send", "exit", "crash"} /\ Telling(j)
    BY <2>1, <2>2 DEF Stages, StageOf, GrouphTypeOK, GrouphPlaces
  <2>. QED BY <1>5, <2>1, <2>3 DEF GroupFollows, Serving, FifaStages, Telling, grouphVars
<1>6. CASE ReceiveCountry
  BY <1>6 DEF ReceiveCountry, FifaStages, grouphVars
<1>7. ASSUME NEW i \in Groups, GrouphStep(i) \/ OutOfMemory(i) \/ Crash(i)
      PROVE  FifaStages'
  <2>1. UNCHANGED fifaVars
    BY <1>7 DEF GrouphStep, Load, Ask, NoCandidate, Die, ReadAnswer, Send, Exit, OutOfMemory, Crash
  <2>2. ASSUME fpc = "receive"
        PROVE  cpc'[j] \in {"send", "exit", "crash"} /\ down'[j] = <<>>
    <3>1. j \in Groups /\ cpc[j] \in {"send", "exit", "crash"} /\ down[j] = <<>>
      BY <2>2 DEF FifaStages, Groups
    <3>. QED
      BY <1>7, <3>1
         DEF GrouphStep, Load, Ask, NoCandidate, Die, ReadAnswer, Send, Exit, OutOfMemory, Crash,
             Drawing, GrouphTypeOK, PipesTypeOK
  <2>. QED BY <2>1, <2>2 DEF fifaVars, FifaStages
<1>8. CASE UNCHANGED vars
  BY <1>8 DEF vars, fifaVars, grouphVars, FifaStages
<1>. QED
  BY <1>1, <1>2, <1>3, <1>4, <1>5, <1>6, <1>7, <1>8 DEF Next, FifaStep, Ended
-----------------------------------------------------------------------------
LEMMA StagesStep == IInv /\ [Next]_vars => Stages'
<1>. SUFFICES ASSUME TypeOK, FifaStages, Stages, Ledger, [Next]_vars, NEW k \in Groups
              PROVE  StageOf(k)'
  BY DEF IInv, Stages
<1>. USE GroupsFacts
<1>1. StageOf(k)
  BY DEF Stages
<1>2. ASSUME cpc'[k] = cpc[k], req'[k] = req[k], cused'[k] = cused[k], drawn'[k] = drawn[k],
             out'[k] = out[k], up'[k] = up[k], down'[k] = down[k], sent' = sent,
             used \subseteq used', Telling(k) => Telling(k)'
      PROVE  StageOf(k)'
  <2>1. Idle(k) => Idle(k)'
    BY <1>2 DEF Idle
  <2>2. Requesting(k) => Requesting(k)'
    BY <1>2 DEF Requesting, Countries
  <2>3. Answered(k) => Answered(k)'
    BY <1>2 DEF Answered
  <2>. QED BY <1>1, <1>2, <2>1, <2>2, <2>3 DEF StageOf
<1>3. CASE StartChildren
  <2>1. k >= sent /\ sent' = sent
    BY <1>3 DEF StartChildren, FifaStages
  <2>2. Idle(k)' /\ drawn'[k] = <<>> /\ cpc'[k] \in {"none", "load"}
    BY <1>1, <1>3, <2>1 DEF StartChildren, StageOf, Idle
  <2>. QED BY <2>2 DEF StageOf
<1>4. CASE SendTable
  <2>1. CASE k = sent /\ ~ AllGone
    <3>1. Idle(k)' /\ cpc'[k] \in {"none", "load", "crash"}
      BY <1>1, <1>4, <2>1 DEF SendTable, StageOf, Idle
    <3>2. sent' = sent + 1 /\ sent \in Nat
      BY <1>4, <2>1 DEF SendTable, TypeOK, FifaTypeOK
    <3>. QED BY <2>1, <3>1, <3>2 DEF StageOf
  <2>2. CASE k # sent \/ AllGone
    <3>1. cused'[k] = cused[k]
      BY <1>4, <2>2 DEF SendTable, TypeOK, GrouphTypeOK
    <3>2. k >= sent' => k >= sent
      BY <1>4 DEF SendTable, TypeOK, FifaTypeOK
    <3>3. Telling(k) => Telling(k)'
      BY <1>4 DEF SendTable, Telling, Receiving
    <3>4. Idle(k) => Idle(k)'
      BY <1>4 DEF SendTable, Idle
    <3>5. Requesting(k) => Requesting(k)'
      BY <1>4, <3>1 DEF SendTable, Requesting, Countries
    <3>6. Answered(k) => Answered(k)'
      BY <1>4, <3>1 DEF SendTable, Answered
    <3>. QED BY <1>1, <1>4, <3>2, <3>3, <3>4, <3>5, <3>6 DEF SendTable, StageOf
  <2>. QED BY <2>1, <2>2
<1>5. ASSUME Synchronize \/ Select \/ SelectTimesOut \/ Skip \/ ReadFails \/ Reap \/ Report
      PROVE  StageOf(k)'
  <2>1. UNCHANGED <<grouphVars, up, down, used, sent, finished>>
    BY <1>5 DEF Synchronize, Select, SelectTimesOut, Skip, ReadFails, Reap, Report
  <2>2. fpc = "receive" \/ fpc = "done" => fpc' = "done"
    BY <1>5 DEF Synchronize, Select, SelectTimesOut, Skip, ReadFails, Serving, Reap, Report
  <2>3. Telling(k) => Telling(k)'
    BY <2>1, <2>2 DEF Telling, Receiving, grouphVars
  <2>. QED BY <1>2, <2>1, <2>3 DEF grouphVars
<1>6. CASE Answer
  <2>1. j \in Groups /\ up[j] # <<>> /\ Head(up[j]) >= 0 /\ fpc = "scan" /\ j \notin finished
    BY <1>6 DEF Answer, Serving, Groups, TypeOK, FifaTypeOK
  <2>2. Requesting(j) /\ cpc[j] \in {"ask", "crash"} /\ j < sent
    <3>1. ~ Idle(j) /\ ~ Answered(j) /\ ~ Telling(j)
      <4>1. Head(up[j]) \notin Codes
        BY <2>1 DEF Codes
      <4>. QED BY <2>1, <4>1 DEF Idle, Answered, Telling, Receiving
    <3>. QED BY <2>1, <3>1 DEF Stages, StageOf, TypeOK, FifaTypeOK, GrouphTypeOK, GrouphPlaces
  <2>3. CASE k # j
    <3>1. up'[k] = up[k] /\ down'[k] = down[k]
      BY <1>6, <2>1, <2>3 DEF Answer, TypeOK, PipesTypeOK
    <3>2. Telling(k) => Telling(k)'
      BY <1>6, <2>1, <3>1 DEF Answer, Telling, Receiving, grouphVars
    <3>. QED BY <1>2, <1>6, <3>1, <3>2 DEF Answer, grouphVars
  <2>4. CASE k = j
    <3>1. up'[k] = <<>> /\ Head(up[k]) = req[k]
      <4>1. Tail(<<req[k]>>) = <<>> /\ Head(<<req[k]>>) = req[k]
        OBVIOUS
      <4>. QED BY <1>6, <2>2, <2>4, <4>1 DEF Answer, Requesting, TypeOK, PipesTypeOK
    <3>2. CASE AllGone
      <4>1. cpc[k] = "crash"
        BY <2>2, <2>4, <3>2 DEF AllGone, Alive
      <4>2. Idle(k)'
        BY <1>6, <2>2, <2>4, <3>1, <3>2 DEF Answer, Requesting, Idle, grouphVars
      <4>. QED BY <1>6, <2>2, <2>4, <4>1, <4>2 DEF Answer, StageOf, grouphVars,
                  TypeOK, FifaTypeOK
    <3>3. CASE ~ AllGone
      <4>1. down'[k] = <<req[k] \notin used>>
        BY <1>6, <2>1, <2>2, <2>4, <3>1, <3>3 DEF Answer, Requesting, TypeOK, PipesTypeOK
      <4>2. down'[k] \in {<<TRUE>>, <<FALSE>>}
        BY <4>1
      <4>3. req'[k] \in used' \ cused'[k]
        BY <1>6, <2>2, <2>4, <3>1 DEF Answer, Requesting, grouphVars
      <4>4. Answered(k)'
        BY <1>6, <2>2, <2>4, <3>1, <4>2, <4>3 DEF Answer, Requesting, Answered, grouphVars
      <4>. QED BY <1>6, <2>2, <2>4, <4>4 DEF Answer, StageOf, grouphVars, TypeOK, FifaTypeOK
    <3>. QED BY <3>2, <3>3
  <2>. QED BY <2>3, <2>4
<1>7. ASSUME GroupFollows \/ GroupFails PROVE StageOf(k)'
  <2>1. j \in Groups /\ up[j] # <<>> /\ Head(up[j]) \in Codes /\ fpc = "scan" /\ j \notin finished
    BY <1>7 DEF GroupFollows, GroupFails, Serving, Groups, TypeOK, FifaTypeOK, Codes
  <2>2. UNCHANGED <<grouphVars, down, used, sent>> /\ finished \subseteq finished'
    BY <1>7 DEF GroupFollows, GroupFails
  <2>3. CASE k # j
    <3>1. up'[k] = up[k]
      BY <1>7, <2>1, <2>3 DEF GroupFollows, GroupFails, TypeOK, PipesTypeOK
    <3>2. Telling(k) => Telling(k)'
      BY <2>1, <2>2, <3>1 DEF Telling, Receiving, grouphVars
    <3>. QED BY <1>2, <2>2, <3>1, <3>2 DEF grouphVars
  <2>4. CASE k = j
    <3>1. ~ Idle(k) /\ ~ Answered(k) /\ ~ Requesting(k)
      <4>1. Head(<<req[j]>>) = req[j]
        OBVIOUS
      <4>2. req[j] \in Countries => req[j] \notin Codes
        BY DEF Countries, Codes
      <4>. QED BY <2>1, <2>4, <4>1, <4>2 DEF Idle, Answered, Requesting
    <3>2. cpc[k] \in {"send", "exit", "crash"} /\ Telling(k) /\ ~ (k >= sent)
      BY <1>1, <3>1 DEF StageOf, TypeOK, GrouphTypeOK, GrouphPlaces
    <3>3. Telling(k)'
      BY <1>7, <2>2, <2>4, <3>2 DEF GroupFollows, GroupFails, Telling, Receiving
    <3>. QED BY <2>2, <3>2, <3>3 DEF StageOf, grouphVars
  <2>. QED BY <2>3, <2>4
<1>8. CASE ReceiveCountry
  <2>1. /\ j \in Groups /\ up[j] # <<>> /\ fpc = "receive"
        /\ cpc[j] \in {"send", "exit", "crash"} /\ down[j] = <<>>
    BY <1>8 DEF ReceiveCountry, FifaStages, Groups, TypeOK, FifaTypeOK
  <2>2. UNCHANGED <<grouphVars, down, used, sent>> /\ finished \subseteq finished'
    BY <1>8, Zenon DEF ReceiveCountry
  <2>3. \/ fpc' = "receive" /\ j' = j
        \/ j \in finished'
    BY <1>8, <2>1, Zenon DEF ReceiveCountry
  <2>4. CASE k # j
    <3>1. up'[k] = up[k]
      BY <1>8, <2>1, <2>4 DEF ReceiveCountry, TypeOK, PipesTypeOK
    <3>2. Telling(k) => Telling(k)'
      BY <2>1, <2>2, <2>4, <3>1 DEF Telling, Receiving, grouphVars
    <3>. QED BY <1>2, <2>2, <3>1, <3>2 DEF grouphVars
  <2>5. CASE k = j
    <3>1. Telling(k)' /\ ~ (k >= sent)
      BY <1>1, <2>1, <2>2, <2>3, <2>5 DEF StageOf, Idle, Telling, Receiving
    <3>. QED BY <2>1, <2>2, <2>5, <3>1 DEF StageOf, grouphVars
  <2>. QED BY <2>4, <2>5
<1>9. ASSUME NEW i \in Groups, GrouphStep(i) \/ OutOfMemory(i) \/ Crash(i), k # i
      PROVE  StageOf(k)'
  <2>1. UNCHANGED fifaVars
    BY <1>9 DEF GrouphStep, Load, Ask, NoCandidate, Die, ReadAnswer, Send, Exit, OutOfMemory, Crash
  <2>2. /\ cpc'[k] = cpc[k] /\ req'[k] = req[k] /\ cused'[k] = cused[k] /\ drawn'[k] = drawn[k]
        /\ out'[k] = out[k] /\ up'[k] = up[k] /\ down'[k] = down[k]
    BY <1>9 DEF GrouphStep, Load, Ask, NoCandidate, Die, ReadAnswer, Send, Exit, OutOfMemory, Crash,
                TypeOK, GrouphTypeOK, PipesTypeOK
  <2>3. Telling(k) => Telling(k)'
    BY <2>1, <2>2 DEF Telling, Receiving, fifaVars
  <2>. QED BY <1>2, <2>1, <2>2, <2>3 DEF fifaVars
<1>10. CASE Load(k)
  BY <1>1, <1>10 DEF Load, StageOf, Idle, fifaVars, TypeOK, GrouphTypeOK, FifaTypeOK
<1>11. CASE Ask(k)
  <2>1. Idle(k) /\ ~ (k >= sent)
    BY <1>1, <1>11 DEF Ask, Drawing, StageOf
  <2>2. PICK c \in Candidates(table, k, cused[k]) :
          req' = [req EXCEPT ![k] = c] /\ up' = [up EXCEPT ![k] = Append(@, c)]
    BY <1>11 DEF Ask
  <2>3. c \in Countries \ cused[k]
    BY CandidatesAreFree
  <2>4. up'[k] = <<c>> /\ req'[k] = c /\ cpc'[k] = "ask"
    BY <1>11, <2>1, <2>2 DEF Ask, Idle, TypeOK, GrouphTypeOK, PipesTypeOK
  <2>5. Requesting(k)'
    BY <1>11, <2>1, <2>3, <2>4 DEF Ask, Idle, Requesting, Countries
  <2>. QED BY <1>11, <2>1, <2>4, <2>5 DEF Ask, StageOf, fifaVars
<1>12. ASSUME NoCandidate(k) \/ OutOfMemory(k) PROVE StageOf(k)'
  <2>1. Idle(k) /\ ~ (k >= sent)
    BY <1>1, <1>12 DEF NoCandidate, OutOfMemory, Drawing, StageOf, TypeOK, FifaTypeOK
  <2>2. out'[k] = <<-2>> \/ out'[k] = <<-3>>
    BY <1>12 DEF NoCandidate, OutOfMemory, TypeOK, GrouphTypeOK
  <2>3. out'[k] # <<>> /\ Head(out'[k]) \in Codes
    BY <2>2 DEF Codes
  <2>4. Telling(k)' /\ cpc'[k] = "send"
    BY <1>12, <2>1, <2>3 DEF NoCandidate, OutOfMemory, Idle, Telling, TypeOK, GrouphTypeOK
  <2>. QED BY <1>12, <2>1, <2>4 DEF NoCandidate, OutOfMemory, StageOf, fifaVars
<1>13. CASE Die(k)
  <2>1. cpc'[k] = "crash" /\ Idle(k)' /\ ~ (k >= sent)
    BY <1>1, <1>13 DEF Die, StageOf, Idle, TypeOK, GrouphTypeOK
  <2>. QED BY <1>13, <2>1 DEF Die, StageOf, fifaVars
<1>14. CASE ReadAnswer(k)
  <2>1. Answered(k) /\ ~ (k >= sent)
    <3>1. ~ Requesting(k)
      BY <1>14 DEF ReadAnswer, Requesting
    <3>. QED BY <1>1, <1>14, <3>1 DEF ReadAnswer, StageOf
  <2>2. down'[k] = <<>>
    <3>1. Tail(<<TRUE>>) = <<>> /\ Tail(<<FALSE>>) = <<>>
      OBVIOUS
    <3>2. Tail(down[k]) = <<>>
      BY <2>1, <3>1, Zenon DEF Answered
    <3>. QED BY <1>14, <3>2 DEF ReadAnswer, TypeOK, PipesTypeOK
  <2>3. CASE Len(drawn'[k]) = Places
    <3>1. cpc'[k] = "send" /\ out'[k] = <<-1, k>> \o drawn'[k]
      BY <1>14, <2>3 DEF ReadAnswer, TypeOK, GrouphTypeOK
    <3>2. drawn'[k] \in Seq(Countries)
      BY TypeStep DEF IInv, TypeOK, GrouphTypeOK
    <3>3. out'[k] # <<>> /\ Head(out'[k]) = -1
      BY <3>1, <3>2
    <3>4. Telling(k)'
      BY <1>14, <2>1, <2>2, <3>3 DEF ReadAnswer, Answered, Telling, Codes
    <3>. QED BY <1>14, <2>1, <3>1, <3>4 DEF ReadAnswer, StageOf, fifaVars
  <2>4. CASE Len(drawn'[k]) # Places
    <3>1. cpc'[k] = "draw" /\ Idle(k)'
      BY <1>14, <2>1, <2>2, <2>4 DEF ReadAnswer, Answered, Idle, TypeOK, GrouphTypeOK
    <3>. QED BY <1>14, <2>1, <3>1 DEF ReadAnswer, StageOf, fifaVars
  <2>. QED BY <2>3, <2>4
<1>15. CASE Send(k)
  <2>1. Telling(k) /\ ~ (k >= sent) /\ cpc'[k] = "send"
    BY <1>1, <1>15 DEF Send, StageOf, Idle
  <2>2. up'[k] = Append(up[k], Head(out[k])) /\ up[k] \in Seq(Countries \cup Codes)
    BY <1>15 DEF Send, TypeOK, PipesTypeOK
  <2>3. up'[k] # <<>> /\ Head(up'[k]) = IF up[k] = <<>> THEN Head(out[k]) ELSE Head(up[k])
    BY <2>2, HeadTailAppend
  <2>4. Telling(k)'
    BY <1>15, <2>1, <2>3 DEF Send, Telling, Receiving, fifaVars
  <2>. QED BY <1>15, <2>1, <2>4 DEF Send, StageOf, fifaVars
<1>16. CASE Exit(k)
  <2>1. Telling(k) /\ ~ (k >= sent)
    BY <1>1, <1>16 DEF Exit, StageOf
  <2>2. Telling(k)' /\ cpc'[k] = "exit"
    BY <1>16, <2>1 DEF Exit, Telling, Receiving, fifaVars, TypeOK, GrouphTypeOK
  <2>. QED BY <1>16, <2>1, <2>2 DEF Exit, StageOf, fifaVars
<1>17. CASE Crash(k)
  <2>1. UNCHANGED <<fifaVars, out, up, down, req, cused, drawn>> /\ cpc'[k] = "crash" /\ Alive(k)
    BY <1>17 DEF Crash, TypeOK, GrouphTypeOK
  <2>2. cpc[k] \in {"load", "draw", "ask", "send"}
    BY <2>1 DEF Alive, TypeOK, GrouphTypeOK, GrouphPlaces
  <2>3. Idle(k)' = Idle(k) /\ Requesting(k)' = Requesting(k)
    BY <2>1 DEF Idle, Requesting, Countries
  <2>4. Answered(k)' = Answered(k) /\ Telling(k)' = Telling(k)
    BY <2>1 DEF Answered, Telling, Receiving, fifaVars
  <2>. QED BY <1>1, <2>1, <2>2, <2>3, <2>4 DEF StageOf, fifaVars
<1>18. CASE UNCHANGED vars
  <2>1. Telling(k) => Telling(k)'
    BY <1>18 DEF vars, fifaVars, grouphVars, Telling, Receiving
  <2>. QED BY <1>2, <1>18, <2>1 DEF vars, fifaVars, grouphVars
<1>. QED
  <2>1. ASSUME NEW i \in Groups, GrouphStep(i) \/ OutOfMemory(i) \/ Crash(i)
        PROVE  StageOf(k)'
    BY <2>1, <1>9, <1>10, <1>11, <1>12, <1>13, <1>14, <1>15, <1>16, <1>17 DEF GrouphStep
  <2>. QED
    BY <1>3, <1>4, <1>5, <1>6, <1>7, <1>8, <1>18, <2>1 DEF Next, FifaStep, Ended
-----------------------------------------------------------------------------
(* What a sequence holds after an Append. *)
LEMMA AppendMembers ==
  ASSUME NEW S, NEW s \in Seq(S), NEW x
  PROVE  LET t == Append(s, x) IN
         {t[p] : p \in DOMAIN t} = {s[p] : p \in DOMAIN s} \cup {x}
<1>. DEFINE t == Append(s, x)
<1>1. /\ DOMAIN s = 1 .. Len(s) /\ Len(s) \in Nat
      /\ DOMAIN t = 1 .. Len(s) + 1
      /\ \A p \in 1 .. Len(s) : t[p] = s[p]
      /\ t[Len(s) + 1] = x
  OBVIOUS
<1>. HIDE DEF t
<1>2. DOMAIN t = DOMAIN s \cup {Len(s) + 1}
  BY <1>1
<1>. QED BY <1>1, <1>2, Zenon DEF t

(* The head of a sequence of one element. *)
LEMMA SingleHead == \A x : Head(<<x>>) = x /\ <<x>> # <<>>
  OBVIOUS

(* The first answer put on an empty pipe. *)
LEMMA EmptyAppends == Append(<<>>, TRUE) = <<TRUE>> /\ Append(<<>>, FALSE) = <<FALSE>>
  OBVIOUS

(* What an answer gives: the country asked for, to the grouph that asked, if
   it was free and somebody is left to hear it. *)
LEMMA AnswerGives ==
  ASSUME IInv, Answer, NEW g, g = j
  PROVE  /\ g \in Groups /\ up[g] = <<req[g]>> /\ down[g] = <<>> /\ Head(up[g]) = req[g]
         /\ used' = used \cup {req[g]} /\ fpc = "scan" /\ g \notin finished
         /\ AllGone \/ req[g] \in used => \A k \in Groups : Given(k)' = Given(k)
         /\ ~ AllGone /\ req[g] \notin used =>
              /\ Given(g) = DrawnSet(g) /\ Given(g)' = Given(g) \cup {req[g]}
              /\ \A k \in Groups \ {g} : Given(k)' = Given(k)
<1>. USE GroupsFacts DEF IInv
<1>1. j \in Groups /\ up[j] # <<>> /\ Head(up[j]) >= 0 /\ fpc = "scan" /\ j \notin finished
  BY DEF Answer, Serving, Groups, TypeOK, FifaTypeOK
<1>2. g \in Groups /\ g = j
  BY <1>1
<1>3. up[g] = <<req[g]>> /\ down[g] = <<>>
  <2>1. Head(up[g]) \notin Codes
    BY <1>1, <1>2 DEF Codes
  <2>2. ~ Idle(g) /\ ~ Answered(g) /\ ~ Telling(g)
    BY <1>1, <1>2, <2>1 DEF Idle, Answered, Telling, Receiving
  <2>3. StageOf(g) /\ cpc[g] \in GrouphPlaces
    BY <1>2 DEF Stages, TypeOK, GrouphTypeOK
  <2>4. Requesting(g)
    BY <2>2, <2>3 DEF StageOf, GrouphPlaces
  <2>. QED BY <2>4 DEF Requesting
<1>4. Head(up[j]) = req[g]
  BY <1>2, <1>3, SingleHead, Zenon
<1>5. used' = used \cup {req[g]} /\ UNCHANGED <<drawn, req, cused>>
  BY <1>4 DEF Answer, grouphVars
<1>6. Owed(g) = {} /\ Given(g) = DrawnSet(g) /\ DrawnSet(g)' = DrawnSet(g)
  BY <1>3, <1>5 DEF Owed, Given, DrawnSet
<1>7. CASE AllGone
  <2>1. UNCHANGED down
    BY <1>7 DEF Answer
  <2>2. \A k \in Groups : Given(k)' = Given(k)
    BY <1>5, <2>1 DEF Given, DrawnSet, Owed
  <2>. QED BY <1>1, <1>2, <1>3, <1>4, <1>5, <1>7, <2>2
<1>8. CASE ~ AllGone
  <2>1. down' = [down EXCEPT ![j] = Append(@, Head(up[j]) \notin used)]
    BY <1>8 DEF Answer
  <2>2. \A k \in Groups \ {g} : Given(k)' = Given(k)
    <3>1. \A k \in Groups \ {g} : down'[k] = down[k]
      BY <1>2, <2>1 DEF TypeOK, PipesTypeOK
    <3>. QED BY <1>5, <3>1 DEF Given, DrawnSet, Owed
  <2>3. down'[g] = Append(<<>>, req[g] \notin used)
    BY <1>2, <1>3, <1>4, <2>1 DEF TypeOK, PipesTypeOK
  <2>4. CASE req[g] \in used
    <3>1. down'[g] = <<FALSE>>
      BY <2>3, <2>4, EmptyAppends, Zenon
    <3>2. Head(down'[g]) = FALSE
      BY <3>1, SingleHead, Zenon
    <3>3. Given(g)' = Given(g)
      BY <1>6, <3>2, Zenon DEF Given, Owed
    <3>. QED BY <1>1, <1>2, <1>3, <1>4, <1>5, <2>2, <2>4, <3>3
  <2>5. CASE req[g] \notin used
    <3>1. down'[g] = <<TRUE>>
      BY <2>3, <2>5, EmptyAppends, Zenon
    <3>2. Head(down'[g]) = TRUE /\ down'[g] # <<>>
      BY <3>1, SingleHead, Zenon
    <3>3. Owed(g)' = {req[g]}
      BY <1>5, <3>2 DEF Owed
    <3>4. Given(g)' = Given(g) \cup {req[g]}
      BY <1>6, <3>3 DEF Given
    <3>. QED BY <1>1, <1>2, <1>3, <1>4, <1>5, <1>6, <1>8, <2>2, <2>5, <3>4
  <2>. QED BY <2>4, <2>5
<1>. QED BY <1>7, <1>8

(* Nothing else gives or takes: a country granted is drawn when its answer is
   read. *)
LEMMA GivenStays ==
  ASSUME IInv, [Next]_vars, ~ Answer, NEW k \in Groups
  PROVE  Given(k)' = Given(k)
<1>. USE DEF IInv
<1>1. ASSUME UNCHANGED <<drawn, down, req>> PROVE Given(k)' = Given(k)
  BY <1>1 DEF Given, DrawnSet, Owed
<1>2. ASSUME (FifaStep /\ ~ Answer) \/ SelectTimesOut \/ UNCHANGED vars PROVE Given(k)' = Given(k)
  <2>1. UNCHANGED <<drawn, down, req>>
    BY <1>2 DEF FifaStep, StartChildren, Synchronize, SendTable, Select, SelectTimesOut, Skip, ReadFails,
       GroupFollows, GroupFails, ReceiveCountry, Reap, Report, vars, grouphVars
  <2>. QED BY <1>1, <2>1
<1>3. ASSUME NEW i \in Groups, \/ Load(i) \/ NoCandidate(i) \/ Die(i) \/ Send(i) \/ Exit(i)
                               \/ OutOfMemory(i) \/ Crash(i)
      PROVE  Given(k)' = Given(k)
  BY <1>1, <1>3 DEF Load, NoCandidate, Die, Send, Exit, OutOfMemory, Crash
<1>4. ASSUME NEW i \in Groups, Ask(i) PROVE Given(k)' = Given(k)
  <2>1. down[i] = <<>>
    BY <1>4 DEF Ask, Drawing, Stages, StageOf, Idle
  <2>2. UNCHANGED <<drawn, down>> /\ (k # i => req'[k] = req[k])
    BY <1>4 DEF Ask, TypeOK, GrouphTypeOK
  <2>. QED BY <2>1, <2>2 DEF Given, DrawnSet, Owed
<1>5. ASSUME NEW i \in Groups, ReadAnswer(i) PROVE Given(k)' = Given(k)
  <2>1. CASE k # i
    <3>1. drawn'[k] = drawn[k] /\ down'[k] = down[k] /\ req' = req
      BY <1>5, <2>1 DEF ReadAnswer, TypeOK, GrouphTypeOK, PipesTypeOK
    <3>. QED BY <3>1 DEF Given, DrawnSet, Owed
  <2>2. CASE k = i
    <3>1. Owed(i)' = {}
      <4>1. Tail(<<TRUE>>) = <<>> /\ Tail(<<FALSE>>) = <<>>
        OBVIOUS
      <4>2. Answered(i)
        BY <1>5 DEF ReadAnswer, Requesting, Stages, StageOf
      <4>3. Tail(down[i]) = <<>>
        BY <4>1, <4>2, Zenon DEF Answered
      <4>4. down'[i] = <<>>
        BY <1>5, <4>3 DEF ReadAnswer, TypeOK, PipesTypeOK
      <4>. QED BY <4>4 DEF Owed
    <3>2. CASE Head(down[i])
      <4>1. drawn'[i] = Append(drawn[i], req[i]) /\ drawn[i] \in Seq(Countries)
        BY <1>5, <3>2 DEF ReadAnswer, TypeOK, GrouphTypeOK
      <4>2. DrawnSet(i)' = DrawnSet(i) \cup {req[i]}
        BY <4>1, AppendMembers DEF DrawnSet
      <4>3. Owed(i) = {req[i]}
        BY <1>5, <3>2 DEF ReadAnswer, Owed
      <4>. QED BY <2>2, <3>1, <4>2, <4>3 DEF Given
    <3>3. CASE ~ Head(down[i])
      <4>1. drawn'[i] = drawn[i]
        BY <1>5, <3>3 DEF ReadAnswer, TypeOK, GrouphTypeOK
      <4>. QED BY <2>2, <3>1, <3>3, <4>1 DEF Given, DrawnSet, Owed
    <3>. QED BY <3>2, <3>3
  <2>. QED BY <2>1, <2>2
<1>. QED BY <1>2, <1>3, <1>4, <1>5 DEF Next, GrouphStep, Ended

LEMMA LedgerStep == IInv /\ [Next]_vars => Ledger'
<1>. SUFFICES ASSUME IInv, TypeOK, FifaStages, Stages, Ledger, [Next]_vars
              PROVE  Ledger'
  BY DEF IInv
<1>. USE GroupsFacts
<1>1. UNCHANGED table => MarkedHeads' = MarkedHeads
  BY DEF MarkedHeads, IsHead
<1>2. UNCHANGED table
  BY DEF Next, FifaStep, GrouphStep, Ended, vars, StartChildren, Synchronize, SendTable, Select,
         SelectTimesOut, Skip, ReadFails, Answer, GroupFollows, ReceiveCountry, GroupFails, Reap,
         Report, Load, Ask, NoCandidate, Die, ReadAnswer, Send, Exit, OutOfMemory, Crash
<1>3. ASSUME used \subseteq used', NEW k \in Groups, Given(k)' = Given(k),
             drawn'[k] = drawn[k], cused'[k] = cused[k]
      PROVE  Account(k)'
  BY <1>1, <1>2, <1>3 DEF Ledger, Account, DrawnSet
<1>4. ASSUME used \subseteq used', fpc # "start",
             \A k \in Groups : /\ Given(k)' = Given(k)
                              /\ drawn'[k] = drawn[k] /\ cused'[k] = cused[k]
      PROVE  Ledger'
  BY <1>1, <1>2, <1>3, <1>4 DEF Ledger
<1>5. ASSUME UNCHANGED <<drawn, down, req, cused>>, used \subseteq used', fpc # "start"
      PROVE  Ledger'
  <2>1. \A k \in Groups : Given(k)' = Given(k)
    BY <1>5 DEF Given, DrawnSet, Owed
  <2>. QED BY <1>4, <1>5, <2>1
<1>6. CASE StartChildren
  <2>1. used = {} /\ used' = MarkedHeads
    BY <1>6 DEF StartChildren, FifaStages
  <2>2. \A k \in Groups : Given(k)' = Given(k) /\ drawn'[k] = drawn[k] /\ cused'[k] = cused[k]
    BY <1>6 DEF StartChildren, Given, DrawnSet, Owed
  <2>3. \A k \in Groups : Account(k)'
    BY <1>3, <2>1, <2>2
  <2>4. \A i \in Groups : \A k \in Groups \ {i} : Given(i)' \cap Given(k)' = {}
    BY <2>2 DEF Ledger
  <2>. QED BY <1>1, <1>2, <2>1, <2>3, <2>4 DEF Ledger
<1>7. ASSUME \/ Synchronize \/ Select \/ SelectTimesOut \/ Skip \/ ReadFails \/ Reap \/ Report
             \/ GroupFollows \/ GroupFails \/ ReceiveCountry
      PROVE  Ledger'
  BY <1>5, <1>7 DEF Synchronize, Select, SelectTimesOut, Skip, ReadFails, Reap, Report, GroupFollows,
                    GroupFails, ReceiveCountry, Serving, grouphVars
<1>8. CASE SendTable
  <2>1. \A k \in Groups : Given(k)' = Given(k) /\ drawn'[k] = drawn[k]
    BY <1>8 DEF SendTable, Given, DrawnSet, Owed
  <2>2. used' = used /\ fpc = "send" /\ sent \in Nat
    BY <1>8 DEF SendTable, TypeOK, FifaTypeOK
  <2>3. ASSUME NEW k \in Groups PROVE Account(k)'
    <3>1. CASE cused'[k] = cused[k]
      BY <1>3, <2>1, <2>2, <3>1
    <3>2. CASE cused'[k] # cused[k]
      <4>1. k = sent /\ cused'[k] = used
        BY <1>8, <3>2 DEF SendTable, TypeOK, GrouphTypeOK
      <4>2. DrawnSet(k)' = DrawnSet(k)
        BY <2>1 DEF DrawnSet
      <4>. QED BY <1>1, <1>2, <2>1, <2>2, <4>1, <4>2 DEF Ledger, Account
    <3>. QED BY <3>1, <3>2
  <2>. QED BY <1>1, <1>2, <2>1, <2>2, <2>3 DEF Ledger
<1>9. CASE Answer
  <2>1. j \in Groups /\ fpc = "scan" /\ used' = used \cup {req[j]} /\ UNCHANGED <<drawn, req, cused>>
    BY <1>9, AnswerGives DEF Answer, grouphVars
  <2>2. PICK g \in Groups : g = j
    BY <2>1
  <2>3. CASE AllGone \/ req[g] \in used
    <3>1. \A k \in Groups : Given(k)' = Given(k)
      BY <1>9, <2>2, <2>3, AnswerGives
    <3>. QED BY <1>4, <2>1, <3>1
  <2>4. CASE ~ AllGone /\ req[g] \notin used
    <3>1. Given(g)' = Given(g) \cup {req[g]} /\ \A k \in Groups \ {g} : Given(k)' = Given(k)
      BY <1>9, <2>2, <2>4, AnswerGives
    <3>2. req[g] \notin MarkedHeads
      BY <2>1, <2>4 DEF Ledger
    <3>3. \A k \in Groups : Account(k)'
      <4>1. \A k \in Groups \ {g} : Account(k)'
        BY <1>3, <2>1, <3>1
      <4>2. Given(g)' \subseteq used' \ MarkedHeads'
        BY <1>1, <1>2, <2>1, <2>2, <3>1, <3>2 DEF Ledger, Account
      <4>3. DrawnSet(g)' = DrawnSet(g)
        BY <2>1 DEF DrawnSet
      <4>4. Account(g)'
        BY <2>1, <4>2, <4>3 DEF Ledger, Account
      <4>. QED BY <4>1, <4>4
    <3>4. \A i \in Groups : \A k \in Groups \ {i} : Given(i)' \cap Given(k)' = {}
      <4>1. \A k \in Groups : Given(k) \subseteq used
        BY DEF Ledger, Account
      <4>2. \A i \in Groups : \A k \in Groups \ {i} : Given(i) \cap Given(k) = {}
        BY DEF Ledger
      <4>. QED BY <2>4, <3>1, <4>1, <4>2
    <3>. QED BY <1>1, <1>2, <2>1, <3>3, <3>4 DEF Ledger
  <2>. QED BY <2>2, <2>3, <2>4
<1>10. ASSUME NEW i \in Groups, GrouphStep(i) \/ OutOfMemory(i) \/ Crash(i)
       PROVE  fpc # "start" /\ used' = used
  <2>1. used' = used
    BY <1>10 DEF GrouphStep, Load, Ask, NoCandidate, Die, ReadAnswer, Send, Exit, OutOfMemory, Crash,
                 fifaVars
  <2>2. CASE fpc = "start"
    <3>1. sent = 0 /\ cpc[i] \in {"none", "load", "crash"} /\ ~ (i < sent)
      BY <2>2 DEF FifaStages, Stages, StageOf
    <3>2. ~ Load(i) /\ ~ Ask(i) /\ ~ NoCandidate(i) /\ ~ Die(i)
      BY <3>1 DEF Load, Ask, NoCandidate, Die, Drawing
    <3>3. ~ ReadAnswer(i) /\ ~ Send(i) /\ ~ Exit(i)
      BY <3>1 DEF ReadAnswer, Send, Exit
    <3>4. ~ OutOfMemory(i)
      BY <3>1 DEF OutOfMemory
    <3>5. ~ Crash(i)
      BY <2>2 DEF Crash
    <3>. QED BY <1>10, <3>2, <3>3, <3>4, <3>5 DEF GrouphStep
  <2>. QED BY <2>1, <2>2
<1>11. ASSUME NEW i \in Groups, \/ Load(i) \/ NoCandidate(i) \/ Die(i) \/ Send(i) \/ Exit(i)
                                \/ OutOfMemory(i) \/ Crash(i)
       PROVE  Ledger'
  <2>1. UNCHANGED <<drawn, down, req, cused>>
    BY <1>11 DEF Load, NoCandidate, Die, Send, Exit, OutOfMemory, Crash
  <2>. QED BY <1>5, <1>10, <1>11, <2>1 DEF GrouphStep
<1>12. ASSUME NEW i \in Groups, Ask(i) PROVE Ledger'
  <2>1. UNCHANGED <<drawn, cused>>
    BY <1>12 DEF Ask
  <2>2. \A k \in Groups : Given(k)' = Given(k)
    <3>1. ~ Answer
      BY <1>12 DEF Ask, Answer, Serving, fifaVars, TypeOK, FifaTypeOK
    <3>. QED BY <3>1, GivenStays
  <2>. QED BY <1>4, <1>10, <1>12, <2>1, <2>2 DEF GrouphStep
<1>13. ASSUME NEW i \in Groups, ReadAnswer(i) PROVE Ledger'
  <2>1. Answered(i)
    <3>1. ~ Requesting(i)
      BY <1>13 DEF ReadAnswer, Requesting
    <3>. QED BY <1>13, <3>1 DEF ReadAnswer, Stages, StageOf
  <2>2. fpc # "start" /\ used' = used /\ req' = req
    BY <1>10, <1>13 DEF GrouphStep, ReadAnswer
  <2>3. \A k \in Groups : Given(k)' = Given(k)
    <3>1. ~ Answer
      <4>1. UNCHANGED fifaVars
        BY <1>13 DEF ReadAnswer
      <4>2. j \in Int
        BY DEF TypeOK, FifaTypeOK
      <4>. QED BY <4>1, <4>2 DEF fifaVars, Answer, Serving
    <3>. QED BY <3>1, GivenStays
  <2>4. \A k \in Groups \ {i} : Account(k)'
    <3>1. \A k \in Groups \ {i} : drawn'[k] = drawn[k] /\ cused'[k] = cused[k]
      BY <1>13 DEF ReadAnswer, TypeOK, GrouphTypeOK
    <3>. QED BY <1>3, <2>2, <2>3, <3>1
  <2>5. cused'[i] = cused[i] \cup {req[i]} /\ req[i] \in used \ cused[i]
    BY <1>13, <2>1 DEF ReadAnswer, Answered, TypeOK, GrouphTypeOK
  <2>6. CASE Head(down[i])
    <3>1. drawn'[i] = Append(drawn[i], req[i]) /\ drawn[i] \in Seq(Countries)
      BY <1>13, <2>6 DEF ReadAnswer, TypeOK, GrouphTypeOK
    <3>2. DrawnSet(i)' = DrawnSet(i) \cup {req[i]}
      BY <3>1, AppendMembers DEF DrawnSet
    <3>3. \A p, q \in DOMAIN drawn'[i] : drawn'[i][p] = drawn'[i][q] => p = q
      <4>1. req[i] \notin DrawnSet(i)
        BY <2>5 DEF Ledger, Account
      <4>2. /\ Len(drawn[i]) \in Nat /\ DOMAIN drawn[i] = 1 .. Len(drawn[i])
            /\ DOMAIN drawn'[i] = 1 .. Len(drawn[i]) + 1
            /\ \A p \in 1 .. Len(drawn[i]) : drawn'[i][p] = drawn[i][p]
            /\ drawn'[i][Len(drawn[i]) + 1] = req[i]
        BY <3>1
      <4>3. \A p \in 1 .. Len(drawn[i]) : drawn[i][p] # req[i]
        BY <4>1, <4>2 DEF DrawnSet
      <4>4. \A p, q \in 1 .. Len(drawn[i]) : drawn[i][p] = drawn[i][q] => p = q
        BY <4>2 DEF Ledger, Account
      <4>. QED BY <4>2, <4>3, <4>4
    <3>4. Account(i)'
      BY <1>1, <1>2, <2>2, <2>3, <2>5, <3>2, <3>3 DEF Ledger, Account
    <3>. QED BY <1>1, <1>2, <2>2, <2>3, <2>4, <3>4 DEF Ledger
  <2>7. CASE ~ Head(down[i])
    <3>1. drawn'[i] = drawn[i]
      BY <1>13, <2>7 DEF ReadAnswer, TypeOK, GrouphTypeOK
    <3>2. DrawnSet(i)' = DrawnSet(i)
      BY <3>1 DEF DrawnSet
    <3>3. Given(i)' = Given(i) /\ Account(i)
      BY <2>3 DEF Ledger
    <3>4. Account(i)'
      BY <1>1, <1>2, <2>2, <2>5, <3>1, <3>2, <3>3 DEF Account
    <3>. QED BY <1>1, <1>2, <2>2, <2>3, <2>4, <3>4 DEF Ledger
  <2>. QED BY <2>6, <2>7
<1>14. CASE UNCHANGED vars
  <2>1. \A k \in Groups : Given(k)' = Given(k) /\ Account(k)'
    <3>1. \A k \in Groups : Given(k)' = Given(k)
      BY <1>14 DEF vars, grouphVars, Given, DrawnSet, Owed
    <3>. QED BY <1>3, <1>14, <3>1 DEF vars, fifaVars, grouphVars
  <2>. QED BY <1>1, <1>14, <2>1 DEF vars, fifaVars, Ledger
<1>. QED
  <2>1. ASSUME NEW i \in Groups, GrouphStep(i) \/ OutOfMemory(i) \/ Crash(i) PROVE Ledger'
    BY <2>1, <1>11, <1>12, <1>13 DEF GrouphStep
  <2>. QED
    BY <1>6, <1>7, <1>8, <1>9, <1>14, <2>1 DEF Next, FifaStep, Ended
-----------------------------------------------------------------------------
(* The inductive invariant holds in every reachable state. *)
THEOREM Inductive == Spec => []IInv
<1>1. IInv /\ [Next]_vars => IInv'
  BY TypeStep, FifaStagesStep, StagesStep, LedgerStep DEF IInv
<1>. QED BY InitInv, <1>1, PTL DEF Spec

(* The variables of fifa, of the grouph processes and of the pipes between
   them stay in their types, whatever crashes or runs out of memory. *)
THEOREM TypeCorrect == Spec => []TypeOK
<1>1. IInv => TypeOK
  BY DEF IInv
<1>. QED BY Inductive, <1>1, PTL

(* No country is ever in two groups, nor twice in one, for tables of any size
   and groups of any size: what the processes of childsListener and
   buildSubfixture do together never gives a country out twice. *)
THEOREM NoCountryTwice == Spec => []GroupsDisjoint
<1>1. IInv => GroupsDisjoint
  <2>. SUFFICES ASSUME IInv PROVE GroupsDisjoint
    OBVIOUS
  <2>1. HeadsFirst => MarkedHeads = Groups
    BY DEF HeadsFirst, MarkedHeads
  <2>2. \A i, k \in Groups : HeadsFirst => k \notin Given(i)
    BY <2>1 DEF IInv, Ledger, Account
  <2>3. \A i \in Groups : \A p, q \in DOMAIN drawn[i] : drawn[i][p] = drawn[i][q] => p = q
    BY DEF IInv, Ledger, Account
  <2>4. \A i \in Groups : \A k \in Groups \ {i} : Given(i) \cap Given(k) = {}
    BY DEF IInv, Ledger
  <2>. QED BY <2>2, <2>3, <2>4 DEF GroupsDisjoint
<1>. QED BY Inductive, <1>1, PTL

(* The copy of the table a grouph draws from never has a country as used that
   fifa still has to give. *)
THEOREM CopiesAreSafe == Spec => []StaleCopiesAreSafe
<1>1. IInv => StaleCopiesAreSafe
  BY DEF IInv, Ledger, Account, StaleCopiesAreSafe
<1>. QED BY Inductive, <1>1, PTL

(* Request and answer alternate on the pipes of every grouph, also when
   others crash. *)
THEOREM RequestThenAnswer == Spec => []Lockstep
<1>1. IInv => Lockstep
  <2>. SUFFICES ASSUME IInv, NEW i \in Groups
                PROVE  /\ cpc[i] = "ask" => \/ up[i] = <<req[i]>> /\ down[i] = <<>>
                                            \/ up[i] = <<>> /\ Len(down[i]) = 1
                       /\ cpc[i] \in {"load", "draw"} => up[i] = <<>> /\ down[i] = <<>>
    BY DEF Lockstep
  <2>1. Len(<<TRUE>>) = 1 /\ Len(<<FALSE>>) = 1
    OBVIOUS
  <2>2. Answered(i) => up[i] = <<>> /\ Len(down[i]) = 1
    BY <2>1, Zenon DEF Answered
  <2>. QED BY <2>2 DEF IInv, Stages, StageOf, Requesting, Idle
<1>. QED BY Inductive, <1>1, PTL

-----------------------------------------------------------------------------
(* Whoever asks, asks for a country its head may have. *)
LEMMA CandidatesAreEligible ==
  ASSUME TypeOK, NEW i \in Groups, ~ Dies(table, i, cused[i]), NEW c \in Candidates(table, i, cused[i])
  PROVE  c \in Eligible(i)
<1>1. DOMAIN table = Countries /\ table[i] \in Country
  BY GroupsFacts, TablesAssumption DEF TypeOK, FifaTypeOK, Countries
<1>2. table[i].conds \subseteq Flags
  BY <1>1 DEF Country
<1>3. SlotsPresent(table, i, cused[i])
  BY DEF Dies
<1>4. c \in Free(table, cused[i]) /\ \A f \in table[i].conds : c \in SetOf(f, table, i, cused[i])
  BY <1>2, <1>3, NoRestrictionIsForgotten
<1>5. c \in Countries
  BY <1>1, <1>4 DEF Free
<1>. QED BY <1>4, <1>5 DEF Eligible, SetOf, SameContinent, DeathGroup, WeakGroup

(* Who finds nobody to ask for is right, of its own copy of the table. *)
LEMMA NobodyIsEligible ==
  ASSUME TypeOK, NEW i \in Groups, ~ Dies(table, i, cused[i]),
         Candidates(table, i, cused[i]) = {}, "champ" \notin table[i].conds
  PROVE  Eligible(i) \subseteq cused[i]
<1>1. DOMAIN table = Countries /\ table[i] \in Country
  BY GroupsFacts, TablesAssumption DEF TypeOK, FifaTypeOK, Countries
<1>2. table[i].conds \subseteq Flags
  BY <1>1 DEF Country
<1>3. SlotsPresent(table, i, cused[i])
  BY DEF Dies
<1>4. SUFFICES ASSUME NEW c \in Eligible(i), c \notin cused[i] PROVE FALSE
  OBVIOUS
<1>5. c \in Free(table, cused[i])
  BY <1>1, <1>4 DEF Eligible, Free
<1>6. \A f \in table[i].conds : c \in SetOf(f, table, i, cused[i])
  BY <1>2, <1>5 DEF Flags, Eligible, SetOf, SameContinent, DeathGroup, WeakGroup
<1>. QED BY <1>2, <1>3, <1>5, <1>6, NoRestrictionIsForgotten

-----------------------------------------------------------------------------
(* A grouph that says it has no solution is right, however stale its copy of
   the table is. *)
LEMMA HonestStep == IInv /\ NoSolutionIsHonest /\ [Next]_vars => NoSolutionIsHonest'
<1>. SUFFICES ASSUME IInv, NoSolutionIsHonest, [Next]_vars, faults' = 0,
                     NEW i \in Groups, GaveUp(i)', "champ" \notin table'[i].conds
              PROVE  Eligible(i)' \subseteq used'
  BY DEF NoSolutionIsHonest
<1>0. TypeOK /\ cused[i] \subseteq used
  BY DEF IInv, Ledger, Account
<1>1. table' = table
  BY DEF Next, FifaStep, GrouphStep, Ended, vars, StartChildren, Synchronize, SendTable, Select,
         SelectTimesOut, Skip, ReadFails, Answer, GroupFollows, ReceiveCountry, GroupFails, Reap,
         Report, Load, Ask, NoCandidate, Die, ReadAnswer, Send, Exit, OutOfMemory, Crash
<1>2. Eligible(i)' = Eligible(i)
  BY <1>1 DEF Eligible
<1>3. ASSUME used \subseteq used', faults' = faults, GaveUp(i)
      PROVE  Eligible(i)' \subseteq used'
  BY <1>1, <1>2, <1>3 DEF NoSolutionIsHonest
<1>4. ASSUME FifaStep \/ SelectTimesOut \/ UNCHANGED vars PROVE Eligible(i)' \subseteq used'
  <2>1. CASE StartChildren
    BY <2>1 DEF StartChildren, GaveUp
  <2>2. CASE SelectTimesOut
    BY <1>0, <2>2 DEF SelectTimesOut, TypeOK, FifaTypeOK
  <2>3. ASSUME ~ StartChildren, ~ SelectTimesOut
        PROVE  UNCHANGED <<cpc, drawn, faults>> /\ used \subseteq used'
    BY <1>4, <2>3 DEF FifaStep, vars, fifaVars, grouphVars, Synchronize, SendTable, Select, Skip,
       ReadFails, Answer, GroupFollows, ReceiveCountry, GroupFails, Reap, Report
  <2>. QED BY <1>3, <2>1, <2>2, <2>3 DEF GaveUp
<1>5. ASSUME NEW k \in Groups, OutOfMemory(k) \/ Crash(k) PROVE Eligible(i)' \subseteq used'
  BY <1>0, <1>5 DEF OutOfMemory, Crash, TypeOK, FifaTypeOK
<1>6. ASSUME NEW k \in Groups, GrouphStep(k) PROVE Eligible(i)' \subseteq used'
  <2>1. used' = used /\ faults' = faults
    BY <1>6 DEF GrouphStep, fifaVars, Load, Ask, NoCandidate, Die, ReadAnswer, Send, Exit
  <2>2. CASE k # i
    <3>1. cpc'[i] = cpc[i] /\ drawn'[i] = drawn[i]
      BY <1>0, <1>6, <2>2 DEF GrouphStep, Load, Ask, NoCandidate, Die, ReadAnswer, Send, Exit,
         TypeOK, GrouphTypeOK
    <3>. QED BY <1>3, <2>1, <3>1 DEF GaveUp
  <2>3. CASE k = i /\ NoCandidate(i)
    <3>1. Eligible(i) \subseteq cused[i]
      BY <1>0, <1>1, <2>3, NobodyIsEligible DEF NoCandidate, Drawing
    <3>. QED BY <1>0, <1>2, <2>1, <3>1
  <2>4. CASE k = i /\ ReadAnswer(i)
    <3>1. cpc'[i] = "send" => Len(drawn'[i]) = Places
      BY <1>0, <2>4 DEF ReadAnswer, TypeOK, GrouphTypeOK
    <3>2. cpc'[i] \in {"draw", "send"}
      BY <1>0, <2>4 DEF ReadAnswer, TypeOK, GrouphTypeOK
    <3>. QED BY <3>1, <3>2, SizeAssumption DEF GaveUp, Places
  <2>5. CASE k = i /\ (Send(i) \/ Exit(i))
    <3>1. cpc[i] = "send" /\ drawn' = drawn
      BY <2>5 DEF Send, Exit
    <3>. QED BY <1>3, <2>1, <3>1 DEF GaveUp
  <2>6. CASE k = i /\ (Load(i) \/ Ask(i) \/ Die(i))
    <3>1. cpc'[i] \in {"draw", "ask", "crash"}
      BY <1>0, <2>6 DEF Load, Ask, Die, TypeOK, GrouphTypeOK
    <3>. QED BY <3>1 DEF GaveUp
  <2>. QED BY <1>6, <2>2, <2>3, <2>4, <2>5, <2>6 DEF GrouphStep
<1>. QED BY <1>4, <1>5, <1>6 DEF Next, Ended

(* A grouph that says it has no solution, without champions among its
   restrictions, is right of fifa's table, however stale its own copy is. *)
THEOREM NoSolutionIsTrue == Spec => []NoSolutionIsHonest
<1>1. Init => NoSolutionIsHonest
  BY DEF Init, NoSolutionIsHonest, GaveUp
<1>. QED BY <1>1, HonestStep, Inductive, PTL DEF Spec
-----------------------------------------------------------------------------
(***************************************************************************)
(* The story of a group, as far as fifa has heard it.  Rest(i) is what     *)
(* grouph i has on its way to fifa or still to write.                      *)
(***************************************************************************)
Rest(i) == up[i] \o out[i]

Unheard(i) == i \notin finished /\ fixture[i] = <<>> /\ ~ (fpc = "receive" /\ j = i)

\* It asks for countries it may have, and its group is not whole.
Asking(i) ==
  /\ Unheard(i) /\ out[i] = <<>>
  /\ cpc[i] \in {"none", "load", "draw", "ask", "crash"}
  /\ Len(drawn[i]) < Places
  /\ up[i] = <<>> \/ (up[i] = <<req[i]>> /\ req[i] \in Eligible(i))

\* It has an error or a whole group to tell, and fifa has not read the code.
Announcing(i) ==
  /\ Unheard(i)
  /\ \/ Rest(i) \in {<<-2>>, <<-3>>}
     \/ Len(drawn[i]) = Places /\ Rest(i) = <<-1>> \o Group(i)

\* fifa reads its countries, or has stopped in the middle of them.
Delivering(i) ==
  /\ i \notin finished /\ Receiving(i)
  /\ Len(drawn[i]) = Places /\ Len(fixture[i]) < GroupSize
  /\ fixture[i] \o Rest(i) = Group(i)

Came(i) == i \in finished /\ Len(drawn[i]) = Places /\ fixture[i] = Group(i)

Delivered(i) == i \in finished /\ Rest(i) = <<>> /\ (fixture[i] = <<>> \/ Came(i))

\* It has stopped asking, and no answer is on its way.
Closed(i) ==
  cpc[i] \in {"send", "exit", "crash"} /\ down[i] = <<>> /\ Len(drawn[i]) <= Places

StoryOf(i) == Asking(i) \/ (Closed(i) /\ (Announcing(i) \/ Delivering(i) \/ Delivered(i)))

Stories == \A i \in Groups : StoryOf(i)

\* headsAmm is the number of groups that have not come.
Missing == {i \in Groups : ~ (i \in finished /\ fixture[i] # <<>>)}
HeadsAccount == headsAmm = Cardinality(Missing)

\* fifa begins before its children and reports once, at its end; it is killed
\* only when its children are gone.
Course ==
  /\ fpc = "start" => \A i \in Groups : cpc[i] = "none"
  /\ outcome = "open" <=> fpc # "done"
  /\ outcome = "killed" => AllGone

\* Only heads and given countries are marked, unless a request was lost.
Spent == AllGone \/ used \subseteq MarkedHeads \cup UNION {Given(i) : i \in Groups}

DrawInv == Stories /\ HeadsAccount /\ Course /\ Spent

-----------------------------------------------------------------------------
(* Sequences: what is read first, and what is moved from one to another. *)
LEMMA ReadFirst ==
  ASSUME NEW S, NEW s \in Seq(S), NEW t \in Seq(S), s # <<>>
  PROVE  /\ s \o t \in Seq(S) /\ s \o t # <<>>
         /\ Head(s \o t) = Head(s) /\ Tail(s \o t) = Tail(s) \o t
<1>1. /\ Len(s) \in Nat /\ Len(t) \in Nat /\ Len(s) > 0
      /\ Tail(s) \in Seq(S) /\ Len(Tail(s)) = Len(s) - 1
      /\ \A k \in 1 .. Len(Tail(s)) : Tail(s)[k] = s[k + 1]
  BY HeadTailProperties, LenProperties, EmptySeq
<1>2. /\ s \o t \in Seq(S) /\ Len(s \o t) = Len(s) + Len(t)
      /\ \A k \in 1 .. Len(s) + Len(t) : (s \o t)[k] = IF k <= Len(s) THEN s[k] ELSE t[k - Len(s)]
  BY ConcatProperties
<1>3. s \o t # <<>>
  BY <1>1, <1>2
<1>4. Head(s \o t) = Head(s)
  <2>1. Head(s) = s[1] /\ Head(s \o t) = (s \o t)[1]
    BY <1>2, <1>3
  <2>. QED BY <1>1, <1>2, <2>1
<1>5. /\ Tail(s \o t) \in Seq(S) /\ Len(Tail(s \o t)) = Len(s) + Len(t) - 1
      /\ \A k \in 1 .. Len(s) + Len(t) - 1 : Tail(s \o t)[k] = (s \o t)[k + 1]
  BY <1>2, <1>3, HeadTailProperties
<1>6. /\ Tail(s) \o t \in Seq(S) /\ Len(Tail(s) \o t) = Len(s) + Len(t) - 1
      /\ \A k \in 1 .. Len(s) + Len(t) - 1 :
            (Tail(s) \o t)[k] = IF k <= Len(s) - 1 THEN Tail(s)[k] ELSE t[k - (Len(s) - 1)]
  BY <1>1, ConcatProperties
<1>7. ASSUME NEW k \in 1 .. Len(Tail(s \o t)) PROVE Tail(s \o t)[k] = (Tail(s) \o t)[k]
  <2>1. k \in 1 .. Len(s) + Len(t) - 1
    BY <1>5
  <2>2. k + 1 \in 1 .. Len(s) + Len(t) /\ k - (Len(s) - 1) = k + 1 - Len(s)
    BY <1>1, <2>1
  <2>3. Tail(s \o t)[k] = IF k + 1 <= Len(s) THEN s[k + 1] ELSE t[k + 1 - Len(s)]
    BY <1>2, <1>5, <2>1, <2>2
  <2>4. CASE k + 1 <= Len(s)
    BY <1>1, <1>6, <2>1, <2>3, <2>4
  <2>5. CASE ~ (k + 1 <= Len(s))
    BY <1>1, <1>6, <2>1, <2>2, <2>3, <2>5
  <2>. QED BY <2>4, <2>5
<1>8. Tail(s \o t) = Tail(s) \o t
  <2>1. Len(Tail(s \o t)) = Len(Tail(s) \o t)
    BY <1>5, <1>6
  <2>. QED BY <1>5, <1>6, <1>7, <2>1, SeqEqual
<1>. QED BY <1>2, <1>3, <1>4, <1>8

LEMMA HeadMoves ==
  ASSUME NEW S, NEW s \in Seq(S), NEW t \in Seq(S), t # <<>>
  PROVE  Append(s, Head(t)) \o Tail(t) = s \o t
<1>1. Head(t) \in S /\ Tail(t) \in Seq(S)
  BY HeadTailProperties
<1>2. <<Head(t)>> \in Seq(S) /\ <<Head(t)>> # <<>>
  BY <1>1
<1>3. Append(s, Head(t)) = s \o <<Head(t)>>
  BY <1>1, AppendIsConcat
<1>4. <<Head(t)>> \o Tail(t) = t
  <2>1. <<Head(t)>> \o Tail(t) \in Seq(S) /\ Len(<<Head(t)>>) = 1
    BY <1>1, <1>2, ConcatProperties
  <2>2. Len(t) \in Nat /\ Len(t) > 0 /\ Len(Tail(t)) = Len(t) - 1 /\ Head(t) = t[1]
        /\ \A k \in 1 .. Len(t) - 1 : Tail(t)[k] = t[k + 1]
    BY LenProperties, HeadTailProperties, EmptySeq
  <2>3. /\ Len(<<Head(t)>> \o Tail(t)) = 1 + (Len(t) - 1)
        /\ \A k \in 1 .. 1 + (Len(t) - 1) :
              (<<Head(t)>> \o Tail(t))[k] = IF k <= 1 THEN <<Head(t)>>[k] ELSE Tail(t)[k - 1]
    BY <1>1, <1>2, <2>1, <2>2, ConcatProperties
  <2>4. ASSUME NEW k \in 1 .. Len(t) PROVE (<<Head(t)>> \o Tail(t))[k] = t[k]
    BY <2>2, <2>3
  <2>. QED BY <2>1, <2>2, <2>3, <2>4, SeqEqual
<1>5. (s \o <<Head(t)>>) \o Tail(t) = s \o (<<Head(t)>> \o Tail(t))
  BY <1>1, <1>2, ConcatAssociative
<1>. QED BY <1>3, <1>4, <1>5

LEMMA CodeFirst ==
  ASSUME NEW S, NEW c \in S, NEW s \in Seq(S)
  PROVE  /\ <<c>> \o s # <<>> /\ Head(<<c>> \o s) = c /\ Tail(<<c>> \o s) = s
         /\ <<c>> \o s \in Seq(S)
<1>1. <<c>> \in Seq(S) /\ <<c>> # <<>> /\ Head(<<c>>) = c /\ Tail(<<c>>) = <<>>
  OBVIOUS
<1>. QED BY <1>1, ReadFirst, ConcatEmptySeq

\* What travels on a pipe.
Word == Countries \cup Codes

LEMMA WordsAssociate == \A a, b, c \in Seq(Word) : (a \o b) \o c = a \o (b \o c)
<1>. TAKE a, b, c \in Seq(Word)
<1>. QED BY ConcatAssociative

LEMMA TwoWords ==
  \A a, b \in Word : <<a>> \in Seq(Word) /\ <<b>> \in Seq(Word) /\ <<a>> \o <<b>> = <<a, b>>
<1>. TAKE a, b \in Word
<1>1. <<a>> \in Seq(Word) /\ <<b>> \in Seq(Word)
  OBVIOUS
<1>2. Append(<<a>>, b) = <<a, b>>
  <2>1. /\ Append(<<a>>, b) \in Seq(Word) /\ Len(Append(<<a>>, b)) = 2
        /\ Append(<<a>>, b)[1] = a /\ Append(<<a>>, b)[2] = b
    BY <1>1, AppendProperties
  <2>2. <<a, b>> \in Seq(Word) /\ Len(<<a, b>>) = 2 /\ <<a, b>>[1] = a /\ <<a, b>>[2] = b
    OBVIOUS
  <2>3. \A k \in 1 .. 2 : Append(<<a>>, b)[k] = <<a, b>>[k]
    BY <2>1, <2>2
  <2>. QED BY <2>1, <2>2, <2>3, SeqEqual
<1>3. Append(<<a>>, b) = <<a>> \o <<b>>
  BY <1>1, AppendIsConcat
<1>. QED BY <1>1, <1>2, <1>3

LEMMA WordTypes ==
  ASSUME TypeOK, NEW i \in Groups
  PROVE  /\ up[i] \in Seq(Word) /\ out[i] \in Seq(Word) /\ fixture[i] \in Seq(Word)
         /\ Rest(i) \in Seq(Word) /\ drawn[i] \in Seq(Countries)
         /\ Group(i) \in Seq(Word) /\ Len(Group(i)) = 1 + Len(drawn[i]) /\ Len(drawn[i]) \in Nat
<1>1. up[i] \in Seq(Word) /\ out[i] \in Seq(Word) /\ fixture[i] \in Seq(Word)
      /\ drawn[i] \in Seq(Countries)
  BY DEF TypeOK, GrouphTypeOK, PipesTypeOK, Word
<1>2. Rest(i) \in Seq(Word)
  BY <1>1, ConcatProperties DEF Rest
<1>3. i \in Countries
  BY GroupsFacts
<1>4. drawn[i] \in Seq(Word) /\ <<i>> \in Seq(Word) /\ Len(<<i>>) = 1 /\ Len(drawn[i]) \in Nat
  BY <1>1, <1>3 DEF Word
<1>5. Group(i) \in Seq(Word) /\ Len(Group(i)) = 1 + Len(drawn[i])
  BY <1>4, ConcatProperties DEF Group
<1>. QED BY <1>1, <1>2, <1>4, <1>5
LEMMA TableStays == [Next]_vars => table' = table
BY DEF Next, FifaStep, GrouphStep, Ended, vars, StartChildren, Synchronize, SendTable, Select,
       SelectTimesOut, Skip, ReadFails, Answer, GroupFollows, ReceiveCountry, GroupFails, Reap,
       Report, Load, Ask, NoCandidate, Die, ReadAnswer, Send, Exit, OutOfMemory, Crash

(* The first thing that fifa reads of a grouph says what its story is. *)
LEMMA FirstTells ==
  ASSUME TypeOK, NEW i \in Groups, StoryOf(i), ~ Receiving(i), i \notin finished, up[i] # <<>>
  PROVE  /\ Head(up[i]) >= 0 => Asking(i) /\ up[i] = <<req[i]>> /\ req[i] \in Eligible(i)
         /\ Head(up[i]) = -1 =>
              /\ Announcing(i) /\ Closed(i)
              /\ Tail(up[i]) \o out[i] = Group(i) /\ Len(drawn[i]) = Places
         /\ Head(up[i]) \in {-2, -3} =>
              /\ Announcing(i) /\ Closed(i)
              /\ Tail(up[i]) \o out[i] = <<>>
<1>1. Head(Rest(i)) = Head(up[i]) /\ Tail(Rest(i)) = Tail(up[i]) \o out[i]
  BY WordTypes, ReadFirst DEF Rest
<1>2. CASE Asking(i)
  <2>1. up[i] = <<req[i]>> /\ req[i] \in Eligible(i) /\ Head(<<req[i]>>) = req[i]
    BY <1>2 DEF Asking
  <2>2. req[i] \in Nat
    BY <2>1, SizeAssumption DEF Eligible, Countries
  <2>3. Head(up[i]) = req[i]
    BY <2>1
  <2>4. Head(up[i]) # -1 /\ Head(up[i]) \notin {-2, -3}
    BY <2>2, <2>3
  <2>. QED BY <1>2, <2>1, <2>4
<1>3. CASE Announcing(i) /\ Closed(i)
  <2>1. CASE Rest(i) \in {<<-2>>, <<-3>>}
    <3>1. /\ Head(<<-2>>) = -2 /\ Head(<<-3>>) = -3
          /\ Tail(<<-2>>) = <<>> /\ Tail(<<-3>>) = <<>>
      OBVIOUS
    <3>2. Head(Rest(i)) \in {-2, -3} /\ Tail(Rest(i)) = <<>>
      BY <2>1, <3>1
    <3>3. Head(up[i]) \in {-2, -3} /\ Tail(up[i]) \o out[i] = <<>>
      BY <1>1, <3>2
    <3>4. ~ (Head(up[i]) >= 0) /\ Head(up[i]) # -1
      BY <3>3
    <3>. QED BY <1>3, <3>3, <3>4
  <2>2. CASE Len(drawn[i]) = Places /\ Rest(i) = <<-1>> \o Group(i)
    <3>1. Head(<<-1>> \o Group(i)) = -1 /\ Tail(<<-1>> \o Group(i)) = Group(i)
      <4>1. -1 \in Word /\ Group(i) \in Seq(Word)
        BY WordTypes DEF Word, Codes
      <4>. QED BY <4>1, CodeFirst
    <3>2. Head(up[i]) = -1 /\ Tail(up[i]) \o out[i] = Group(i)
      BY <1>1, <2>2, <3>1
    <3>3. ~ (Head(up[i]) >= 0) /\ Head(up[i]) \notin {-2, -3}
      BY <3>2
    <3>. QED BY <1>3, <2>2, <3>2, <3>3
  <2>. QED BY <1>3, <2>1, <2>2 DEF Announcing
<1>. QED BY <1>2, <1>3 DEF StoryOf, Delivering, Delivered

-----------------------------------------------------------------------------
LEMMA StoriesStep == IInv /\ DrawInv /\ [Next]_vars => Stories'
<1>. SUFFICES ASSUME IInv, DrawInv, [Next]_vars, NEW k \in Groups
              PROVE  StoryOf(k)'
  BY DEF Stories
<1>0. /\ TypeOK /\ TypeOK' /\ StoryOf(k) /\ StageOf(k) /\ table' = table
      /\ Places \in Nat \ {0} /\ GroupSize = Places + 1 /\ GroupSize \in Nat
  BY TypeStep, TableStays, SizeAssumption DEF IInv, DrawInv, Stories, Stages, Places
<1>1. /\ up[k] \in Seq(Word) /\ out[k] \in Seq(Word) /\ fixture[k] \in Seq(Word)
      /\ Rest(k) \in Seq(Word) /\ Len(drawn[k]) \in Nat
      /\ Group(k) \in Seq(Word) /\ Len(Group(k)) = 1 + Len(drawn[k])
  BY <1>0, WordTypes
<1>2. Eligible(k)' = Eligible(k)
  BY <1>0 DEF Eligible
<1>3. ASSUME cpc'[k] = cpc[k], req'[k] = req[k], drawn'[k] = drawn[k], out'[k] = out[k],
             up'[k] = up[k], down'[k] = down[k], fixture'[k] = fixture[k], k \in finished' <=> k \in finished,
             (fpc' = "receive" /\ j' = k) => (fpc = "receive" /\ j = k),
             Receiving(k) => Receiving(k)'
      PROVE  StoryOf(k)'
  <2>1. Unheard(k) => Unheard(k)'
    BY <1>3 DEF Unheard
  <2>2. Asking(k) => Asking(k)'
    BY <1>2, <1>3, <2>1 DEF Asking
  <2>3. Rest(k)' = Rest(k) /\ Group(k)' = Group(k)
    BY <1>3 DEF Rest, Group
  <2>4. Announcing(k) => Announcing(k)'
    BY <1>3, <2>1, <2>3 DEF Announcing
  <2>5. Delivering(k) => Delivering(k)'
    BY <1>3, <2>3 DEF Delivering
  <2>6. Delivered(k) => Delivered(k)'
    BY <1>3, <2>3 DEF Delivered, Came
  <2>. QED BY <1>0, <1>3, <2>2, <2>4, <2>5, <2>6 DEF StoryOf, Closed
<1>4. CASE StartChildren
  <2>1. Asking(k)
    BY <1>0, <1>4 DEF StartChildren, DrawInv, Course, StoryOf, Closed
  <2>2. cpc'[k] \in {"none", "load"} /\ Unheard(k)'
    BY <1>4, <2>1 DEF StartChildren, Asking, Unheard
  <2>. QED BY <1>2, <1>4, <2>1, <2>2 DEF StartChildren, Asking, StoryOf
<1>5. CASE Synchronize \/ SendTable \/ Select \/ SelectTimesOut \/ Skip \/ ReadFails \/ Reap \/ Report
  <2>1. UNCHANGED <<cpc, req, drawn, out, up, down, fixture, finished>> /\ fpc' # "receive"
    BY <1>5 DEF Synchronize, SendTable, Select, SelectTimesOut, Skip, ReadFails, Reap, Report, grouphVars
  <2>2. Receiving(k) => Receiving(k)'
    BY <1>5 DEF Receiving, Synchronize, SendTable, Select, SelectTimesOut, Skip, ReadFails, Serving,
       Reap, Report
  <2>. QED BY <1>3, <2>1, <2>2
<1>6. ASSUME Serving, fpc' \in {"scan", "listen", "wait", "done", "receive"},
             fpc' = "receive" => j' = j,
             UNCHANGED grouphVars, k # j, up'[k] = up[k], down'[k] = down[k], fixture' = fixture,
             k \in finished' <=> k \in finished
      PROVE  StoryOf(k)'
  BY <1>3, <1>6 DEF Serving, Receiving, grouphVars
<1>7. CASE Answer
  <2>1. CASE k # j
    <3>1. up'[k] = up[k] /\ down'[k] = down[k]
      BY <1>0, <1>7, <2>1 DEF Answer, TypeOK, PipesTypeOK
    <3>. QED BY <1>6, <1>7, <2>1, <3>1 DEF Answer, Serving
  <2>2. CASE k = j
    <3>1. Asking(k) /\ up[k] = <<req[k]>>
      BY <1>0, <1>7, <2>2, FirstTells DEF Answer, Serving, Receiving
    <3>2. up'[k] = <<>>
      <4>1. Tail(<<req[k]>>) = <<>>
        OBVIOUS
      <4>. QED BY <1>0, <1>7, <2>2, <3>1, <4>1 DEF Answer, TypeOK, PipesTypeOK
    <3>3. Unheard(k)'
      BY <1>7, <3>1 DEF Answer, Serving, Asking, Unheard
    <3>. QED BY <1>7, <3>1, <3>2, <3>3 DEF Answer, Asking, StoryOf, grouphVars
  <2>. QED BY <2>1, <2>2
<1>8. CASE GroupFollows
  <2>1. CASE k # j
    <3>1. up'[k] = up[k]
      BY <1>0, <1>8, <2>1 DEF GroupFollows, TypeOK, PipesTypeOK
    <3>. QED BY <1>6, <1>8, <2>1, <3>1 DEF GroupFollows
  <2>2. CASE k = j
    <3>1. /\ Announcing(k) /\ Closed(k)
          /\ Tail(up[k]) \o out[k] = Group(k) /\ Len(drawn[k]) = Places
      BY <1>0, <1>8, <2>2, FirstTells DEF GroupFollows, Serving, Receiving
    <3>2. up'[k] = Tail(up[k])
      BY <1>0, <1>8, <2>2 DEF GroupFollows, TypeOK, PipesTypeOK
    <3>3. Rest(k)' = Group(k)
      BY <1>8, <3>1, <3>2 DEF Rest, GroupFollows, grouphVars
    <3>4. fixture[k] \o Group(k) = Group(k) /\ Len(fixture[k]) = 0
      BY <1>1, <3>1, ConcatEmptySeq DEF Announcing, Unheard
    <3>5. Group(k)' = Group(k)
      BY <1>8 DEF Group, GroupFollows, grouphVars
    <3>6. Delivering(k)'
      BY <1>0, <1>8, <2>2, <3>1, <3>3, <3>4, <3>5
         DEF Delivering, Receiving, GroupFollows, Serving, grouphVars
    <3>. QED BY <1>8, <3>1, <3>6 DEF StoryOf, Closed, GroupFollows, grouphVars
  <2>. QED BY <2>1, <2>2
<1>9. CASE GroupFails
  <2>1. CASE k # j
    <3>1. up'[k] = up[k]
      BY <1>0, <1>9, <2>1 DEF GroupFails, TypeOK, PipesTypeOK
    <3>. QED BY <1>6, <1>9, <2>1, <3>1 DEF GroupFails
  <2>2. CASE k = j
    <3>1. /\ Announcing(k) /\ Closed(k)
          /\ Tail(up[k]) \o out[k] = <<>>
      BY <1>0, <1>9, <2>2, FirstTells DEF GroupFails, Serving, Receiving
    <3>2. up'[k] = Tail(up[k])
      BY <1>0, <1>9, <2>2 DEF GroupFails, TypeOK, PipesTypeOK
    <3>3. Delivered(k)'
      BY <1>9, <2>2, <3>1, <3>2 DEF Delivered, Rest, Announcing, Unheard, GroupFails, grouphVars
    <3>. QED BY <1>9, <3>1, <3>3 DEF StoryOf, Closed, GroupFails, grouphVars
  <2>. QED BY <2>1, <2>2
<1>10. CASE ReceiveCountry
  <2>0. j \in Groups /\ j \notin finished /\ cpc[j] \in {"send", "exit", "crash"}
    <3>1. j < GroupsAmm /\ j \notin finished /\ cpc[j] \in {"send", "exit", "crash"}
      BY <1>10 DEF IInv, FifaStages, ReceiveCountry
    <3>2. j \in 0 .. GroupsAmm
      BY <1>0 DEF TypeOK, FifaTypeOK
    <3>. QED BY <3>1, <3>2, GroupsFacts DEF Groups
  <2>1. CASE k # j
    <3>1. up'[k] = up[k] /\ fixture'[k] = fixture[k]
      BY <1>0, <1>10, <2>1 DEF ReceiveCountry, TypeOK, PipesTypeOK
    <3>2. /\ UNCHANGED <<grouphVars, down>> /\ (k \in finished' <=> k \in finished)
          /\ fpc = "receive" /\ (fpc' = "receive" => j' = j)
      <4>1. fpc' = "receive" => j' = j
        BY <1>10 DEF ReceiveCountry
      <4>. QED BY <1>10, <2>1, <4>1 DEF ReceiveCountry
    <3>. QED BY <1>3, <2>1, <3>1, <3>2 DEF Receiving, grouphVars
  <2>2. CASE k = j
    <3>1. Delivering(k) /\ k \notin finished /\ Closed(k)
      BY <1>0, <1>10, <2>0, <2>2
         DEF ReceiveCountry, StoryOf, Asking, Announcing, Delivered, Unheard
    <3>2. up'[k] = Tail(up[k]) /\ fixture'[k] = Append(fixture[k], Head(up[k]))
      BY <1>0, <1>10, <2>2 DEF ReceiveCountry, TypeOK, PipesTypeOK
    <3>3. UNCHANGED <<grouphVars, down>> /\ Group(k)' = Group(k) /\ up[k] # <<>>
      BY <1>10, <2>2 DEF ReceiveCountry, Group, grouphVars
    <3>0. Head(up[k]) \in Word /\ Tail(up[k]) \in Seq(Word) /\ fixture'[k] \in Seq(Word)
      <4>1. Head(up[k]) \in Word /\ Tail(up[k]) \in Seq(Word)
        BY <1>1, <3>3, HeadTailProperties
      <4>. QED BY <1>1, <3>2, <4>1, AppendProperties
    <3>4. fixture'[k] \o (Tail(up[k]) \o out[k]) = Group(k)
      <4>1. fixture'[k] \o (Tail(up[k]) \o out[k]) = (fixture'[k] \o Tail(up[k])) \o out[k]
        <5>1. out[k] \in Seq(Word)
          BY <1>1
        <5>. QED BY <3>0, <5>1, WordsAssociate
      <4>2. fixture'[k] \o Tail(up[k]) = fixture[k] \o up[k]
        BY <1>1, <3>2, <3>3, HeadMoves
      <4>3. (fixture[k] \o up[k]) \o out[k] = fixture[k] \o (up[k] \o out[k])
        <5>1. out[k] \in Seq(Word) /\ fixture[k] \in Seq(Word) /\ up[k] \in Seq(Word)
          BY <1>1
        <5>. QED BY <5>1, WordsAssociate
      <4>. QED BY <3>1, <4>1, <4>2, <4>3 DEF Delivering, Rest
    <3>5. Rest(k)' = Tail(up[k]) \o out[k]
      BY <3>2, <3>3 DEF Rest, grouphVars
    <3>6. /\ Rest(k)' \in Seq(Word) /\ Len(Rest(k)') \in Nat
          /\ Len(fixture'[k]) \in Nat /\ Len(drawn[k]) = Places /\ drawn' = drawn /\ cpc' = cpc
      <4>1. Rest(k)' \in Seq(Word)
        BY <1>1, <3>0, <3>5, ConcatProperties
      <4>. QED BY <3>0, <3>1, <3>3, <4>1, LenProperties DEF Delivering, grouphVars
    <3>7. CASE Len(fixture'[k]) < Places + 1
      <4>1. fpc' = fpc /\ j' = j /\ finished' = finished
        BY <1>10, <2>2, <3>7 DEF ReceiveCountry
      <4>2. Delivering(k)'
        BY <1>0, <3>1, <3>3, <3>4, <3>5, <3>6, <3>7, <4>1 DEF Delivering, Receiving
      <4>. QED BY <3>1, <3>3, <3>6, <4>2 DEF StoryOf, Closed
    <3>8. CASE ~ (Len(fixture'[k]) < Places + 1)
      <4>1. k \in finished'
        BY <1>10, <2>2, <3>8 DEF ReceiveCountry
      <4>2. Len(Group(k)) = Places + 1
        BY <1>0, <1>1, <3>6
      <4>3. /\ Len(Rest(k)') \in Nat
            /\ Len(Group(k)) = Len(fixture'[k]) + Len(Rest(k)')
        <5>1. Len(fixture'[k] \o Rest(k)') = Len(fixture'[k]) + Len(Rest(k)')
          BY <3>0, <3>6, ConcatProperties
        <5>. QED BY <3>4, <3>5, <3>6, <5>1
      <4>4. Rest(k)' = <<>>
        BY <1>0, <3>6, <3>8, <4>2, <4>3, EmptySeq
      <4>5. fixture'[k] = Group(k)
        BY <3>0, <3>4, <3>5, <4>4, ConcatEmptySeq
      <4>6. Delivered(k)'
        BY <3>3, <3>6, <4>1, <4>4, <4>5 DEF Delivered, Came
      <4>. QED BY <3>1, <3>3, <3>6, <4>6 DEF StoryOf, Closed
    <3>. QED BY <3>7, <3>8
  <2>. QED BY <2>1, <2>2
<1>11. ASSUME NEW i \in Groups, GrouphStep(i) \/ OutOfMemory(i) \/ Crash(i)
       PROVE  StoryOf(k)'
  <2>0. UNCHANGED <<fpc, j, finished, fixture>>
    BY <1>11 DEF GrouphStep, Load, Ask, NoCandidate, Die, ReadAnswer, Send, Exit, OutOfMemory,
       Crash, fifaVars
  <2>1. CASE i # k
    <3>1. /\ cpc'[k] = cpc[k] /\ req'[k] = req[k] /\ drawn'[k] = drawn[k] /\ out'[k] = out[k]
          /\ up'[k] = up[k] /\ down'[k] = down[k]
      BY <1>0, <1>11, <2>1 DEF GrouphStep, Load, Ask, NoCandidate, Die, ReadAnswer, Send, Exit,
         OutOfMemory, Crash, TypeOK, GrouphTypeOK, PipesTypeOK
    <3>. QED BY <1>3, <2>0, <3>1 DEF Receiving
  <2>2. Unheard(k) => Unheard(k)'
    BY <2>0 DEF Unheard
  <2>3. ASSUME Asking(k), UNCHANGED <<up, req, drawn, out>>,
               cpc'[k] \in {"none", "load", "draw", "ask", "crash"}
        PROVE  StoryOf(k)'
    BY <1>2, <2>2, <2>3 DEF Asking, StoryOf
  <2>4. ASSUME UNCHANGED <<up, down, drawn, out>>, cpc[k] \in {"send", "exit", "crash"}, ~ Asking(k),
               cpc'[k] \in {"send", "exit", "crash"}
        PROVE  StoryOf(k)'
    <3>1. Rest(k)' = Rest(k) /\ Group(k)' = Group(k)
      BY <2>4 DEF Rest, Group
    <3>. QED BY <1>0, <2>0, <2>2, <2>4, <3>1
         DEF StoryOf, Closed, Announcing, Delivering, Delivered, Came, Receiving
  <2>5. ASSUME Asking(k), up[k] = <<>>, down[k] = <<>>, UNCHANGED <<up, down, drawn>>, cpc'[k] = "send",
               out'[k] \in {<<-2>>, <<-3>>}
        PROVE  StoryOf(k)'
    <3>1. out'[k] \in Seq(Word)
      BY <1>0, WordTypes DEF TypeOK, GrouphTypeOK, Word
    <3>2. Rest(k)' = out'[k]
      BY <2>5, <3>1, ConcatEmptySeq DEF Rest
    <3>3. Announcing(k)'
      BY <2>2, <2>5, <3>2 DEF Asking, Announcing
    <3>. QED BY <1>0, <1>1, <2>5, <3>3 DEF StoryOf, Closed, Asking
  <2>6. CASE i = k /\ Load(k)
    <3>1. Asking(k)
      BY <1>0, <2>6 DEF StoryOf, Closed, Load
    <3>. QED BY <1>0, <2>3, <2>6, <3>1 DEF Load, TypeOK, GrouphTypeOK
  <2>7. CASE i = k /\ Ask(k)
    <3>1. Asking(k)
      BY <1>0, <2>7 DEF StoryOf, Closed, Ask, Drawing
    <3>2. PICK c \in Candidates(table, k, cused[k]) :
                 req'[k] = c /\ up' = [up EXCEPT ![k] = Append(@, c)]
      BY <1>0, <2>7 DEF Ask, TypeOK, GrouphTypeOK
    <3>3. c \in Eligible(k)
      BY <1>0, <2>7, CandidatesAreEligible DEF Ask, Drawing
    <3>4. up[k] = <<>>
      BY <1>0, <2>7 DEF StageOf, Idle, Ask, Drawing
    <3>5. up'[k] = <<req'[k]>>
      BY <1>0, <3>2, <3>4 DEF TypeOK, PipesTypeOK
    <3>6. UNCHANGED <<drawn, out>> /\ cpc'[k] = "ask"
      BY <1>0, <2>7 DEF Ask, TypeOK, GrouphTypeOK
    <3>7. Asking(k)'
      BY <1>2, <2>2, <3>1, <3>2, <3>3, <3>5, <3>6 DEF Asking
    <3>. QED BY <3>7 DEF StoryOf
  <2>8. CASE i = k /\ (NoCandidate(k) \/ OutOfMemory(k))
    <3>1. cpc[k] \in {"load", "draw"}
      BY <2>8 DEF NoCandidate, Drawing, OutOfMemory
    <3>2. Asking(k) /\ up[k] = <<>> /\ down[k] = <<>>
      BY <1>0, <3>1 DEF StoryOf, Closed, StageOf, Idle
    <3>3. UNCHANGED <<up, down, drawn>> /\ cpc'[k] = "send" /\ out'[k] \in {<<-2>>, <<-3>>}
      BY <1>0, <2>8 DEF NoCandidate, OutOfMemory, TypeOK, GrouphTypeOK
    <3>. QED BY <2>5, <3>2, <3>3
  <2>9. CASE i = k /\ Die(k)
    <3>1. Asking(k)
      BY <1>0, <2>9 DEF StoryOf, Closed, Die
    <3>. QED BY <1>0, <2>3, <2>9, <3>1 DEF Die, TypeOK, GrouphTypeOK
  <2>10. CASE i = k /\ Crash(k)
    <3>1. UNCHANGED <<up, down, req, drawn, out>> /\ cpc'[k] = "crash"
      BY <1>0, <2>10 DEF Crash, TypeOK, GrouphTypeOK
    <3>2. CASE Asking(k)
      BY <2>3, <3>1, <3>2
    <3>3. CASE ~ Asking(k)
      BY <1>0, <2>4, <3>1, <3>3 DEF StoryOf, Closed
    <3>. QED BY <3>2, <3>3
  <2>11. CASE i = k /\ ReadAnswer(k)
    <3>1. Asking(k) /\ up[k] = <<>> /\ Answered(k)
      BY <1>0, <2>11 DEF StoryOf, Closed, StageOf, Requesting, Answered, ReadAnswer
    <3>2. up' = up
      BY <2>11 DEF ReadAnswer
    <3>3. drawn'[k] = Append(drawn[k], req[k]) \/ drawn'[k] = drawn[k]
      BY <1>0, <2>11 DEF ReadAnswer, TypeOK, GrouphTypeOK
    <3>4. Len(drawn'[k]) \in Nat /\ Len(drawn'[k]) <= Len(drawn[k]) + 1 /\ drawn'[k] \in Seq(Countries)
      <4>1. drawn[k] \in Seq(Countries) /\ drawn'[k] \in Seq(Countries)
        BY <1>0 DEF TypeOK, GrouphTypeOK
      <4>2. Len(Append(drawn[k], req[k])) = Len(drawn[k]) + 1
        BY <4>1
      <4>. QED BY <1>1, <3>3, <4>1, <4>2
    <3>5. CASE Len(drawn'[k]) = Places
      <4>1. cpc'[k] = "send" /\ out'[k] = <<-1, k>> \o drawn'[k]
        BY <1>0, <2>11, <3>5 DEF ReadAnswer, TypeOK, GrouphTypeOK
      <4>2. k \in Word /\ -1 \in Word /\ drawn'[k] \in Seq(Word)
        BY <3>4, GroupsFacts DEF Word, Codes
      <4>3. <<-1, k>> \o drawn'[k] = <<-1>> \o (<<k>> \o drawn'[k])
        <5>1. <<-1>> \in Seq(Word) /\ <<k>> \in Seq(Word) /\ <<-1>> \o <<k>> = <<-1, k>>
          BY <4>2, TwoWords
        <5>2. (<<-1>> \o <<k>>) \o drawn'[k] = <<-1>> \o (<<k>> \o drawn'[k])
          BY <4>2, <5>1, ConcatAssociative
        <5>. QED BY <5>1, <5>2
      <4>4. out'[k] \in Seq(Word)
        BY <1>0 DEF TypeOK, GrouphTypeOK, Word
      <4>5. Rest(k)' = out'[k]
        BY <3>1, <3>2, <4>4, ConcatEmptySeq DEF Rest
      <4>6. Announcing(k)'
        BY <2>2, <3>1, <3>5, <4>1, <4>3, <4>5 DEF Asking, Announcing, Group
      <4>7. down'[k] = <<>>
        <5>1. Tail(<<TRUE>>) = <<>> /\ Tail(<<FALSE>>) = <<>>
          OBVIOUS
        <5>2. Tail(down[k]) = <<>>
          BY <3>1, <5>1, Zenon DEF Answered
        <5>. QED BY <1>0, <2>11, <5>2 DEF ReadAnswer, TypeOK, PipesTypeOK
      <4>. QED BY <1>0, <3>5, <4>1, <4>6, <4>7 DEF StoryOf, Closed
    <3>6. CASE Len(drawn'[k]) # Places
      <4>1. cpc'[k] = "draw" /\ out' = out
        BY <1>0, <2>11, <3>6 DEF ReadAnswer, TypeOK, GrouphTypeOK
      <4>2. Len(drawn'[k]) < Places
        BY <1>0, <1>1, <3>1, <3>4, <3>6 DEF Asking
      <4>3. Asking(k)'
        BY <2>2, <3>1, <3>2, <4>1, <4>2 DEF Asking
      <4>. QED BY <4>3 DEF StoryOf
    <3>. QED BY <3>5, <3>6
  <2>12. CASE i = k /\ Send(k)
    <3>1. /\ cpc[k] = "send" /\ out[k] # <<>> /\ UNCHANGED <<cpc, drawn, req, down>>
          /\ up'[k] = Append(up[k], Head(out[k])) /\ out'[k] = Tail(out[k])
      BY <1>0, <2>12 DEF Send, TypeOK, GrouphTypeOK, PipesTypeOK
    <3>2. Rest(k)' = Rest(k) /\ Group(k)' = Group(k)
      BY <1>1, <3>1, HeadMoves DEF Rest, Group
    <3>. QED BY <1>0, <2>0, <2>2, <3>1, <3>2
         DEF StoryOf, Closed, Asking, Announcing, Delivering, Delivered, Came, Receiving
  <2>13. CASE i = k /\ Exit(k)
    <3>1. /\ UNCHANGED <<up, down, drawn, out>> /\ cpc[k] = "send" /\ cpc'[k] = "exit"
      BY <1>0, <2>13 DEF Exit, TypeOK, GrouphTypeOK
    <3>. QED BY <2>4, <3>1 DEF Asking
  <2>. QED BY <1>11, <2>1, <2>6, <2>7, <2>8, <2>9, <2>10, <2>11, <2>12, <2>13 DEF GrouphStep
<1>12. CASE UNCHANGED vars
  BY <1>3, <1>12 DEF vars, fifaVars, grouphVars, Receiving
<1>. QED
  BY <1>4, <1>5, <1>7, <1>8, <1>9, <1>10, <1>11, <1>12 DEF Next, FifaStep, Ended
-----------------------------------------------------------------------------
\* Once the children have been made, none comes back.
LEMMA GoneStays ==
  ASSUME TypeOK, [Next]_vars, AllGone, fpc # "start"
  PROVE  AllGone'
<1>1. \A i \in Groups : cpc[i] \in {"none", "exit", "crash"}
  BY DEF AllGone, Alive
<1>2. cpc' = cpc
  <2>1. ASSUME NEW i \in Groups PROVE ~ (GrouphStep(i) \/ OutOfMemory(i) \/ Crash(i))
    BY <1>1 DEF GrouphStep, Load, Ask, NoCandidate, Die, ReadAnswer, Send, Exit, OutOfMemory, Crash,
       Drawing, Alive
  <2>. QED
    BY <2>1 DEF Next, FifaStep, Ended, StartChildren, Synchronize, SendTable, Select, SelectTimesOut,
       Skip, ReadFails, Answer, GroupFollows, GroupFails, ReceiveCountry, Reap, Report, vars, grouphVars
<1>. QED BY <1>1, <1>2 DEF AllGone, Alive

\* Before them there is nobody.
LEMMA NobodyBegins ==
  ASSUME TypeOK, Course, [Next]_vars, fpc = "start"
  PROVE  AllGone /\ (StartChildren \/ UNCHANGED vars)
<1>1. \A i \in Groups : cpc[i] = "none"
  BY DEF Course
<1>2. ASSUME NEW i \in Groups PROVE ~ (GrouphStep(i) \/ OutOfMemory(i) \/ Crash(i))
  BY <1>1 DEF GrouphStep, Load, Ask, NoCandidate, Die, ReadAnswer, Send, Exit, OutOfMemory, Crash,
     Drawing, Alive
<1>. QED
  BY <1>1, <1>2 DEF Next, FifaStep, Ended, Synchronize, SendTable, Select, SelectTimesOut, Skip,
     ReadFails, Answer, GroupFollows, GroupFails, ReceiveCountry, Reap, Report, AllGone, Alive, Serving

LEMMA CourseStep == IInv /\ DrawInv /\ [Next]_vars => Course'
<1>. SUFFICES ASSUME TypeOK, Course, [Next]_vars PROVE Course'
  BY DEF IInv, DrawInv
<1>1. CASE fpc = "start"
  BY <1>1, NobodyBegins DEF Course, StartChildren, vars, fifaVars, grouphVars, AllGone, Alive
<1>2. CASE fpc # "start"
  <2>1. fpc' # "start"
    BY <1>2 DEF Next, FifaStep, GrouphStep, Ended, StartChildren, Synchronize, SendTable, Select,
       SelectTimesOut, Skip, ReadFails, Answer, GroupFollows, GroupFails, ReceiveCountry, Reap, Report,
       Load, Ask, NoCandidate, Die, ReadAnswer, Send, Exit, OutOfMemory, Crash, vars, fifaVars
  <2>2. (outcome = "open" <=> fpc # "done") => (outcome' = "open" <=> fpc' # "done")
    BY DEF Next, FifaStep, GrouphStep, Ended, StartChildren, Synchronize, SendTable, Select,
       SelectTimesOut, Skip, ReadFails, Answer, GroupFollows, GroupFails, ReceiveCountry, Reap, Report,
       Load, Ask, NoCandidate, Die, ReadAnswer, Send, Exit, OutOfMemory, Crash, vars, fifaVars, Serving
  <2>3. outcome' = "killed" => outcome = "killed" \/ AllGone
    BY DEF Next, FifaStep, GrouphStep, Ended, StartChildren, Synchronize, SendTable, Select,
       SelectTimesOut, Skip, ReadFails, Answer, GroupFollows, GroupFails, ReceiveCountry, Reap, Report,
       Load, Ask, NoCandidate, Die, ReadAnswer, Send, Exit, OutOfMemory, Crash, vars, fifaVars
  <2>4. AllGone => AllGone'
    BY <1>2, GoneStays
  <2>. QED BY <2>1, <2>2, <2>3, <2>4 DEF Course
<1>. QED BY <1>1, <1>2

LEMMA SpentStep == IInv /\ DrawInv /\ [Next]_vars => Spent'
<1>. SUFFICES ASSUME IInv, Course, Spent, [Next]_vars PROVE Spent'
  BY DEF DrawInv
<1>0. TypeOK
  BY DEF IInv
<1>1. MarkedHeads' = MarkedHeads
  BY TableStays DEF MarkedHeads, IsHead
<1>2. CASE fpc = "start"
  <2>1. CASE StartChildren
    BY <1>1, <2>1 DEF StartChildren, Spent
  <2>2. CASE UNCHANGED vars
    BY <1>0, <1>2, <2>2, NobodyBegins DEF vars, grouphVars, Spent, AllGone, Alive
  <2>. QED BY <1>0, <1>2, <2>1, <2>2, NobodyBegins
<1>3. CASE fpc # "start" /\ AllGone
  BY <1>0, <1>3, GoneStays DEF Spent
<1>4. CASE fpc # "start" /\ ~ AllGone /\ Answer
  <2>1. PICK g : g = j
    OBVIOUS
  <2>2. g \in Groups /\ used' = used \cup {req[g]}
    BY <1>4, <2>1, AnswerGives
  <2>3. CASE req[g] \in used
    <3>1. \A k \in Groups : Given(k)' = Given(k)
      BY <1>4, <2>1, <2>3, AnswerGives
    <3>. QED BY <1>1, <1>4, <2>2, <2>3, <3>1 DEF Spent
  <2>4. CASE req[g] \notin used
    <3>1. req[g] \in Given(g)' /\ \A k \in Groups : Given(k) \subseteq Given(k)'
      BY <1>4, <2>1, <2>4, AnswerGives
    <3>. QED BY <1>1, <1>4, <2>2, <3>1 DEF Spent
  <2>. QED BY <2>3, <2>4
<1>5. CASE fpc # "start" /\ ~ AllGone /\ ~ Answer
  <2>1. \A k \in Groups : Given(k)' = Given(k)
    BY <1>5, GivenStays
  <2>2. used' = used
    BY <1>5 DEF Next, FifaStep, GrouphStep, Ended, StartChildren, Synchronize, SendTable, Select,
       SelectTimesOut, Skip, ReadFails, GroupFollows, GroupFails, ReceiveCountry, Reap, Report,
       Load, Ask, NoCandidate, Die, ReadAnswer, Send, Exit, OutOfMemory, Crash, vars, fifaVars
  <2>. QED BY <1>1, <1>5, <2>1, <2>2 DEF Spent
<1>. QED BY <1>2, <1>3, <1>4, <1>5

LEMMA HeadsAccountStep == IInv /\ DrawInv /\ [Next]_vars => HeadsAccount'
<1>. SUFFICES ASSUME IInv, DrawInv, [Next]_vars PROVE HeadsAccount'
  OBVIOUS
<1>0. TypeOK /\ FifaStages /\ HeadsAccount
  BY DEF IInv, DrawInv
<1>1. IsFiniteSet(Missing)
  <2>1. IsFiniteSet(Groups)
    BY GroupsFacts, FS_Interval DEF Groups
  <2>. QED BY <2>1, FS_Subset DEF Missing
<1>2. ASSUME Missing' = Missing, headsAmm' = headsAmm PROVE HeadsAccount'
  BY <1>0, <1>2 DEF HeadsAccount
<1>3. CASE ReceiveCountry
  <2>1. j \in Groups /\ j \notin finished
    BY <1>0, <1>3, GroupsFacts DEF ReceiveCountry, FifaStages, TypeOK, FifaTypeOK, Groups
  <2>2. PICK g \in Groups : g = j
    BY <2>1
  <2>3. fixture'[g] # <<>> /\ \A k \in Groups \ {g} : fixture'[k] = fixture[k]
    <3>1. fixture'[g] = Append(fixture[g], Head(up[g]))
      BY <1>0, <1>3, <2>2 DEF ReceiveCountry, TypeOK, PipesTypeOK
    <3>2. fixture[g] \in Seq(Word) /\ Head(up[g]) \in Word
      BY <1>0, <1>3, <2>2, HeadTailProperties DEF ReceiveCountry, TypeOK, PipesTypeOK, Word
    <3>3. fixture'[g] # <<>>
      BY <3>1, <3>2, AppendProperties
    <3>4. \A k \in Groups \ {g} : fixture'[k] = fixture[k]
      BY <1>0, <1>3, <2>2 DEF ReceiveCountry, TypeOK, PipesTypeOK
    <3>. QED BY <3>3, <3>4
  <2>4. CASE finished' = finished /\ headsAmm' = headsAmm
    <3>1. Missing' = Missing
      BY <2>1, <2>2, <2>3, <2>4 DEF Missing
    <3>. QED BY <1>2, <2>4, <3>1
  <2>5. CASE finished' = finished \cup {g} /\ headsAmm' = headsAmm - 1
    <3>1. Missing' = Missing \ {g} /\ g \in Missing
      BY <2>1, <2>2, <2>3, <2>5 DEF Missing
    <3>2. Cardinality(Missing \ {g}) = Cardinality(Missing) - 1
      BY <1>1, <3>1, FS_RemoveElement
    <3>. QED BY <1>0, <2>5, <3>1, <3>2 DEF HeadsAccount
  <2>. QED BY <1>3, <2>2, <2>4, <2>5, Zenon DEF ReceiveCountry
<1>4. CASE GroupFails
  <2>1. PICK g \in Groups : g = j
    BY <1>0, <1>4 DEF GroupFails, Serving, Groups, TypeOK, FifaTypeOK
  <2>2. fixture[g] = <<>>
    BY <1>4, <2>1, FirstTells DEF GroupFails, Serving, Receiving, DrawInv, Stories, Announcing, Unheard, IInv, Stages
  <2>3. Missing' = Missing /\ headsAmm' = headsAmm
    BY <1>4, <2>1, <2>2 DEF GroupFails, Missing
  <2>. QED BY <1>2, <2>3
<1>5. CASE ~ ReceiveCountry /\ ~ GroupFails
  <2>1. UNCHANGED <<finished, fixture, headsAmm>>
    BY <1>5 DEF Next, FifaStep, GrouphStep, Ended, StartChildren, Synchronize, SendTable, Select,
       SelectTimesOut, Skip, ReadFails, Answer, GroupFollows, Reap, Report,
       Load, Ask, NoCandidate, Die, ReadAnswer, Send, Exit, OutOfMemory, Crash, vars, fifaVars
  <2>. QED BY <1>2, <2>1 DEF Missing
<1>. QED BY <1>3, <1>4, <1>5

LEMMA InitDraw == Init => DrawInv
<1>. SUFFICES ASSUME Init PROVE DrawInv
  OBVIOUS
<1>1. Stories
  <2>. SUFFICES ASSUME NEW i \in Groups PROVE Asking(i)
    BY DEF Stories, StoryOf
  <2>1. Len(drawn[i]) = 0 /\ 0 < Places
    BY SizeAssumption DEF Init, Places
  <2>. QED BY <2>1 DEF Init, Asking, Unheard
<1>2. HeadsAccount
  <2>1. Missing = 0 .. GroupsAmm - 1
    BY DEF Init, Missing, Groups
  <2>2. Cardinality(0 .. GroupsAmm - 1) = GroupsAmm
    BY GroupsFacts, FS_Interval
  <2>. QED BY <2>1, <2>2 DEF Init, HeadsAccount
<1>3. Course /\ Spent
  BY DEF Init, Course, Spent, AllGone, Alive
<1>. QED BY <1>1, <1>2, <1>3 DEF DrawInv

LEMMA DrawInductive == Spec => [](IInv /\ DrawInv)
<1>1. IInv /\ DrawInv /\ [Next]_vars => DrawInv'
  BY StoriesStep, HeadsAccountStep, CourseStep, SpentStep DEF DrawInv
<1>. QED BY Inductive, InitDraw, <1>1, PTL DEF Spec
-----------------------------------------------------------------------------
(* What fifa has received of a group is at any moment the beginning of what
   that grouph has built, and a group that came, came whole: a request, an
   answer or a code is never taken for a country, whatever fails. *)
THEOREM FixtureIsReceived == Spec => []FixtureIsTheGroup
<1>1. IInv /\ DrawInv => FixtureIsTheGroup
  <2>. SUFFICES ASSUME IInv, DrawInv, NEW i \in Groups
                PROVE  /\ Len(fixture[i]) <= Len(Group(i))
                       /\ \A p \in DOMAIN fixture[i] : fixture[i][p] = Group(i)[p]
                       /\ i \in finished /\ fixture[i] # <<>> => Len(fixture[i]) = Places + 1
    BY DEF FixtureIsTheGroup
  <2>1. StoryOf(i) /\ TypeOK /\ Places \in Nat
    BY SizeAssumption DEF IInv, DrawInv, Stories, Places
  <2>2. /\ fixture[i] \in Seq(Word) /\ Rest(i) \in Seq(Word) /\ Len(Group(i)) = 1 + Len(drawn[i])
        /\ Len(drawn[i]) \in Nat /\ Len(Group(i)) \in Nat
    BY <2>1, WordTypes, LenProperties
  <2>3. CASE fixture[i] = <<>>
    <3>1. Len(<<>>) = 0 /\ DOMAIN <<>> = {}
      OBVIOUS
    <3>. QED BY <2>2, <2>3, <3>1
  <2>4. CASE Delivering(i)
    <3>1. fixture[i] \o Rest(i) = Group(i) /\ i \notin finished
      BY <2>4 DEF Delivering
    <3>2. /\ Len(fixture[i] \o Rest(i)) = Len(fixture[i]) + Len(Rest(i))
          /\ \A p \in 1 .. Len(fixture[i]) + Len(Rest(i)) :
                (fixture[i] \o Rest(i))[p] = IF p <= Len(fixture[i]) THEN fixture[i][p]
                                             ELSE Rest(i)[p - Len(fixture[i])]
      BY <2>2, ConcatProperties
    <3>3. Len(fixture[i]) \in Nat /\ Len(Rest(i)) \in Nat /\ DOMAIN fixture[i] = 1 .. Len(fixture[i])
      BY <2>2, LenProperties
    <3>4. \A p \in 1 .. Len(fixture[i]) : Group(i)[p] = fixture[i][p]
      BY <3>1, <3>2, <3>3
    <3>5. Len(fixture[i]) <= Len(Group(i))
      BY <3>1, <3>2, <3>3
    <3>. QED BY <3>1, <3>3, <3>4, <3>5
  <2>5. CASE Came(i)
    BY <2>1, <2>2, <2>5 DEF Came
  <2>. QED BY <2>1, <2>3, <2>4, <2>5 DEF StoryOf, Asking, Announcing, Delivered, Unheard
<1>. QED BY DrawInductive, <1>1, PTL
-----------------------------------------------------------------------------
(* A group has as many countries as it drew. *)
LEMMA DrawnCount ==
  ASSUME IInv, NEW i \in Groups
  PROVE  /\ IsFiniteSet(DrawnSet(i)) /\ Cardinality(DrawnSet(i)) = Len(drawn[i])
         /\ Len(drawn[i]) \in Nat
<1>. DEFINE n == Len(drawn[i])
            f == drawn[i]
<1>1. f \in Seq(Countries) /\ n \in Nat /\ DOMAIN f = 1 .. n
  BY LenProperties DEF IInv, TypeOK, GrouphTypeOK
<1>2. IsFiniteSet(1 .. n) /\ Cardinality(1 .. n) = n
  <2>1. IsFiniteSet(1 .. n) /\ Cardinality(1 .. n) = IF 1 > n THEN 0 ELSE n - 1 + 1
    BY <1>1, FS_Interval
  <2>. HIDE DEF n
  <2>. QED BY <1>1, <2>1
<1>3. f = [p \in 1 .. n |-> f[p]]
  BY <1>1
<1>4. f \in [1 .. n -> DrawnSet(i)]
  BY <1>1, <1>3 DEF DrawnSet
<1>5. f \in Surjection(1 .. n, DrawnSet(i))
  <2>1. \A c \in DrawnSet(i) : \E p \in 1 .. n : f[p] = c
    BY <1>1 DEF DrawnSet
  <2>. HIDE DEF f, n
  <2>. QED BY <1>4, <2>1 DEF Surjection
<1>6. f \in Injection(1 .. n, DrawnSet(i))
  <2>1. \A p, q \in 1 .. n : f[p] = f[q] => p = q
    BY <1>1 DEF IInv, Ledger, Account
  <2>. HIDE DEF f, n
  <2>. QED BY <1>4, <2>1 DEF Injection, IsInjective
<1>. HIDE DEF f, n
<1>7. IsFiniteSet(DrawnSet(i)) /\ Cardinality(DrawnSet(i)) = Cardinality(1 .. n)
  BY <1>2, <1>5, <1>6, FS_Surjection
<1>. QED BY <1>1, <1>2, <1>7 DEF n

\* A country that is owed still has its place.
LEMMA RoomForOwed ==
  ASSUME IInv, DrawInv, NEW i \in Groups
  PROVE  /\ Len(drawn[i]) <= Places /\ Owed(i) \subseteq {req[i]}
         /\ Owed(i) # {} => Len(drawn[i]) < Places
<1>1. StoryOf(i) /\ Len(drawn[i]) \in Nat /\ Places \in Nat
  BY SizeAssumption, DrawnCount DEF DrawInv, Stories, Places
<1>2. Owed(i) \subseteq {req[i]} /\ (Owed(i) # {} => down[i] # <<>>)
  BY DEF Owed
<1>3. down[i] # <<>> => Len(drawn[i]) < Places
  BY <1>1 DEF StoryOf, Asking, Closed
<1>4. Len(drawn[i]) <= Places
  BY <1>1 DEF StoryOf, Asking, Closed
<1>. QED BY <1>2, <1>3, <1>4

\* The groups are not more than the table has room for.
LEMMA TheTableSuffices == GroupsAmm * GroupSize <= N
BY SizeAssumption DEF GroupsAmm

(* While a grouph draws without restrictions some country is free in its copy
   of the table, so noCondition always has one to choose: the heads and all
   that every group can hold are less than the table. *)
THEOREM NoConditionHasAChoice == Spec => []FreeCountryRemains
<1>1. IInv /\ DrawInv => FreeCountryRemains
  <2>. SUFFICES ASSUME IInv, DrawInv, NEW i \in Groups, cpc[i] = "draw", Free(table, cused[i]) = {}
                PROVE  FALSE
    BY DEF FreeCountryRemains
  <2>. DEFINE place(k, p) == IF p = 0 THEN k
                             ELSE IF p <= Len(drawn[k]) THEN drawn[k][p] ELSE req[k]
              D == (Groups \X (0 .. Places)) \ {<<i, Places>>}
              f == [d \in D |-> place(d[1], d[2])]
              R == {f[d] : d \in D}
  <2>0. TypeOK /\ StageOf(i) /\ StoryOf(i) /\ Places \in Nat \ {0} /\ GroupSize = Places + 1
    BY SizeAssumption DEF IInv, DrawInv, Stages, Stories, Places
  <2>1. Countries \subseteq used
    <3>1. DOMAIN table = Countries
      BY <2>0, TablesAssumption DEF TypeOK, FifaTypeOK, Countries
    <3>. QED BY <3>1 DEF Free, IInv, Ledger, Account
  <2>2. used \subseteq MarkedHeads \cup UNION {Given(k) : k \in Groups}
    BY DEF DrawInv, Spent, AllGone, Alive
  <2>3. Given(i) = DrawnSet(i) /\ Len(drawn[i]) < Places
    BY <2>0 DEF StageOf, Idle, Given, Owed, StoryOf, Asking, Closed
  <2>4. ASSUME NEW c \in MarkedHeads PROVE c \in R
    <3>1. c \in Groups /\ <<c, 0>> \in D /\ f[<<c, 0>>] = c
      BY <2>0, <2>4 DEF MarkedHeads
    <3>. QED BY <3>1
  <2>5. ASSUME NEW k \in Groups, NEW c \in Given(k) PROVE c \in R
    <3>1. Len(drawn[k]) \in Nat /\ DOMAIN drawn[k] = 1 .. Len(drawn[k]) /\ Len(drawn[k]) <= Places
      BY <2>0, RoomForOwed, LenProperties DEF TypeOK, GrouphTypeOK
    <3>2. CASE c \in DrawnSet(k)
      <4>1. PICK p \in 1 .. Len(drawn[k]) : c = drawn[k][p]
        BY <3>1, <3>2 DEF DrawnSet
      <4>2. <<k, p>> \in D
        BY <2>0, <2>3, <3>1
      <4>3. f[<<k, p>>] = c
        BY <3>1, <4>1, <4>2
      <4>. QED BY <4>2, <4>3
    <3>3. CASE c \notin DrawnSet(k)
      <4>1. c \in Owed(k) /\ k # i
        BY <2>3, <2>5, <3>3 DEF Given
      <4>2. c = req[k] /\ Len(drawn[k]) < Places
        BY <4>1, RoomForOwed
      <4>3. <<k, Places>> \in D
        BY <2>0, <4>1
      <4>4. f[<<k, Places>>] = c
        BY <2>0, <3>1, <4>2, <4>3
      <4>. QED BY <4>3, <4>4
    <3>. QED BY <3>2, <3>3
  <2>6. Countries \subseteq R
    <3>. HIDE DEF R
    <3>. QED BY <2>1, <2>2, <2>4, <2>5
  <2>7. IsFiniteSet(D) /\ Cardinality(D) = GroupsAmm * GroupSize - 1
    <3>1. IsFiniteSet(Groups) /\ Cardinality(Groups) = GroupsAmm
      <4>1. /\ IsFiniteSet(0 .. GroupsAmm - 1)
            /\ Cardinality(0 .. GroupsAmm - 1) = IF 0 > GroupsAmm - 1 THEN 0 ELSE GroupsAmm - 1 - 0 + 1
        BY GroupsFacts, FS_Interval
      <4>. QED BY <4>1, GroupsFacts DEF Groups
    <3>2. IsFiniteSet(0 .. Places) /\ Cardinality(0 .. Places) = GroupSize
      <4>1. /\ IsFiniteSet(0 .. Places)
            /\ Cardinality(0 .. Places) = IF 0 > Places THEN 0 ELSE Places - 0 + 1
        BY <2>0, FS_Interval
      <4>. QED BY <2>0, <4>1
    <3>3. /\ IsFiniteSet(Groups \X (0 .. Places))
          /\ Cardinality(Groups \X (0 .. Places)) = GroupsAmm * GroupSize
      BY <3>1, <3>2, FS_Product
    <3>4. <<i, Places>> \in Groups \X (0 .. Places)
      BY <2>0
    <3>. QED BY <3>3, <3>4, FS_RemoveElement
  <2>8. IsFiniteSet(R) /\ Cardinality(R) <= Cardinality(D)
    <3>1. f \in Surjection(D, R)
      BY DEF Surjection
    <3>. HIDE DEF D, R, f
    <3>. QED BY <2>7, <3>1, FS_Surjection
  <2>9. Cardinality(Countries) = N
    <3>1. Cardinality(0 .. N - 1) = IF 0 > N - 1 THEN 0 ELSE N - 1 - 0 + 1
      BY SizeAssumption, FS_Interval
    <3>. QED BY <3>1, SizeAssumption DEF Countries
  <2>10. N <= Cardinality(R) /\ Cardinality(R) \in Nat
    <3>. HIDE DEF R
    <3>. QED BY <2>6, <2>8, <2>9, FS_Subset, FS_CardinalityType
  <2>11. GroupsAmm * GroupSize \in Int
    BY GroupsFacts, SizeAssumption
  <2>. HIDE DEF D, R, f
  <2>. QED BY <2>7, <2>8, <2>10, <2>11, TheTableSuffices, SizeAssumption
<1>. QED BY DrawInductive, <1>1, PTL
-----------------------------------------------------------------------------
(***************************************************************************)
(* The draw of the processes is a Draw.                                    *)
(***************************************************************************)

\* Draw counts as this module does.
LEMMA SameCount == \A S : TheDraw!Cardinality(S) = Cardinality(S)
BY DEF TheDraw!Cardinality, Cardinality

\* Steps of the draw that nobody sees.
LEMMA QuietStep ==
  ASSUME IInv, DrawInv, [Next]_vars, fpc # "start", used' = used, outcome' = outcome, ~ Answer
  PROVE  UNCHANGED TheDraw!dvars
<1>1. MarkedHeads' = MarkedHeads /\ \A k \in Groups : Eligible(k)' = Eligible(k)
  BY TableStays DEF MarkedHeads, IsHead, Eligible
<1>2. PotNow' = PotNow /\ AllowedNow' = AllowedNow
  BY <1>1 DEF PotNow, AllowedNow
<1>3. GivenNow' = GivenNow
  BY GivenStays DEF GivenNow
<1>4. AnnouncedNow' = AnnouncedNow
  <2>1. CASE outcome # "solution"
    BY <2>1 DEF AnnouncedNow
  <2>2. CASE outcome = "solution"
    <3>1. fpc = "done"
      BY <2>2 DEF DrawInv, Course
    <3>2. fixture' = fixture
      BY <3>1 DEF Next, FifaStep, GrouphStep, Ended, StartChildren, Synchronize, SendTable, Select,
         SelectTimesOut, Skip, ReadFails, GroupFollows, GroupFails, ReceiveCountry, Reap, Report,
         Answer, Load, Ask, NoCandidate, Die, ReadAnswer, Send, Exit, OutOfMemory, Crash, vars, fifaVars
    <3>. QED BY <2>2, <3>2 DEF AnnouncedNow
  <2>. QED BY <2>1, <2>2
<1>. QED BY <1>2, <1>3, <1>4 DEF TheDraw!dvars

\* Steps that end the draw without a fixture.
LEMMA EndingStep ==
  ASSUME IInv, DrawInv, [Next]_vars, fpc # "start", used \subseteq used', outcome = "open",
         outcome' \in {"no solution", "error", "killed"}, \A k \in Groups : Given(k)' = Given(k)
  PROVE  TheDraw!GiveUp
<1>1. MarkedHeads' = MarkedHeads /\ \A k \in Groups : Eligible(k)' = Eligible(k)
  BY TableStays DEF MarkedHeads, IsHead, Eligible
<1>2. PotNow' \in SUBSET PotNow /\ AllowedNow' = AllowedNow
  BY <1>1 DEF PotNow, AllowedNow
<1>3. GivenNow' = GivenNow /\ AnnouncedNow' = AnnouncedNow
  BY DEF GivenNow, AnnouncedNow
<1>. QED BY <1>2, <1>3 DEF TheDraw!GiveUp

\* A country that is answered for is given.
LEMMA AnswerIsGive ==
  ASSUME IInv, DrawInv, [Next]_vars, Answer
  PROVE  [TheDraw!Next]_TheDraw!dvars
<1>1. PICK g : g = j
  OBVIOUS
<1>2. g \in Groups /\ used' = used \cup {req[g]} /\ fpc = "scan" /\ g \notin finished
      /\ up[g] # <<>> /\ Head(up[g]) >= 0 /\ Head(up[g]) = req[g]
  BY <1>1, AnswerGives DEF Answer
<1>3. outcome = "open" /\ fpc # "start"
  BY <1>2 DEF DrawInv, Course
<1>4. Asking(g) /\ req[g] \in Eligible(g)
  BY <1>1, <1>2, FirstTells DEF IInv, DrawInv, Stories, Receiving
<1>5. CASE AllGone
  <2>1. outcome' = "killed" /\ used \subseteq used'
    BY <1>2, <1>5 DEF Answer
  <2>2. \A k \in Groups : Given(k)' = Given(k)
    BY <1>1, <1>5, AnswerGives
  <2>. QED BY <1>3, <2>1, <2>2, EndingStep DEF TheDraw!Next
<1>6. CASE ~ AllGone
  <2>1. outcome' = outcome
    BY <1>6 DEF Answer
  <2>2. MarkedHeads' = MarkedHeads /\ \A k \in Groups : Eligible(k)' = Eligible(k)
    BY TableStays DEF MarkedHeads, IsHead, Eligible
  <2>3. AllowedNow' = AllowedNow /\ AnnouncedNow' = AnnouncedNow
    BY <1>3, <2>1, <2>2 DEF AllowedNow, AnnouncedNow
  <2>4. CASE req[g] \in used
    <3>1. \A k \in Groups : Given(k)' = Given(k)
      BY <1>1, <2>4, AnswerGives
    <3>2. PotNow' = PotNow /\ GivenNow' = GivenNow
      BY <1>2, <2>2, <2>4, <3>1 DEF PotNow, GivenNow
    <3>. QED BY <2>1, <2>3, <3>2 DEF TheDraw!dvars
  <2>5. CASE req[g] \notin used
    <3>1. /\ Given(g) = DrawnSet(g) /\ Given(g)' = Given(g) \cup {req[g]}
          /\ \A k \in Groups \ {g} : Given(k)' = Given(k)
      BY <1>1, <1>6, <2>5, AnswerGives
    <3>2. req[g] \in Countries /\ req[g] \in PotNow \cap AllowedNow[g]
      <4>1. MarkedHeads \subseteq used
        BY <1>3 DEF IInv, Ledger
      <4>. QED BY <1>2, <1>4, <2>5, <4>1 DEF Eligible, PotNow, AllowedNow
    <3>3. PotNow' = PotNow \ {req[g]}
      BY <1>2, <2>2 DEF PotNow
    <3>4. GivenNow' = [GivenNow EXCEPT ![g] = GivenNow[g] \cup {req[g]}]
      BY <1>2, <3>1 DEF GivenNow
    <3>5. Cardinality(GivenNow[g]) < Places
      BY <1>2, <1>4, <3>1, DrawnCount DEF GivenNow, Asking
    <3>6. TheDraw!Give(g, req[g])
      BY <1>3, <2>1, <2>3, <3>2, <3>3, <3>4, <3>5, SameCount DEF TheDraw!Give
    <3>. QED BY <1>2, <3>2, <3>6 DEF TheDraw!Next
  <2>. QED BY <2>4, <2>5
<1>. QED BY <1>5, <1>6

\* A solution is announced when every group is complete, and is what was given.
LEMMA SolutionIsAnnounced ==
  ASSUME IInv, DrawInv, [Next]_vars, Report, outcome' = "solution"
  PROVE  TheDraw!Announce
<1>1. finished = Groups /\ headsAmm = 0 /\ outcome = "open" /\ UNCHANGED <<used, fixture, grouphVars, down>>
  BY DEF Report, DrawInv, Course
<1>2. Missing = {}
  <2>1. IsFiniteSet(Groups)
    BY GroupsFacts, FS_Interval DEF Groups
  <2>2. IsFiniteSet(Missing)
    BY <2>1, FS_Subset DEF Missing
  <2>. QED BY <1>1, <2>2, FS_EmptySet DEF DrawInv, HeadsAccount
<1>3. ASSUME NEW k \in Groups
      PROVE  Given(k)' = Given(k) /\ Cardinality(Given(k)) = Places
             /\ {fixture[k][p] : p \in DOMAIN fixture[k] \ {1}} = Given(k)
  <2>1. k \in finished /\ fixture[k] # <<>>
    BY <1>2 DEF Missing
  <2>2. Closed(k) /\ fixture[k] = Group(k) /\ Len(drawn[k]) = Places
    BY <2>1 DEF DrawInv, Stories, StoryOf, Asking, Announcing, Delivering, Unheard, Delivered, Came
  <2>3. Given(k) = DrawnSet(k)
    BY <2>2 DEF Closed, Given, Owed
  <2>4. Given(k)' = Given(k)
    BY <1>1 DEF grouphVars, Given, Owed, DrawnSet
  <2>5. /\ Len(drawn[k]) \in Nat /\ DOMAIN drawn[k] = 1 .. Len(drawn[k])
        /\ DOMAIN Group(k) = 1 .. Len(drawn[k]) + 1
        /\ \A p \in 1 .. Len(drawn[k]) : Group(k)[p + 1] = drawn[k][p]
    <3>1. k \in Word /\ drawn[k] \in Seq(Word) /\ <<k>> \in Seq(Word) /\ Len(<<k>>) = 1
      BY GroupsFacts DEF IInv, TypeOK, GrouphTypeOK, Word
    <3>2. /\ Len(Group(k)) = 1 + Len(drawn[k]) /\ Group(k) \in Seq(Word)
          /\ \A p \in 1 .. 1 + Len(drawn[k]) :
                Group(k)[p] = IF p <= 1 THEN <<k>>[p] ELSE drawn[k][p - 1]
      BY <3>1, ConcatProperties DEF Group
    <3>3. Len(drawn[k]) \in Nat
      BY <3>1
    <3>4. ASSUME NEW p \in 1 .. Len(drawn[k]) PROVE Group(k)[p + 1] = drawn[k][p]
      <4>1. p + 1 \in 1 .. 1 + Len(drawn[k]) /\ ~ (p + 1 <= 1) /\ (p + 1) - 1 = p
        BY <3>3
      <4>. QED BY <3>2, <4>1
    <3>. QED BY <3>1, <3>2, <3>3, <3>4
  <2>6. {Group(k)[p] : p \in DOMAIN Group(k) \ {1}} = DrawnSet(k)
    <3>1. ASSUME NEW p \in DOMAIN Group(k) \ {1} PROVE Group(k)[p] \in DrawnSet(k)
      <4>1. p - 1 \in 1 .. Len(drawn[k]) /\ (p - 1) + 1 = p
        BY <2>5
      <4>2. Group(k)[p] = drawn[k][p - 1]
        BY <2>5, <4>1
      <4>. QED BY <2>5, <4>1, <4>2 DEF DrawnSet
    <3>2. ASSUME NEW p \in 1 .. Len(drawn[k])
          PROVE  p + 1 \in DOMAIN Group(k) \ {1} /\ Group(k)[p + 1] = drawn[k][p]
      BY <2>5
    <3>. QED BY <2>5, <3>1, <3>2 DEF DrawnSet
  <2>. QED BY <2>2, <2>3, <2>4, <2>6, DrawnCount
<1>4. GivenNow' = GivenNow /\ \A g \in Groups : Cardinality(GivenNow[g]) = Places
  BY <1>3 DEF GivenNow
<1>5. AnnouncedNow' = GivenNow
  BY <1>1, <1>3 DEF AnnouncedNow, GivenNow
<1>6. PotNow' = PotNow /\ AllowedNow' = AllowedNow
  BY <1>1, TableStays DEF PotNow, AllowedNow, MarkedHeads, IsHead, Eligible
<1>. QED BY <1>1, <1>4, <1>5, <1>6, SameCount DEF TheDraw!Announce

(* The processes carry out the draw that Draw describes: each country leaves
   the pot once, for a group that accepts it and has room, and the fixture
   announced, if one is, is complete and is what was given out. *)
THEOREM TheDrawIsADraw == Spec => DrawSpec
<1>1. Init => TheDraw!Init
  <2>. SUFFICES ASSUME Init PROVE TheDraw!Init
    OBVIOUS
  <2>1. \A k \in Groups : Given(k) = {}
    <3>. SUFFICES ASSUME NEW k \in Groups PROVE Given(k) = {}
      OBVIOUS
    <3>1. drawn[k] = <<>> /\ down[k] = <<>>
      BY DEF Init
    <3>2. DOMAIN drawn[k] = {}
      BY <3>1
    <3>. QED BY <3>1, <3>2 DEF Given, DrawnSet, Owed
  <2>2. GivenNow = TheDraw!Nobody /\ AnnouncedNow = TheDraw!Nobody
    BY <2>1 DEF Init, GivenNow, AnnouncedNow, TheDraw!Nobody
  <2>3. PotNow \in SUBSET Countries /\ AllowedNow \in [Groups -> SUBSET Countries]
    BY DEF PotNow, AllowedNow, Eligible
  <2>. QED BY <2>2, <2>3 DEF Init, TheDraw!Init
<1>2. IInv /\ DrawInv /\ [Next]_vars => [TheDraw!Next]_TheDraw!dvars
  <2>. SUFFICES ASSUME IInv, DrawInv, [Next]_vars PROVE [TheDraw!Next]_TheDraw!dvars
    OBVIOUS
  <2>1. CASE fpc = "start"
    <3>1. StartChildren \/ UNCHANGED vars
      BY <2>1, NobodyBegins DEF IInv, DrawInv
    <3>2. PotNow' = PotNow
      BY <2>1, <3>1, TableStays DEF StartChildren, IInv, FifaStages, vars, fifaVars, PotNow, MarkedHeads,
         IsHead
    <3>3. AllowedNow' = AllowedNow
      BY TableStays DEF AllowedNow, Eligible
    <3>4. UNCHANGED <<fixture, outcome>> /\ ~ Answer
      BY <2>1, <3>1 DEF StartChildren, vars, fifaVars, Answer, Serving
    <3>5. GivenNow' = GivenNow
      BY <3>4, GivenStays DEF GivenNow
    <3>. QED BY <3>2, <3>3, <3>4, <3>5 DEF AnnouncedNow, TheDraw!dvars
  <2>2. CASE Answer
    BY <2>2, AnswerIsGive
  <2>3. CASE fpc # "start" /\ ~ Answer
    <3>1. used' = used
      BY <2>3 DEF Next, FifaStep, GrouphStep, Ended, StartChildren, Synchronize, SendTable, Select,
         SelectTimesOut, Skip, ReadFails, GroupFollows, GroupFails, ReceiveCountry, Reap, Report,
         Load, Ask, NoCandidate, Die, ReadAnswer, Send, Exit, OutOfMemory, Crash, vars, fifaVars
    <3>2. \/ outcome' = outcome
          \/ fpc # "done" /\ outcome' \in {"no solution", "error", "killed"}
          \/ Report /\ outcome' = "solution"
      BY <2>3 DEF Next, FifaStep, GrouphStep, Ended, StartChildren, Synchronize, SendTable, Select,
         SelectTimesOut, Skip, ReadFails, GroupFollows, GroupFails, ReceiveCountry, Reap, Report,
         Load, Ask, NoCandidate, Die, ReadAnswer, Send, Exit, OutOfMemory, Crash, vars, fifaVars,
         Serving
    <3>3. \A k \in Groups : Given(k)' = Given(k)
      BY <2>3, GivenStays
    <3>4. fpc # "done" => outcome = "open"
      BY DEF DrawInv, Course
    <3>. QED BY <2>3, <3>1, <3>2, <3>3, <3>4, QuietStep, EndingStep, SolutionIsAnnounced
             DEF TheDraw!Next
  <2>. QED BY <2>1, <2>2, <2>3
<1>. QED BY <1>1, <1>2, DrawInductive, PTL DEF Spec, DrawSpec, TheDraw!Spec
-----------------------------------------------------------------------------
(***************************************************************************)
(* Who waits for whom.                                                     *)
(***************************************************************************)
\* What the scan is still to read stays readable.
StillReadable ==
  /\ fpc = "scan" => \A i \in ready \ finished : i >= j => Readable(i)
  /\ fpc = "receive" => \A i \in ready \ finished : i > j => Readable(i)

\* A grouph that has not been made is one whose head was not found.
Made == fpc # "start" => \A i \in Groups : cpc[i] = "none" => HeadsFound <= i

(* While nothing fails a grouph dies only in a draw, with nothing on its way, and
   fifa waits for its children to end only when all have said what they had. *)
Quietly ==
  faults = 0 => /\ \A i \in Groups : cpc[i] = "crash" => Idle(i)
                /\ fpc = "wait" => finished = Groups

\* Who has ended has sent all it had, and fifa ends last.
Endings ==
  /\ \A i \in Groups : cpc[i] = "exit" => out[i] = <<>>
  /\ \A i \in reaped : ~ Alive(i)
  /\ fpc \notin {"wait", "done"} => reaped = {}
  /\ fpc = "done" => AllGone

AllSent == fpc \in {"listen", "scan", "receive", "wait"} => sent = GroupsAmm

Waits == AllSent /\ StillReadable /\ Made /\ Quietly /\ Endings

LEMMA InitWaits == Init => Waits
BY DEF Init, Waits, AllSent, StillReadable, Made, Quietly, Endings

LEMMA AllSentStep == IInv /\ Waits /\ [Next]_vars => AllSent'
<1>. SUFFICES ASSUME TypeOK, AllSent, [Next]_vars PROVE AllSent'
  BY DEF IInv, Waits
<1>1. CASE SendTable
  BY <1>1 DEF SendTable, AllSent
<1>2. CASE ~ SendTable
  BY <1>2 DEF AllSent, Next, FifaStep, GrouphStep, Ended, StartChildren, Synchronize, Select,
     SelectTimesOut, Skip, ReadFails, Answer, GroupFollows, GroupFails, ReceiveCountry, Reap, Report,
     Load, Ask, NoCandidate, Die, ReadAnswer, Send, Exit, OutOfMemory, Crash, vars, fifaVars, Serving
<1>. QED BY <1>1, <1>2

LEMMA MadeStep == IInv /\ Waits /\ [Next]_vars => Made'
<1>. SUFFICES ASSUME TypeOK, Made, [Next]_vars PROVE Made'
  BY DEF IInv, Waits
<1>0. HeadsFound' = HeadsFound /\ HeadsFound \in Nat
  <2>1. IsFiniteSet(Countries)
    BY SizeAssumption, FS_Interval DEF Countries
  <2>2. IsFiniteSet({c \in Countries : IsHead(c)})
    BY <2>1, FS_Subset
  <2>. QED BY <2>2, TableStays, FS_CardinalityType DEF HeadsFound, IsHead
<1>1. CASE StartChildren
  BY <1>0, <1>1, GroupsFacts DEF StartChildren, Made, HeadsFound
<1>2. CASE ~ StartChildren
  <2>1. \A i \in Groups : cpc'[i] = "none" => cpc[i] = "none"
    BY <1>2 DEF TypeOK, GrouphTypeOK, Next, FifaStep, GrouphStep, Ended, Synchronize, SendTable, Select,
       SelectTimesOut, Skip, ReadFails, Answer, GroupFollows, GroupFails, ReceiveCountry, Reap, Report,
       Load, Ask, NoCandidate, Die, ReadAnswer, Send, Exit, OutOfMemory, Crash, vars, grouphVars
  <2>2. fpc = "start" => fpc' = "start"
    BY <1>2 DEF Next, FifaStep, GrouphStep, Ended, Synchronize, SendTable, Select,
       SelectTimesOut, Skip, ReadFails, Answer, GroupFollows, GroupFails, ReceiveCountry, Reap, Report,
       Load, Ask, NoCandidate, Die, ReadAnswer, Send, Exit, OutOfMemory, Crash, vars, fifaVars, Serving
  <2>. QED BY <1>0, <2>1, <2>2 DEF Made
<1>. QED BY <1>1, <1>2

LEMMA EndingsStep == IInv /\ DrawInv /\ Waits /\ [Next]_vars => Endings'
<1>. SUFFICES ASSUME TypeOK, Course, Endings, [Next]_vars PROVE Endings'
  BY DEF IInv, DrawInv, Waits
<1>1. CASE fpc = "start"
  BY <1>1, NobodyBegins DEF StartChildren, Endings, Course, vars, fifaVars, grouphVars
<1>2. CASE fpc # "start"
  <2>1. \A i \in Groups : cpc'[i] = "exit" => out'[i] = <<>>
    BY <1>2 DEF Endings, TypeOK, GrouphTypeOK, Next, FifaStep, GrouphStep, Ended, StartChildren, Synchronize,
       SendTable, Select, SelectTimesOut, Skip, ReadFails, Answer, GroupFollows, GroupFails,
       ReceiveCountry, Reap, Report, Load, Ask, NoCandidate, Die, ReadAnswer, Send, Exit, OutOfMemory, Crash,
       vars, grouphVars
  <2>2. \A i \in Groups : ~ Alive(i) => ~ Alive(i)'
    BY <1>2 DEF Alive, Drawing, TypeOK, GrouphTypeOK, Next, FifaStep, GrouphStep, Ended, StartChildren,
       Synchronize, SendTable, Select, SelectTimesOut, Skip, ReadFails, Answer, GroupFollows, GroupFails,
       ReceiveCountry, Reap, Report, Load, Ask, NoCandidate, Die, ReadAnswer, Send, Exit, OutOfMemory, Crash,
       vars, grouphVars
  <2>3. /\ reaped' = reaped \/ Reap
        /\ fpc' \in {"wait", "done"} \/ fpc \notin {"wait", "done"}
    BY <1>2 DEF Next, FifaStep, GrouphStep, Ended, StartChildren,
       Synchronize, SendTable, Select, SelectTimesOut, Skip, ReadFails, Answer, GroupFollows, GroupFails,
       ReceiveCountry, Report, Reap, Load, Ask, NoCandidate, Die, ReadAnswer, Send, Exit, OutOfMemory, Crash,
       vars, fifaVars, Serving
  <2>4. \A i \in reaped' : ~ Alive(i)'
    BY <2>2, <2>3 DEF Endings, Reap, TypeOK, FifaTypeOK
  <2>5. fpc' \notin {"wait", "done"} => reaped' = {}
    BY <2>3 DEF Endings, Reap
  <2>6. fpc' = "done" => AllGone
    BY <1>2 DEF Endings, AllGone, Next, FifaStep, GrouphStep, Ended, StartChildren,
       Synchronize, SendTable, Select, SelectTimesOut, Skip, ReadFails, Answer, GroupFollows, GroupFails,
       ReceiveCountry, Report, Reap, Load, Ask, NoCandidate, Die, ReadAnswer, Send, Exit, OutOfMemory, Crash,
       vars, fifaVars, Serving
  <2>7. AllGone => AllGone'
    BY <2>2 DEF AllGone
  <2>. QED BY <2>1, <2>4, <2>5, <2>6, <2>7 DEF Endings
<1>. QED BY <1>1, <1>2

\* What can be read stays so until fifa reads it.
LEMMA ReadableStays ==
  ASSUME TypeOK, Course, [Next]_vars, fpc # "start", NEW i \in Groups, Readable(i), up'[i] = up[i] \/ up'[i] # <<>>
  PROVE  Readable(i)'
<1>1. AllGone => AllGone'
  BY GoneStays
<1>. QED BY <1>1 DEF Readable

LEMMA OthersUnread ==
  ASSUME TypeOK, [Next]_vars, NEW i \in Groups, up[i] # <<>>,
         ~ (i = j /\ (Answer \/ GroupFollows \/ ReceiveCountry \/ GroupFails))
  PROVE  up'[i] # <<>>
<1>1. up \in [Groups -> Seq(Word)] /\ up[i] \in Seq(Word)
  BY DEF TypeOK, PipesTypeOK, Word
<1>2. CASE Answer \/ GroupFollows \/ ReceiveCountry \/ GroupFails
  BY <1>1, <1>2 DEF Answer, GroupFollows, ReceiveCountry, GroupFails
<1>3. ASSUME NEW g \in Groups, NEW w \in Word, up' = [up EXCEPT ![g] = Append(@, w)] PROVE up'[i] # <<>>
  <2>1. CASE g = i
    BY <1>1, <1>3, <2>1, AppendProperties
  <2>. QED BY <1>1, <1>3, <2>1
<1>4. CASE \E g \in Groups : Ask(g) \/ Send(g)
  <2>1. PICK g \in Groups : Ask(g) \/ Send(g)
    BY <1>4
  <2>2. CASE Ask(g)
    BY <1>3, <2>1, <2>2, CandidatesAreFree DEF Ask, Word
  <2>3. CASE Send(g)
    <3>1. out[g] \in Seq(Word) /\ out[g] # <<>>
      BY <2>3 DEF Send, TypeOK, GrouphTypeOK, Word
    <3>2. Head(out[g]) \in Word
      BY <3>1, HeadTailProperties
    <3>. QED BY <1>3, <2>3, <3>2 DEF Send
  <2>. QED BY <2>1, <2>2, <2>3
<1>5. CASE up' = up
  BY <1>5
<1>. QED
  BY <1>2, <1>4, <1>5 DEF Next, FifaStep, GrouphStep, Ended, StartChildren, Synchronize, SendTable, Select,
     SelectTimesOut, Skip, ReadFails, Reap, Report, Load, NoCandidate, Die, ReadAnswer, Exit,
     OutOfMemory, Crash, vars, fifaVars

LEMMA StillReadableStep == IInv /\ DrawInv /\ Waits /\ [Next]_vars => StillReadable'
<1>. SUFFICES ASSUME TypeOK, Course, StillReadable, [Next]_vars PROVE StillReadable'
  BY DEF IInv, DrawInv, Waits
<1>0. ready \subseteq Groups /\ j \in Nat /\ Groups \subseteq Nat
  BY GroupsFacts DEF TypeOK, FifaTypeOK
<1>1. CASE fpc' \notin {"scan", "receive"}
  BY <1>1 DEF StillReadable
<1>2. CASE Select
  BY <1>2 DEF Select, StillReadable, Readable, AllGone, Alive, grouphVars
<1>3. ASSUME fpc \in {"scan", "receive"}, ready' = ready, finished \subseteq finished',
             \A i \in ready' \ finished' :
               /\ (fpc' = "scan" /\ i >= j') \/ (fpc' = "receive" /\ i > j')
               => /\ (fpc = "scan" /\ i >= j) \/ (fpc = "receive" /\ i > j)
                  /\ ~ (i = j /\ (Answer \/ GroupFollows \/ ReceiveCountry \/ GroupFails))
      PROVE  StillReadable'
  <2>1. ASSUME NEW i \in ready' \ finished', (fpc' = "scan" /\ i >= j') \/ (fpc' = "receive" /\ i > j')
        PROVE  Readable(i)'
    <3>1. i \in Groups /\ Readable(i) /\ ~ (i = j /\ (Answer \/ GroupFollows \/ ReceiveCountry \/ GroupFails))
      BY <1>0, <1>3, <2>1 DEF StillReadable
    <3>2. up[i] # <<>> => up'[i] # <<>>
      BY <3>1, OthersUnread
    <3>3. AllGone => AllGone'
      BY <1>3, GoneStays
    <3>. QED BY <3>1, <3>2, <3>3 DEF Readable
  <2>. QED BY <2>1 DEF StillReadable
<1>4. CASE Answer \/ (Skip /\ fpc' = "scan")
  <2>1. /\ fpc = "scan" /\ ready' = ready /\ finished' = finished
        /\ (fpc' = "scan" /\ j' = j + 1) \/ fpc' = "done"
    BY <1>4 DEF Answer, Skip, Serving
  <2>. QED BY <1>0, <1>3, <2>1
<1>5. CASE GroupFollows
  <2>1. fpc = "scan" /\ fpc' = "receive" /\ UNCHANGED <<j, ready, finished>>
    BY <1>5 DEF GroupFollows, Serving
  <2>. QED BY <1>0, <1>3, <2>1
<1>6. CASE ReceiveCountry
  <2>1. /\ fpc = "receive" /\ ready' = ready /\ finished \subseteq finished'
        /\ (fpc' = "receive" /\ j' = j) \/ (fpc' = "scan" /\ j' = j + 1) \/ fpc' = "wait"
    BY <1>6 DEF ReceiveCountry
  <2>. QED BY <1>0, <1>3, <2>1
<1>7. CASE UNCHANGED <<fpc, j, ready, finished>> /\ ~ (Answer \/ GroupFollows \/ ReceiveCountry \/ GroupFails)
  <2>1. CASE fpc \in {"scan", "receive"}
    BY <1>3, <1>7, <2>1
  <2>. QED BY <1>1, <1>7, <2>1
<1>8. Skip => fpc' \in {"scan", "listen"}
  BY DEF Skip
<1>. QED
  BY <1>1, <1>2, <1>4, <1>5, <1>6, <1>7, <1>8 DEF Next, FifaStep, GrouphStep, Ended, StartChildren, Synchronize,
     SendTable, SelectTimesOut, ReadFails, GroupFails, Reap, Report, Load, Ask, NoCandidate, Die,
     ReadAnswer, Send, Exit, OutOfMemory, Crash, vars, fifaVars

LEMMA QuietlyStep == IInv /\ DrawInv /\ Waits /\ [Next]_vars => Quietly'
<1>. SUFFICES ASSUME IInv, DrawInv, Quietly, [Next]_vars, faults' = 0 PROVE Quietly'
  BY DEF Waits, Quietly
<1>0. TypeOK /\ Stages /\ FifaStages /\ faults \in Nat
  BY DEF IInv, TypeOK, FifaTypeOK
<1>1. /\ faults = 0 /\ ~ SelectTimesOut /\ \A i \in Groups : ~ OutOfMemory(i) /\ ~ Crash(i)
  <2>1. faults + 1 # 0
    BY <1>0
  <2>2. faults' = faults \/ faults' = faults + 1
    BY DEF Next, FifaStep, GrouphStep, Ended, StartChildren, Synchronize, SendTable, Select,
     SelectTimesOut, Skip, ReadFails, Answer, GroupFollows, GroupFails, ReceiveCountry, Reap, Report,
     Load, Ask, NoCandidate, Die, ReadAnswer, Send, Exit, OutOfMemory, Crash, vars
  <2>. QED BY <1>0, <2>1, <2>2 DEF SelectTimesOut, OutOfMemory, Crash
<1>2. ASSUME NEW i \in Groups, cpc'[i] = "crash" PROVE Idle(i)'
  <2>1. CASE cpc[i] = "crash"
    <3>1. Idle(i) /\ up[i] = <<>>
      BY <1>1, <2>1 DEF Quietly, Idle
    <3>2. /\ (Answer \/ GroupFollows \/ ReceiveCountry \/ GroupFails) => i # j
      BY <3>1 DEF Answer, GroupFollows, ReceiveCountry, GroupFails
    <3>3. up'[i] = up[i] /\ down'[i] = down[i] /\ out'[i] = out[i]
      <4>1. ASSUME NEW g \in Groups, GrouphStep(g) PROVE UNCHANGED <<up[i], down[i], out[i]>>
        BY <1>0, <2>1, <4>1 DEF GrouphStep, Load, Ask, NoCandidate, Die, ReadAnswer, Send, Exit, Drawing,
           TypeOK, GrouphTypeOK, PipesTypeOK
      <4>2. CASE FifaStep
        BY <1>0, <3>2, <4>2 DEF FifaStep, StartChildren, Synchronize, SendTable, Select,
           Skip, ReadFails, Answer, GroupFollows, GroupFails, ReceiveCountry, Reap, Report, grouphVars,
           TypeOK, GrouphTypeOK, PipesTypeOK
      <4>. QED BY <1>1, <4>1, <4>2 DEF Next, Ended, vars, grouphVars
    <3>. QED BY <3>1, <3>3 DEF Idle
  <2>2. CASE cpc[i] # "crash"
    <3>1. Die(i)
      BY <1>0, <1>1, <1>2, <2>2 DEF TypeOK, GrouphTypeOK, Next, FifaStep, GrouphStep, Ended, StartChildren,
         Synchronize, SendTable, Select, Skip, ReadFails, Answer, GroupFollows, GroupFails,
         ReceiveCountry, Reap, Report, Load, Ask, NoCandidate, Die, ReadAnswer, Send, Exit, vars, grouphVars
    <3>. QED BY <1>0, <3>1 DEF Die, Stages, StageOf, Idle
  <2>. QED BY <2>1, <2>2
<1>3. ASSUME fpc' = "wait" PROVE finished' = Groups
  <2>1. CASE ReceiveCountry
    <3>1. headsAmm' = 0 \/ finished' = Groups
      BY <1>3, <2>1 DEF ReceiveCountry
    <3>2. headsAmm' = 0 => Missing' = {}
      <4>1. IsFiniteSet(Groups) /\ Missing' \subseteq Groups
        BY GroupsFacts, FS_Interval DEF Groups, Missing
      <4>2. IsFiniteSet(Missing') /\ headsAmm' = Cardinality(Missing')
        BY <4>1, FS_Subset, HeadsAccountStep DEF HeadsAccount
      <4>. QED BY <4>2, FS_EmptySet
    <3>3. finished' \subseteq Groups
      BY TypeStep DEF TypeOK, FifaTypeOK
    <3>. QED BY <3>1, <3>2, <3>3 DEF Missing
  <2>2. CASE GroupFails
    BY <1>3, <2>2 DEF GroupFails
  <2>3. CASE ~ ReceiveCountry /\ ~ GroupFails
    <3>1. fpc = "wait" /\ finished' = finished
      BY <1>1, <1>3, <2>3 DEF Next, FifaStep, GrouphStep, Ended, StartChildren, Synchronize, SendTable, Select,
         Skip, ReadFails, Answer, GroupFollows, Reap, Report, Serving,
         Load, Ask, NoCandidate, Die, ReadAnswer, Send, Exit, vars, fifaVars
    <3>. QED BY <1>1, <3>1 DEF Quietly
  <2>. QED BY <2>1, <2>2, <2>3
<1>. QED BY <1>2, <1>3 DEF Quietly

LEMMA WaitsInductive == Spec => []Waits
<1>1. IInv /\ DrawInv /\ Waits /\ [Next]_vars => Waits'
  BY AllSentStep, StillReadableStep, MadeStep, QuietlyStep, EndingsStep DEF Waits
<1>. QED BY InitWaits, <1>1, DrawInductive, PTL DEF Spec

(* When fifa waits there is a grouph that goes on: one that runs and that fifa
   has answered, or to which it listens no more, or which still has to send the
   rest of its group. *)
LEMMA SomebodyGoesOn ==
  ASSUME IInv, DrawInv, Waits
  PROVE  NobodyIsLeftWaiting
<1>. SUFFICES ASSUME faults = 0, ~ Reported, \A i \in Groups : ~ GrouphCanGo(i), ~ HeadsMissing
              PROVE  FifaCanGo
  BY DEF NobodyIsLeftWaiting
<1>0. /\ TypeOK /\ Stages /\ FifaStages /\ fpc \in FifaPlaces
      /\ Groups \subseteq Nat /\ cpc \in [Groups -> GrouphPlaces]
  BY GroupsFacts DEF IInv, TypeOK, FifaTypeOK, GrouphTypeOK
<1>1. CASE fpc \in {"start", "send"}
  BY <1>1 DEF FifaCanGo
<1>2. CASE fpc = "sync"
  <2>1. HeadsFound >= GroupsAmm /\ GroupsAmm \in Nat /\ HeadsFound \in Nat
    <3>1. IsFiniteSet(Countries)
      BY SizeAssumption, FS_Interval DEF Countries
    <3>2. HeadsFound \in Nat
      BY <3>1, FS_Subset, FS_CardinalityType DEF HeadsFound
    <3>. QED BY <1>2, <3>2, GroupsFacts DEF HeadsMissing
  <2>2. ASSUME NEW i \in Groups PROVE cpc[i] # "none"
    <3>1. i < GroupsAmm /\ i \in Nat
      BY <2>1 DEF Groups
    <3>. QED BY <1>2, <2>1, <3>1 DEF Waits, Made
  <2>. QED BY <1>2, <2>2 DEF FifaCanGo
\* A grouph that runs, whoever waits, waits for fifa's table or its answer.
<1>3. ASSUME NEW i \in Groups, Alive(i)
      PROVE  \/ cpc[i] = "load" /\ ~ (i < sent)
             \/ cpc[i] = "ask" /\ up[i] # <<>>
  <2>1. cpc[i] \in {"load", "ask"}
    BY <1>0, <1>3 DEF Alive, GrouphPlaces, GrouphCanGo
  <2>2. CASE cpc[i] = "ask"
    <3>1. down[i] = <<>>
      BY <2>2 DEF GrouphCanGo
    <3>2. Requesting(i)
      <4>1. ~ Answered(i)
        BY <3>1, SingleHead DEF Answered
      <4>. QED BY <1>0, <2>2, <4>1 DEF Stages, StageOf
    <3>. QED BY <2>2, <3>2 DEF Requesting
  <2>. QED BY <2>1, <2>2 DEF GrouphCanGo
<1>4. fpc \in {"listen", "scan", "receive", "wait"} => \A i \in Groups : i < sent
  BY GroupsFacts DEF Waits, AllSent, Groups
<1>5. CASE fpc = "listen"
  <2>1. CASE AllGone
    <3>1. PICK i \in Groups : TRUE
      BY GroupsFacts DEF Groups
    <3>. QED BY <1>5, <2>1, <3>1 DEF FifaCanGo, Readable
  <2>2. CASE ~ AllGone
    <3>1. PICK i \in Groups : Alive(i)
      BY <2>2 DEF AllGone
    <3>. QED BY <1>3, <1>4, <1>5, <3>1 DEF FifaCanGo, Readable
  <2>. QED BY <2>1, <2>2
<1>6. CASE fpc = "scan"
  <2>1. Serving => j \in ready \ finished /\ j >= j
    BY <1>0 DEF Serving, TypeOK, FifaTypeOK
  <2>. QED BY <1>6, <2>1 DEF FifaCanGo, Waits, StillReadable
<1>7. CASE fpc = "receive"
  <2>1. j \in Groups /\ cpc[j] \in {"send", "exit", "crash"}
    BY <1>0, <1>7, GroupsFacts DEF FifaStages, Groups, TypeOK, FifaTypeOK
  <2>2. cpc[j] \in {"exit", "crash"} /\ out[j] = <<>>
    BY <2>1 DEF GrouphCanGo, Waits, Endings, Quietly, Idle
  <2>3. up[j] # <<>>
    <3>1. ~ Unheard(j) /\ j \notin finished
      BY <1>0, <1>7 DEF Unheard, FifaStages
    <3>2. Delivering(j)
      BY <2>1, <3>1 DEF DrawInv, Stories, StoryOf, Asking, Announcing, Delivered
    <3>3. fixture[j] \in Seq(Word) /\ up[j] \in Seq(Word) /\ out[j] \in Seq(Word)
      BY <1>0, <2>1 DEF TypeOK, PipesTypeOK, GrouphTypeOK, Word
    <3>4. SUFFICES ASSUME up[j] = <<>> PROVE FALSE
      OBVIOUS
    <3>5. Len(Rest(j)) = 0 /\ Rest(j) \in Seq(Word)
      BY <2>2, <3>3, <3>4, ConcatProperties DEF Rest
    <3>6. Len(fixture[j] \o Rest(j)) = Len(fixture[j]) /\ Len(fixture[j]) \in Nat
      BY <3>3, <3>5, ConcatProperties, LenProperties
    <3>7. Len(Group(j)) = GroupSize /\ GroupSize \in Nat
      <4>1. drawn[j] \in Seq(Countries) /\ <<j>> \in Seq(Countries) /\ Len(<<j>>) = 1
        BY <1>0, <2>1, GroupsFacts DEF TypeOK, GrouphTypeOK
      <4>2. Len(Group(j)) = 1 + Len(drawn[j])
        BY <4>1, ConcatProperties DEF Group
      <4>. QED BY <3>2, <4>2, SizeAssumption DEF Delivering, Places
    <3>. QED BY <3>2, <3>6, <3>7 DEF Delivering
  <2>. QED BY <1>7, <2>3 DEF FifaCanGo, Readable
<1>8. CASE fpc = "wait"
  <2>1. SUFFICES ASSUME reaped # Groups, \A i \in Groups \ reaped : Alive(i) PROVE FALSE
    BY <1>8 DEF FifaCanGo
  <2>2. PICK i \in Groups \ reaped : Alive(i)
    BY <1>0, <2>1 DEF TypeOK, FifaTypeOK
  <2>3. i \in finished
    BY <1>8, <2>2 DEF Waits, Quietly
  <2>4. cpc[i] \in {"send", "exit", "crash"}
    BY <2>2, <2>3 DEF DrawInv, Stories, StoryOf, Asking, Unheard, Closed
  <2>. QED BY <2>2, <2>4 DEF Alive, GrouphCanGo
<1>9. fpc # "done"
  BY DEF Waits, Endings, Reported
<1>. QED BY <1>0, <1>1, <1>2, <1>5, <1>6, <1>7, <1>8, <1>9 DEF FifaPlaces

(* While nothing fails fifa and its grouph never wait for one another without
   end, whatever the table, the number of groups and the order of the requests;
   the one exception is a file with fewer heads than groups, for which synchronize
   waits. *)
THEOREM NobodyWaitsForEver == Spec => []NobodyIsLeftWaiting
<1>1. IInv /\ DrawInv /\ Waits => NobodyIsLeftWaiting
  BY SomebodyGoesOn
<1>. QED BY <1>1, WaitsInductive, DrawInductive, PTL
=============================================================================
