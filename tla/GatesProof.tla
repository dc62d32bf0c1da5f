------------------------------ MODULE GatesProof ------------------------------
(***************************************************************************)
(* Theorems about the pipeline of circuits, for every number of files,     *)
(* every batch of circuits and every number of faults, and about the       *)
(* circuits that pipe makes of files, for every file in the format.        *)
(***************************************************************************)
EXTENDS GatesProperties, CircuitXml, FiniteSetTheorems, SequenceTheorems, WellFoundedInduction, TLAPS

-----------------------------------------------------------------------------
\* A set of natural numbers has a least one.
LEMMA LeastNat ==
  ASSUME NEW S \in SUBSET Nat, S # {}
  PROVE  \E m \in S : \A k \in S : m <= k
<1>. DEFINE Below(n) == 1 .. n
            T == {Below(n) : n \in S}
<1>1. ASSUME NEW n \in S PROVE Below(n) \in FiniteSubsetsOf(Nat)
  <2>1. n \in Int /\ 1 \in Int /\ Below(n) \subseteq Nat
    OBVIOUS
  <2>2. IsFiniteSet(1 .. n)
    BY <2>1, FS_Interval
  <2>. QED BY <2>1, <2>2 DEF FiniteSubsetsOf
<1>2. T \subseteq FiniteSubsetsOf(Nat) /\ T # {}
  BY <1>1
<1>3. \E x \in T : \A y \in T : ~ (<<y, x>> \in StrictSubsetOrdering(Nat))
  <2>. HIDE DEF T
  <2>. QED BY <1>2, WFMin, FS_StrictSubsetOrderingWellFounded
<1>4. PICK m \in S : \A k \in S : ~ (<<Below(k), Below(m)>> \in StrictSubsetOrdering(Nat))
  BY <1>3
<1>5. ASSUME NEW k \in S, k < m PROVE FALSE
  <2>1. Below(k) \subseteq Below(m) /\ m \in Below(m) /\ m \notin Below(k)
    BY <1>5
  <2>2. Below(k) \in SUBSET Nat /\ Below(m) \in SUBSET Nat
    OBVIOUS
  <2>. QED BY <1>4, <2>1, <2>2 DEF StrictSubsetOrdering
<1>. QED BY <1>5

\* What 0 has, and n + 1 when n does, every natural number has.
LEMMA SetInduction ==
  ASSUME NEW S, 0 \in S, \A n \in Nat : n \in S => n + 1 \in S
  PROVE  Nat \subseteq S
<1>. SUFFICES ASSUME Nat \ S # {} PROVE FALSE
  OBVIOUS
<1>1. PICK n \in Nat \ S : \A m \in Nat \ S : n <= m
  BY LeastNat
<1>2. n # 0 /\ n - 1 \in Nat
  BY <1>1
<1>3. n - 1 \in S
  BY <1>1, <1>2
<1>. QED BY <1>1, <1>2, <1>3

(***************************************************************************)
(* The evaluation of a level gives a level of as many gates.               *)
(***************************************************************************)
LEMMA WordsStay ==
  ASSUME NEW type \in Types, NEW a \in Word, NEW b \in Word
  PROVE  GateHandler(type, a, b) \in Word
<1>1. \A sign, low \in BOOLEAN : WordOf(sign, low) \in Word
  BY DEF WordOf, Word
<1>2. And(a, b) \in Word /\ Or(a, b) \in Word /\ Xor(a, b) \in Word
  BY <1>1 DEF And, Or, Xor
<1>3. \A x \in Word : Not(x) \in Word
  BY DEF Not, Word
<1>. QED BY <1>2, <1>3 DEF GateHandler, Types

LEMMA FatherGives ==
  ASSUME NEW prev \in Seq(Gate), NEW fa
  PROVE  InputFromFather(prev, fa) \in Word
<1>. DEFINE found == {k \in DOMAIN prev : prev[k].name = fa}
<1>1. CASE found = {}
  BY <1>1 DEF InputFromFather, Unknown, Word
<1>2. CASE found # {}
  <2>1. found \in SUBSET Nat
    OBVIOUS
  <2>2. \E k \in found : \A m \in found : k <= m
    BY <1>2, <2>1, LeastNat
  <2>3. (CHOOSE x \in found : \A m \in found : x <= m) \in found
    BY <2>2
  <2>4. \A x \in found : prev[x] \in Gate
    OBVIOUS
  <2>5. \A g \in Gate : g.output \in Word
    BY DEF Gate
  <2>. QED BY <1>2, <2>3, <2>4, <2>5 DEF InputFromFather
<1>. QED BY <1>1, <1>2

LEMMA FeedGives ==
  ASSUME NEW prev \in Seq(Gate), NEW fa, NEW g \in Gate
  PROVE  /\ Feed(prev, fa, g) \in Gate
         /\ Feed(prev, fa, g).name = g.name /\ Feed(prev, fa, g).type = g.type
         /\ Feed(prev, fa, g).fathers = g.fathers
<1>. DEFINE v == InputFromFather(prev, fa)
<1>1. v \in Word
  BY FatherGives
<1>2. g.input \in Word \X Word
  BY DEF Gate
<1>3. [g.input EXCEPT ![1] = v] \in Word \X Word /\ [g.input EXCEPT ![2] = v] \in Word \X Word
  BY <1>1, <1>2
<1>. HIDE DEF v
<1>. QED BY <1>3 DEF Feed, Gate, v

LEMMA EvaluateGives ==
  ASSUME NEW prev \in Seq(Gate), NEW gates \in Seq(Gate), NEW notFirst \in BOOLEAN
  PROVE  /\ EvaluateLevel(prev, gates, notFirst) \in Seq(Gate)
         /\ Len(EvaluateLevel(prev, gates, notFirst)) = Len(gates)
         /\ \A m \in DOMAIN gates :
              LET g == EvaluateLevel(prev, gates, notFirst)[m] IN
              g.name = gates[m].name /\ g.type = gates[m].type /\ g.fathers = gates[m].fathers
<1>. DEFINE fed(m) == IF notFirst
                      THEN Feed(prev, gates[m].fathers[2], Feed(prev, gates[m].fathers[1], gates[m]))
                      ELSE gates[m]
            gate(m) == [fed(m) EXCEPT !.output = GateHandler(fed(m).type, fed(m).input[1], fed(m).input[2])]
<1>1. ASSUME NEW m \in DOMAIN gates
      PROVE  /\ gate(m) \in Gate /\ gate(m).name = gates[m].name
             /\ gate(m).type = gates[m].type /\ gate(m).fathers = gates[m].fathers
  <2>1. gates[m] \in Gate
    OBVIOUS
  <2>2. /\ fed(m) \in Gate /\ fed(m).name = gates[m].name
        /\ fed(m).type = gates[m].type /\ fed(m).fathers = gates[m].fathers
    BY <2>1, FeedGives
  <2>. HIDE DEF fed
  <2>3. GateHandler(fed(m).type, fed(m).input[1], fed(m).input[2]) \in Word
    BY <2>2, WordsStay DEF Gate
  <2>. QED BY <2>2, <2>3 DEF Gate
<1>2. EvaluateLevel(prev, gates, notFirst) = [m \in 1 .. Len(gates) |-> gate(m)]
  BY DEF EvaluateLevel
<1>. HIDE DEF gate
<1>. QED BY <1>1, <1>2

-----------------------------------------------------------------------------
(***************************************************************************)
(* The evaluation of a level gives what its gates mean.                    *)
(***************************************************************************)
LEMMA CountOfTwo ==
  ASSUME NEW S \in SUBSET {1, 2}
  PROVE  Cardinality(S) = (IF 1 \in S THEN 1 ELSE 0) + (IF 2 \in S THEN 1 ELSE 0)
<1>1. CASE S = {}
  BY <1>1, FS_EmptySet
<1>2. CASE S = {1}
  BY <1>2, FS_Singleton
<1>3. CASE S = {2}
  BY <1>3, FS_Singleton
<1>4. CASE S = {1, 2}
  <2>1. IsFiniteSet({1}) /\ Cardinality({1}) = 1
    BY FS_Singleton
  <2>2. S = {1} \cup {2} /\ 2 \notin {1}
    BY <1>4
  <2>3. Cardinality(S) = 2
    BY <2>1, <2>2, FS_AddElement
  <2>. QED BY <1>4, <2>3
<1>. QED BY <1>1, <1>2, <1>3, <1>4

Bit == {0, 1}
BitOf(p) == IF p THEN 1 ELSE 0

\* What the operators of C make of bits is what the gates are for.
LEMMA HandlerMeans ==
  ASSUME NEW type \in Types, NEW a \in Bit, NEW b \in Bit
  PROVE  GateHandler(type, a, b) = BitOf(Combine(type, a + b))
<1>1. And(a, b) = BitOf(a + b = 2) /\ Or(a, b) = BitOf(a + b >= 1) /\ Xor(a, b) = BitOf(a + b = 1)
  BY DEF And, Or, Xor, WordOf, Bit, BitOf
<1>2. \A x \in Bit : Not(x) = 1 - x
  BY DEF Not, Bit
<1>3. a + b \in {0, 1, 2}
  BY DEF Bit
<1>4. CASE type = "AND"
  BY <1>1, <1>3, <1>4 DEF GateHandler, Combine
<1>5. CASE type = "OR"
  BY <1>1, <1>3, <1>5 DEF GateHandler, Combine
<1>6. CASE type = "XOR"
  BY <1>1, <1>3, <1>6 DEF GateHandler, Combine
<1>7. CASE type = "NAND"
  BY <1>1, <1>2, <1>3, <1>7 DEF GateHandler, Combine, Bit, BitOf
<1>8. CASE type = "NOR"
  BY <1>1, <1>2, <1>3, <1>8 DEF GateHandler, Combine, Bit, BitOf
<1>9. CASE type = "XNOR"
  BY <1>1, <1>2, <1>3, <1>9 DEF GateHandler, Combine, Bit, BitOf
<1>. QED BY <1>4, <1>5, <1>6, <1>7, <1>8, <1>9 DEF Types

\* The first gate of a name is the only one.
LEMMA FatherMeans ==
  ASSUME NEW prev \in Seq(Gate), NEW n \in DOMAIN prev,
         \A m \in DOMAIN prev : prev[m].name = prev[n].name => m = n
  PROVE  InputFromFather(prev, prev[n].name) = prev[n].output
<1>. DEFINE found == {k \in DOMAIN prev : prev[k].name = prev[n].name}
<1>1. found = {n}
  OBVIOUS
<1>2. (CHOOSE k \in found : \A m \in found : k <= m) = n
  BY <1>1
<1>. QED BY <1>1, <1>2 DEF InputFromFather

LEMMA InputPut ==
  ASSUME NEW g \in Gate, NEW v, NEW x, NEW y, g.input = <<x, y>>
  PROVE  /\ [g EXCEPT !.input[1] = v].input = <<v, y>>
         /\ [g EXCEPT !.input[2] = v].input = <<x, v>>
<1>1. /\ [g EXCEPT !.input[1] = v].input = [g.input EXCEPT ![1] = v]
      /\ [g EXCEPT !.input[2] = v].input = [g.input EXCEPT ![2] = v]
  BY DEF Gate
<1>2. [<<x, y>> EXCEPT ![1] = v] = <<v, y>> /\ [<<x, y>> EXCEPT ![2] = v] = <<x, v>>
  OBVIOUS
<1>. QED BY <1>1, <1>2

\* Whatever the places of the given inputs and of the fathers, two bits come
\* together that are the signals of the gate.
LEMMA FedMeans ==
  ASSUME NEW prev \in Seq(Gate), NEW g \in Gate, NEW before,
         g.input \in {0, 1, Unknown} \X {0, 1, Unknown},
         Cardinality(Missing(g)) = Cardinality(Fathers(g)),
         \A s \in Fathers(g) :
           /\ before[g.fathers[s]] \in BOOLEAN
           /\ InputFromFather(prev, g.fathers[s]) = BitOf(before[g.fathers[s]])
  PROVE  LET fed == Feed(prev, g.fathers[2], Feed(prev, g.fathers[1], g)) IN
         /\ fed.input[1] \in Bit /\ fed.input[2] \in Bit
         /\ fed.input[1] + fed.input[2] = Ones(g, before)
<1>. DEFINE x == g.input[1]
            y == g.input[2]
            f1 == g.fathers[1] # NoName
            f2 == g.fathers[2] # NoName
            v1 == InputFromFather(prev, g.fathers[1])
            v2 == InputFromFather(prev, g.fathers[2])
            fed == Feed(prev, g.fathers[2], Feed(prev, g.fathers[1], g))
            ones == BitOf(x = 1) + BitOf(y = 1)
                      + (IF f1 THEN v1 ELSE 0) + (IF f2 THEN v2 ELSE 0)
<1>1. x \in {0, 1, -1} /\ y \in {0, 1, -1} /\ g.input = <<x, y>>
  BY DEF Unknown
<1>2. BitOf(x = -1) + BitOf(y = -1) = BitOf(f1) + BitOf(f2)
  <2>1. Cardinality(Missing(g)) = BitOf(x = -1) + BitOf(y = -1)
    BY CountOfTwo DEF Missing, Unknown, BitOf
  <2>2. Cardinality(Fathers(g)) = BitOf(f1) + BitOf(f2)
    BY CountOfTwo DEF Fathers, BitOf
  <2>. QED BY <2>1, <2>2
<1>3. (f1 => v1 \in Bit) /\ (f2 => v2 \in Bit)
  BY DEF Fathers, BitOf, Bit
<1>4. Ones(g, before) = ones
  <2>1. Cardinality({s \in {1, 2} : g.input[s] = 1}) = BitOf(x = 1) + BitOf(y = 1)
    BY CountOfTwo DEF BitOf
  <2>2. Cardinality({s \in {1, 2} : Signal(g, s, before)})
          = (IF Signal(g, 1, before) THEN 1 ELSE 0) + (IF Signal(g, 2, before) THEN 1 ELSE 0)
    BY CountOfTwo
  <2>3. (IF Signal(g, 1, before) THEN 1 ELSE 0) = IF f1 THEN v1 ELSE 0
    BY DEF Signal, Fathers, BitOf
  <2>4. (IF Signal(g, 2, before) THEN 1 ELSE 0) = IF f2 THEN v2 ELSE 0
    BY DEF Signal, Fathers, BitOf
  <2>5. Ones(g, before) = (BitOf(x = 1) + BitOf(y = 1))
                            + ((IF f1 THEN v1 ELSE 0) + (IF f2 THEN v2 ELSE 0))
    BY <2>1, <2>2, <2>3, <2>4 DEF Ones
  <2>. QED BY <1>3, <2>5 DEF Bit, BitOf
<1>. DEFINE once == Feed(prev, g.fathers[1], g)
<1>5. /\ once.input = IF ~ f1 THEN <<x, y>> ELSE IF x = -1 THEN <<v1, y>> ELSE <<x, v1>>
      /\ fed.input = IF ~ f2 THEN once.input
                     ELSE IF once.input[1] = -1 THEN <<v2, once.input[2]>> ELSE <<once.input[1], v2>>
  <2>1. once.input = IF ~ f1 THEN <<x, y>> ELSE IF x = -1 THEN <<v1, y>> ELSE <<x, v1>>
    BY <1>1, InputPut DEF Feed, Unknown
  <2>2. once \in Gate
    BY FeedGives
  <2>3. once.input \in Word \X Word
    BY <2>2 DEF Gate
  <2>. HIDE DEF once
  <2>4. fed.input = IF ~ f2 THEN once.input
                     ELSE IF once.input[1] = -1 THEN <<v2, once.input[2]>> ELSE <<once.input[1], v2>>
    <3>1. once.input = <<once.input[1], once.input[2]>>
      BY <2>3
    <3>2. fed = Feed(prev, g.fathers[2], once)
      BY DEF once
    <3>3. /\ [once EXCEPT !.input[1] = v2].input = <<v2, once.input[2]>>
          /\ [once EXCEPT !.input[2] = v2].input = <<once.input[1], v2>>
      BY <2>2, <3>1, InputPut
    <3>. QED BY <3>2, <3>3 DEF Feed, Unknown
  <2>. QED BY <2>1, <2>4
<1>6. fed.input[1] \in Bit /\ fed.input[2] \in Bit /\ fed.input[1] + fed.input[2] = ones
  <2>. HIDE DEF fed, once, x, y, f1, f2, v1, v2
  <2>1. CASE ~ f1 /\ ~ f2
    BY <1>1, <1>2, <1>3, <1>5, <2>1 DEF Bit, BitOf
  <2>2. CASE f1 /\ ~ f2
    BY <1>1, <1>2, <1>3, <1>5, <2>2 DEF Bit, BitOf
  <2>3. CASE ~ f1 /\ f2
    BY <1>1, <1>2, <1>3, <1>5, <2>3 DEF Bit, BitOf
  <2>4. CASE f1 /\ f2
    BY <1>1, <1>2, <1>3, <1>5, <2>4 DEF Bit, BitOf
  <2>. QED BY <2>1, <2>2, <2>3, <2>4
<1>. QED BY <1>4, <1>6

-----------------------------------------------------------------------------
\* The values of a level are made of those of the level before.
LEMMA ValueUnfolds ==
  ASSUME NEW c \in Circuit, NEW k \in DOMAIN c
  PROVE  Value(c)[k] = LevelValue(c[k], IF k = 1 THEN <<>> ELSE Value(c)[k - 1])
<1>. DEFINE E(v, m) == IF m = 0 THEN <<>> ELSE LevelValue(c[m], v[m - 1])
            Is(v, n) == v = [m \in 0 .. n |-> E(v, m)]
            T == {n \in Nat : ~ \E v : Is(v, n)}
<1>1. T = {}
  <2>. SUFFICES ASSUME T # {} PROVE FALSE
    OBVIOUS
  <2>1. PICK n \in T : \A m \in T : n <= m
    BY LeastNat
  <2>2. CASE n = 0
    <3>. DEFINE v == [m \in 0 .. 0 |-> <<>>]
    <3>1. v = [m \in 0 .. 0 |-> E(v, m)]
      OBVIOUS
    <3>. QED BY <2>1, <2>2, <3>1
  <2>3. CASE n # 0
    <3>1. n \in Nat /\ n - 1 \in Nat /\ n - 1 \notin T
      BY <2>1, <2>3
    <3>2. PICK v : Is(v, n - 1)
      BY <3>1
    <3>. DEFINE w == [m \in 0 .. n |-> IF m = n THEN LevelValue(c[n], v[n - 1]) ELSE v[m]]
    <3>3. \A m \in 0 .. n - 1 : v[m] = E(v, m)
      BY <3>2
    <3>. HIDE DEF E
    <3>4. \A m \in 0 .. n - 1 : w[m] = v[m]
      BY <3>1
    <3>5. \A m \in 0 .. n : w[m] = E(w, m)
      <4>. TAKE m \in 0 .. n
      <4>1. CASE m = n
        BY <2>3, <3>1, <3>4, <4>1 DEF E
      <4>2. CASE m = 0
        BY <2>3, <3>1, <3>3, <3>4, <4>2 DEF E
      <4>3. CASE m # n /\ m # 0
        <5>1. m \in 0 .. n - 1 /\ m - 1 \in 0 .. n - 1
          BY <3>1, <4>3
        <5>2. w[m] = v[m] /\ w[m - 1] = v[m - 1] /\ v[m] = E(v, m)
          BY <3>3, <3>4, <5>1
        <5>. QED BY <4>3, <5>2 DEF E
      <4>. QED BY <4>1, <4>2, <4>3
    <3>6. w = [m \in 0 .. n |-> w[m]]
      OBVIOUS
    <3>. HIDE DEF w
    <3>7. Is(w, n)
      BY <3>5, <3>6
    <3>. QED BY <2>1, <3>7
  <2>. QED BY <2>2, <2>3
<1>2. Len(c) \in Nat /\ DOMAIN c = 1 .. Len(c)
  BY DEF Circuit
<1>3. \E v : Is(v, Len(c))
  BY <1>1, <1>2
<1>. DEFINE value == CHOOSE v : Is(v, Len(c))
<1>4. Is(value, Len(c))
  BY <1>3
<1>5. Value(c) = [m \in DOMAIN c |-> value[m]]
  BY DEF Value
<1>. HIDE DEF value
<1>6. value[k] = E(value, k) /\ value[0] = <<>>
  BY <1>2, <1>4
<1>7. Value(c)[k] = LevelValue(c[k], value[k - 1])
  BY <1>2, <1>5, <1>6
<1>8. value[k - 1] = IF k = 1 THEN <<>> ELSE Value(c)[k - 1]
  BY <1>2, <1>5, <1>6
<1>. QED BY <1>7, <1>8

\* What a gate of a level says when it is evaluated.
RightGate(c, k, m, g) ==
  /\ g.name = c[k][m].name /\ g.type = c[k][m].type /\ g.fathers = c[k][m].fathers
  /\ g.output = BitOf(Value(c)[k][c[k][m].name])

LEMMA ValuesAreBits ==
  ASSUME NEW c \in Circuit, NEW k \in DOMAIN c, NEW m \in DOMAIN c[k]
  PROVE  Value(c)[k][c[k][m].name] \in BOOLEAN
<1>1. c[k] \in Seq(Gate)
  BY DEF Circuit
<1>2. \A n \in DOMAIN c[k] : c[k][n].type \in Types
  <2>1. \A n \in DOMAIN c[k] : c[k][n] \in Gate
    BY <1>1
  <2>. QED BY <2>1 DEF Gate
<1>3. \A type \in Types, x \in Int : Combine(type, x) \in BOOLEAN
  <2>. TAKE type \in Types, x \in Int
  <2>1. /\ (x = 2) \in BOOLEAN /\ (x >= 1) \in BOOLEAN /\ (x = 1) \in BOOLEAN
        /\ (x < 2) \in BOOLEAN /\ (x = 0) \in BOOLEAN /\ (x # 1) \in BOOLEAN
    OBVIOUS
  <2>2. Combine(type, x) \in {x = 2, x >= 1, x = 1, x < 2, x = 0, x # 1}
    BY Zenon DEF Combine, Types
  <2>. QED BY <2>1, <2>2
<1>. DEFINE before == IF k = 1 THEN <<>> ELSE Value(c)[k - 1]
            name == c[k][m].name
            n == CHOOSE x \in DOMAIN c[k] : c[k][x].name = name
<1>4. n \in DOMAIN c[k]
  OBVIOUS
<1>5. LevelValue(c[k], before)[name] = Combine(c[k][n].type, Ones(c[k][n], before))
  BY DEF LevelValue
<1>6. Value(c)[k] = LevelValue(c[k], before)
  BY ValueUnfolds
<1>7. Ones(c[k][n], before) \in Int
  <2>. HIDE DEF before, n
  <2>1. \A S \in SUBSET {1, 2} : Cardinality(S) \in Int
    BY CountOfTwo
  <2>2. /\ {s \in {1, 2} : c[k][n].input[s] = 1} \in SUBSET {1, 2}
        /\ {s \in {1, 2} : Signal(c[k][n], s, before)} \in SUBSET {1, 2}
    OBVIOUS
  <2>. QED BY <2>1, <2>2 DEF Ones
<1>. QED BY <1>2, <1>3, <1>4, <1>5, <1>6, <1>7

\* A child that is given a level as it came, and the level before solved, solves
\* the level.
LEMMA EvaluateMeans ==
  ASSUME NEW c \in Circuit, Meaningful(c), NEW k \in DOMAIN c, NEW prev \in Seq(Gate),
         k # 1 => /\ DOMAIN prev = DOMAIN c[k - 1]
                  /\ \A m \in DOMAIN prev : RightGate(c, k - 1, m, prev[m])
  PROVE  \A m \in DOMAIN c[k] : RightGate(c, k, m, EvaluateLevel(prev, c[k], k # 1)[m])
<1>. DEFINE gates == c[k]
            before == IF k = 1 THEN <<>> ELSE Value(c)[k - 1]
            e == EvaluateLevel(prev, gates, k # 1)
<1>1. gates \in Seq(Gate) /\ k \in Nat \ {0} /\ (k # 1 => k - 1 \in DOMAIN c)
  BY DEF Circuit
<1>. TAKE m \in DOMAIN gates
<1>. DEFINE g == gates[m]
            fed == Feed(prev, g.fathers[2], Feed(prev, g.fathers[1], g))
<1>2. g \in Gate
  BY <1>1
<1>3. /\ g.input \in {0, 1, Unknown} \X {0, 1, Unknown}
      /\ Cardinality(Missing(g)) = Cardinality(Fathers(g))
      /\ \A s \in Fathers(g) : k > 1 /\ \E n \in DOMAIN c[k - 1] : c[k - 1][n].name = g.fathers[s]
  BY DEF Meaningful
<1>4. \A s \in Fathers(g) : /\ before[g.fathers[s]] \in BOOLEAN
                            /\ InputFromFather(prev, g.fathers[s]) = BitOf(before[g.fathers[s]])
  <2>. TAKE s \in Fathers(g)
  <2>1. k # 1 /\ k - 1 \in DOMAIN c /\ before = Value(c)[k - 1]
    BY <1>1, <1>3
  <2>2. PICK n \in DOMAIN c[k - 1] : c[k - 1][n].name = g.fathers[s]
    BY <1>3
  <2>3. \A x \in DOMAIN prev : /\ x \in DOMAIN c[k - 1] /\ prev[x].name = c[k - 1][x].name
                               /\ prev[x].output = BitOf(before[c[k - 1][x].name])
    BY <2>1 DEF RightGate
  <2>4. \A x, y \in DOMAIN c[k - 1] : c[k - 1][x].name = c[k - 1][y].name => x = y
    BY <2>1 DEF Meaningful
  <2>5. n \in DOMAIN prev /\ \A x \in DOMAIN prev : prev[x].name = prev[n].name => x = n
    BY <2>1, <2>2, <2>3, <2>4
  <2>6. InputFromFather(prev, prev[n].name) = prev[n].output
    BY <2>5, FatherMeans
  <2>7. before[c[k - 1][n].name] \in BOOLEAN
    BY <2>1, ValuesAreBits
  <2>. QED BY <2>2, <2>3, <2>5, <2>6, <2>7
<1>5. IF k = 1 THEN g.input[1] \in Bit /\ g.input[2] \in Bit /\ g.input[1] + g.input[2] = Ones(g, before)
      ELSE fed.input[1] \in Bit /\ fed.input[2] \in Bit /\ fed.input[1] + fed.input[2] = Ones(g, before)
  <2>1. fed.input[1] \in Bit /\ fed.input[2] \in Bit /\ fed.input[1] + fed.input[2] = Ones(g, before)
    <3>. HIDE DEF before
    <3>. QED BY <1>2, <1>3, <1>4, FedMeans
  <2>2. CASE k = 1
    <3>1. g.fathers[1] = NoName /\ g.fathers[2] = NoName
      BY <1>3, <2>2 DEF Fathers
    <3>2. fed = g
      BY <3>1 DEF Feed
    <3>. QED BY <2>1, <2>2, <3>2
  <2>. QED BY <2>1, <2>2
<1>. DEFINE h == IF k # 1 THEN fed ELSE g
<1>6. h.input[1] \in Bit /\ h.input[2] \in Bit /\ h.input[1] + h.input[2] = Ones(g, before)
  BY <1>5
<1>7. h \in Gate /\ h.name = g.name /\ h.type = g.type /\ h.fathers = g.fathers /\ g.type \in Types
  <2>. DEFINE once == Feed(prev, g.fathers[1], g)
  <2>1. once \in Gate /\ once.name = g.name /\ once.type = g.type /\ once.fathers = g.fathers
    BY <1>2, FeedGives
  <2>. HIDE DEF once
  <2>2. LET x == Feed(prev, g.fathers[2], once) IN
        x \in Gate /\ x.name = once.name /\ x.type = once.type /\ x.fathers = once.fathers
    BY <2>1, FeedGives
  <2>3. g.type \in Types
    BY <1>2 DEF Gate
  <2>. QED BY <1>2, <2>1, <2>2, <2>3 DEF once
<1>8. e[m] = [h EXCEPT !.output = GateHandler(h.type, h.input[1], h.input[2])]
  BY DEF EvaluateLevel
<1>9. Value(c)[k][g.name] = Combine(g.type, Ones(g, before))
  <2>. DEFINE n == CHOOSE x \in DOMAIN gates : gates[x].name = g.name
  <2>1. n = m
    BY DEF Meaningful
  <2>2. LevelValue(gates, before)[g.name] = Combine(gates[n].type, Ones(gates[n], before))
    BY DEF LevelValue
  <2>. HIDE DEF n
  <2>3. Value(c)[k] = LevelValue(gates, before)
    BY ValueUnfolds
  <2>. QED BY <2>1, <2>2, <2>3
<1>. HIDE DEF h, fed, before, e
<1>10. /\ e[m].name = g.name /\ e[m].type = g.type /\ e[m].fathers = g.fathers
       /\ e[m].output = GateHandler(g.type, h.input[1], h.input[2])
  BY <1>7, <1>8 DEF Gate
<1>11. e[m].output = BitOf(Combine(g.type, Ones(g, before)))
  BY <1>6, <1>7, <1>10, HandlerMeans
<1>. QED BY <1>9, <1>10, <1>11 DEF RightGate, e

-----------------------------------------------------------------------------
(***************************************************************************)
(* The inductive invariant, for the batch b that came from pipe.           *)
(***************************************************************************)
At(f) == <<f, level[f]>>
Here(f) == level[f] + 1

\* From the birth of the children until the last of them has been read.
Listening == gpc \in {"send", "scan", "rows"} \/ (gpc = "listen" /\ left # 0)

Unread == {f \in Files : pid[f] = "unread"}

\* How much of the answer for a file that is not read yet has been read.
Got(f) == IF gpc = "rows" /\ i = f THEN row ELSE 0

\* The n-th thing a child sends.
Said(b, f, n, x) ==
  IF n = 1 THEN x = At(f)
  ELSE x \in Gate /\ (faults = 0 => RightGate(b[f], Here(f), n - 1, x))

\* Gate m of the level at which f is has come.
Received(f, m) ==
  \/ gpc \in {"save", "reap"} \/ (gpc = "listen" /\ left = 0)
  \/ gpc \in {"listen", "scan", "rows"} /\ pid[f] = "read"
  \/ gpc = "rows" /\ i = f /\ m < row

Message == Gate \cup (Int \X Int)
Jobs == [cur : Seq(Gate), prev : Seq(Gate), notFirst : BOOLEAN, at : Int \X Int]

GatesTypes ==
  /\ table \in [Files -> Circuit]
  /\ level \in [Files -> Int]
  /\ gpc \in {"round", "send", "listen", "scan", "rows", "save", "reap", "end"}
  /\ i \in 0 .. QtyFiles
  /\ pid \in [Files -> {"none", "unread", "read"}]
  /\ ready \subseteq Files
  /\ left \in 0 .. QtyFiles
  /\ saved \in [Files -> Seq(Circuit)]
  /\ status \in {"open", "ok", "error", "killed"}
  /\ cpc \in [Files -> {"none", "job", "answer", "exit", "dead"}]
  /\ job \in [Files -> Jobs]
  /\ todo \in [Files -> Seq(Message)]
  /\ up \in [Files -> Seq(Message)]
  /\ faults \in 0 .. MaxFaults

\* A table never changes its form, and the files follow each other.
Shape(b) ==
  /\ \A f \in Files : /\ DOMAIN table[f] = DOMAIN b[f]
                      /\ \A k \in DOMAIN b[f] : DOMAIN table[f][k] = DOMAIN b[f][k]
  /\ level[0] >= 0 /\ \A f \in Files : level[f] = level[0] - f

Children(b) ==
  /\ \A f \in Files :
       /\ cpc[f] \in {"none", "job"} => up[f] = <<>> /\ todo[f] = <<>>
       /\ cpc[f] = "answer" => todo[f] # <<>>
       /\ cpc[f] = "exit" => todo[f] = <<>>
       /\ cpc[f] = "dead" => faults # 0
       /\ job[f] # NoJob => /\ Active(f) /\ job[f].at = At(f)
                            /\ Len(job[f].cur) = Len(b[f][Here(f)])
       /\ faults = 0 /\ Listening /\ cpc[f] = "job" => job[f] \in {NoJob, JobOf(f)}
  /\ gpc = "round" => \A f \in Files : cpc[f] = "none" /\ job[f] = NoJob

\* A child that is not read yet has said nothing, or its whole answer is in
\* what gates has got of it, the pipe, and what the child still has to send.
Streams(b) ==
  Listening =>
    \A f \in Files :
      /\ pid[f] = "none" <=> ~ Active(f)
      /\ pid[f] = "unread" =>
           \/ /\ cpc[f] \in {"job", "dead"} /\ Got(f) = 0
              /\ up[f] = <<>> /\ todo[f] = <<>>
           \/ /\ cpc[f] \in {"answer", "exit", "dead"}
              /\ Got(f) + Len(up[f]) + Len(todo[f]) = 1 + Len(b[f][Here(f)])
              /\ \A n \in DOMAIN up[f] : Said(b, f, Got(f) + n, up[f][n])
              /\ \A n \in DOMAIN todo[f] : Said(b, f, Got(f) + Len(up[f]) + n, todo[f][n])

Loops(b) ==
  /\ gpc = "send" => \A f \in Files : pid[f] # "read"
  /\ gpc \in {"listen", "scan", "rows"} /\ Listening => left = Cardinality(Unread)
  /\ gpc \in {"scan", "rows"} => left # 0
  /\ gpc \in {"rows", "reap"} => i \in Files
  /\ gpc = "rows" => /\ pid[i] = "unread" /\ cur = At(i)
                     /\ row \in 1 .. Len(b[i][Here(i)])

\* The levels before the one a file is at are solved, those after it as they came.
Cells(b) ==
  faults = 0 /\ gpc # "end" =>
    \A f \in Files : \A k \in DOMAIN b[f] : \A m \in DOMAIN b[f][k] :
      IF k <= level[f] \/ (k = Here(f) /\ Received(f, m))
      THEN RightGate(b[f], k, m, table[f][k][m])
      ELSE table[f][k][m] = b[f][k][m]

Forms(b) ==
  faults = 0 =>
    \A f \in Files : \A k \in DOMAIN b[f] : \A m \in DOMAIN b[f][k] :
      /\ table[f][k][m].name = b[f][k][m].name
      /\ table[f][k][m].type = b[f][k][m].type
      /\ table[f][k][m].fathers = b[f][k][m].fathers

Savings(b) ==
  faults = 0 =>
    \A f \in Files : \A s \in DOMAIN saved[f] :
      /\ DOMAIN saved[f][s] = DOMAIN b[f]
      /\ \A k \in DOMAIN b[f] :
           /\ DOMAIN saved[f][s][k] = DOMAIN b[f][k]
           /\ \A m \in DOMAIN b[f][k] : RightGate(b[f], k, m, saved[f][s][k][m])

GatesInv(b) ==
  /\ GatesTypes /\ Shape(b) /\ Children(b) /\ Streams(b) /\ Loops(b)
  /\ Cells(b) /\ Forms(b) /\ Savings(b)

-----------------------------------------------------------------------------
LEMMA BatchFacts ==
  ASSUME NEW b \in Batches
  PROVE  /\ 0 \in Files /\ IsFiniteSet(Files) /\ Cardinality(Files) = QtyFiles /\ QtyFiles \in Nat \ {0}
         /\ \A f \in Files : /\ b[f] \in Circuit /\ Meaningful(b[f])
                             /\ Len(b[f]) \in Nat \ {0} /\ DOMAIN b[f] = 1 .. Len(b[f])
         /\ \A f \in Files : \A k \in DOMAIN b[f] :
              /\ b[f][k] \in Seq(Gate)
              /\ Len(b[f][k]) \in Nat \ {0} /\ DOMAIN b[f][k] = 1 .. Len(b[f][k])
<1>1. QtyFiles \in Nat \ {0} /\ 0 \in Files
  BY FilesAssumption DEF Files
<1>2. IsFiniteSet(Files) /\ Cardinality(Files) = QtyFiles
  <2>1. /\ IsFiniteSet(0 .. QtyFiles - 1)
        /\ Cardinality(0 .. QtyFiles - 1) = IF 0 > QtyFiles - 1 THEN 0 ELSE QtyFiles - 1 - 0 + 1
    BY <1>1, FS_Interval
  <2>. QED BY <1>1, <2>1 DEF Files
<1>3. ASSUME NEW f \in Files
      PROVE  /\ b[f] \in Circuit /\ b[f] \in Circuits /\ b[f] # <<>>
             /\ Len(b[f]) \in Nat \ {0} /\ DOMAIN b[f] = 1 .. Len(b[f])
  <2>1. b[f] \in Circuit /\ b[f] # <<>>
    BY BatchesAssumption
  <2>2. b[f] \in Circuits
    BY DEF Circuits
  <2>. QED BY <2>1, <2>2 DEF Circuit
<1>4. ASSUME NEW f \in Files, NEW k \in DOMAIN b[f]
      PROVE  /\ b[f][k] \in Seq(Gate)
             /\ Len(b[f][k]) \in Nat \ {0} /\ DOMAIN b[f][k] = 1 .. Len(b[f][k])
  <2>1. b[f][k] \in Seq(Gate)
    BY <1>3 DEF Circuit
  <2>2. b[f][k] # <<>>
    BY BatchesAssumption
  <2>. QED BY <2>1, <2>2
<1>. QED BY <1>1, <1>2, <1>3, <1>4, CircuitsAssumption

LEMMA TableFacts ==
  ASSUME NEW b \in Batches, GatesTypes, Shape(b)
  PROVE  /\ \A f \in Files : /\ MaxLevel(f) = Len(b[f]) /\ Here(f) \in Int
                             /\ Active(f) <=> Here(f) \in DOMAIN b[f]
         /\ \A f \in Files : \A k \in DOMAIN b[f] :
              table[f][k] \in Seq(Gate) /\ Len(table[f][k]) = Len(b[f][k])
<1>1. ASSUME NEW f \in Files
      PROVE  /\ MaxLevel(f) = Len(b[f]) /\ Here(f) \in Int
             /\ Active(f) <=> Here(f) \in DOMAIN b[f]
  <2>1. table[f] \in Seq(Seq(Gate)) /\ level[f] \in Int
    BY DEF GatesTypes, Circuit
  <2>2. Len(table[f]) = Len(b[f])
    BY <2>1, BatchFacts DEF Shape
  <2>. QED BY <2>1, <2>2, BatchFacts DEF MaxLevel, Here, Active
<1>2. ASSUME NEW f \in Files, NEW k \in DOMAIN b[f]
      PROVE  table[f][k] \in Seq(Gate) /\ Len(table[f][k]) = Len(b[f][k])
  <2>1. table[f] \in Seq(Seq(Gate)) /\ k \in DOMAIN table[f]
    BY DEF GatesTypes, Circuit, Shape
  <2>2. table[f][k] \in Seq(Gate)
    BY <2>1
  <2>. QED BY <2>2, BatchFacts DEF Shape
<1>. QED BY <1>1, <1>2

LEMMA GatesInit == ASSUME Init PROVE GatesInv(table)
<1>. DEFINE b == table
<1>1. b \in Batches /\ level = [f \in Files |-> - f] /\ gpc = "round" /\ faults = 0
  BY DEF Init, InitLevels
<1>2. GatesTypes
  <2>1. table \in [Files -> Circuit]
    BY <1>1, BatchesAssumption
  <2>2. level \in [Files -> Int] /\ i \in 0 .. QtyFiles /\ left \in 0 .. QtyFiles /\ faults \in 0 .. MaxFaults
    BY <1>1, BatchFacts, FaultAssumption DEF Init, Files
  <2>3. job \in [Files -> Jobs]
    <3>1. NoJob \in Jobs
      BY DEF NoJob, Jobs
    <3>. QED BY <3>1 DEF Init
  <2>4. todo \in [Files -> Seq(Message)] /\ up \in [Files -> Seq(Message)] /\ saved \in [Files -> Seq(Circuit)]
    BY DEF Init
  <2>. QED BY <2>1, <2>2, <2>3, <2>4 DEF Init, GatesTypes
<1>3. Shape(b)
  BY <1>1, BatchFacts DEF Shape, Files
<1>4. Children(b) /\ Streams(b) /\ Loops(b)
  BY DEF Init, Children, Streams, Loops, Listening
<1>5. Cells(b)
  BY <1>1, <1>3, BatchFacts DEF Cells, Received, Files
<1>. QED BY <1>2, <1>3, <1>4, <1>5 DEF Init, GatesInv, Forms, Savings

-----------------------------------------------------------------------------
(***************************************************************************)
(* Facts that several steps need.                                          *)
(***************************************************************************)
\* What depends on the tables and levels alone.
LEMMA SameTables ==
  ASSUME NEW b \in Batches, GatesTypes, Shape(b), UNCHANGED <<table, level>>
  PROVE  /\ Shape(b)'
         /\ \A f \in Files : /\ At(f)' = At(f) /\ Here(f)' = Here(f)
                             /\ Active(f)' = Active(f) /\ JobOf(f)' = JobOf(f)
         /\ faults' = faults /\ Forms(b) => Forms(b)'
BY DEF Shape, At, Here, Active, MaxLevel, JobOf, Forms

LEMMA SameChildren ==
  ASSUME NEW b \in Batches, GatesInv(b), UNCHANGED <<table, level, childVars, faults>>,
         Listening' => Listening, gpc' # "round"
  PROVE  Children(b)'
<1>1. \A f \in Files : At(f)' = At(f) /\ Here(f)' = Here(f) /\ Active(f)' = Active(f) /\ JobOf(f)' = JobOf(f)
  BY SameTables DEF GatesInv
<1>. QED BY <1>1 DEF GatesInv, Children, childVars

\* Cells look at the main thread only through Received.
LEMMA SameCells ==
  ASSUME NEW b \in Batches, GatesInv(b), UNCHANGED <<table, level, faults>>, gpc # "end",
         faults = 0 => \A f \in Files : Here(f) \in DOMAIN b[f] =>
           \A m \in DOMAIN b[f][Here(f)] : Received(f, m)' = Received(f, m)
  PROVE  Cells(b)'
<1>1. \A f \in Files : Here(f)' = Here(f)
  BY DEF Here
<1>2. SUFFICES ASSUME faults = 0, NEW f \in Files, NEW k \in DOMAIN b[f], NEW m \in DOMAIN b[f][k]
      PROVE  IF k <= level[f] \/ (k = Here(f) /\ Received(f, m)')
             THEN RightGate(b[f], k, m, table[f][k][m])
             ELSE table[f][k][m] = b[f][k][m]
  BY <1>1 DEF Cells
<1>3. k = Here(f) => Received(f, m)' = Received(f, m)
  BY <1>2
<1>. QED BY <1>2, <1>3 DEF GatesInv, Cells

\* Streams depend on gates through what it has got.
LEMMA SameStreams ==
  ASSUME NEW b \in Batches, GatesInv(b), UNCHANGED <<table, level, pid, childVars, faults>>,
         Listening' => Listening, \A f \in Files : Got(f)' = Got(f)
  PROVE  Streams(b)'
<1>1. \A f \in Files : At(f)' = At(f) /\ Here(f)' = Here(f) /\ Active(f)' = Active(f)
  BY SameTables DEF GatesInv
<1>2. ASSUME NEW f \in Files, NEW n, NEW x PROVE Said(b, f, n, x)' = Said(b, f, n, x)
  BY <1>1 DEF Said
<1>. QED BY <1>1, <1>2 DEF GatesInv, Streams, childVars

-----------------------------------------------------------------------------
LEMMA StartRoundStep ==
  ASSUME NEW b \in Batches, GatesInv(b), StartRound
  PROVE  GatesInv(b)'
<1>0. GatesTypes /\ Shape(b) /\ Children(b) /\ Cells(b) /\ Forms(b) /\ Savings(b)
  BY DEF GatesInv
<1>1. /\ gpc = "round" /\ gpc' = "send" /\ i' = 0
      /\ UNCHANGED <<table, level, ready, left, cur, row, saved, status, job, todo, up, faults>>
      /\ pid' = [f \in Files |-> IF Active(f) THEN "unread" ELSE "none"]
      /\ cpc' = [f \in Files |-> IF Active(f) THEN "job" ELSE "none"]
  BY DEF StartRound
<1>2. GatesTypes'
  BY <1>0, <1>1, BatchFacts DEF GatesTypes
<1>3. Shape(b)' /\ Forms(b)' /\ \A f \in Files : Active(f)' = Active(f)
  BY <1>0, <1>1, SameTables
<1>4. \A f \in Files : job[f] = NoJob /\ up[f] = <<>> /\ todo[f] = <<>>
  BY <1>0, <1>1 DEF Children
<1>5. Children(b)'
  BY <1>1, <1>4 DEF Children
<1>6. Streams(b)'
  BY <1>1, <1>3, <1>4 DEF Streams, Got
<1>7. Loops(b)'
  BY <1>1 DEF Loops
<1>8. Cells(b)'
  BY <1>1, SameCells DEF Received
<1>9. Savings(b)'
  BY <1>0, <1>1 DEF Savings
<1>. QED BY <1>2, <1>3, <1>5, <1>6, <1>7, <1>8, <1>9 DEF GatesInv

LEMMA SendJobStep ==
  ASSUME NEW b \in Batches, GatesInv(b), SendJob
  PROVE  GatesInv(b)'
<1>0. GatesTypes /\ Shape(b) /\ Children(b) /\ Streams(b) /\ Loops(b) /\ Cells(b) /\ Forms(b) /\ Savings(b)
  BY DEF GatesInv
<1>1. /\ gpc = "send"
      /\ UNCHANGED <<table, level, pid, ready, cur, row, saved, cpc, todo, up, faults>>
  BY DEF SendJob
<1>2. Shape(b)' /\ Forms(b)' /\ Savings(b)'
  BY <1>0, <1>1, SameTables DEF Savings
<1>3. CASE i = QtyFiles
  <2>1. gpc' = "listen" /\ left' = CurrentPipeFiles /\ UNCHANGED <<i, job, status>>
    BY <1>3 DEF SendJob
  <2>2. Unread = {f \in Files : Active(f)} /\ Unread' = Unread /\ \A f \in Files : pid[f] # "read"
    BY <1>0, <1>1 DEF Unread, Streams, Loops, Listening, GatesTypes
  <2>3. left' = Cardinality(Unread') /\ Unread' \subseteq Files
    BY <2>1, <2>2 DEF CurrentPipeFiles
  <2>4. left' \in 0 .. QtyFiles
    BY <2>3, BatchFacts, FS_Subset, FS_CardinalityType
  <2>5. GatesTypes'
    BY <1>0, <1>1, <2>1, <2>4 DEF GatesTypes
  <2>6. Children(b)'
    BY <1>1, <2>1, SameChildren DEF childVars, Listening
  <2>7. Streams(b)'
    BY <1>1, <2>1, SameStreams DEF childVars, Listening, Got
  <2>8. Loops(b)'
    BY <2>1, <2>3 DEF Loops
  <2>9. Cells(b)'
    <3>1. ASSUME NEW f \in Files, Here(f) \in DOMAIN b[f] PROVE left' # 0
      <4>1. f \in Unread'
        BY <1>0, <2>2, <3>1, TableFacts
      <4>2. IsFiniteSet(Unread')
        BY <2>3, BatchFacts, FS_Subset
      <4>. QED BY <2>3, <4>1, <4>2, FS_EmptySet
    <3>2. \A f \in Files : Here(f) \in DOMAIN b[f] =>
             \A m \in DOMAIN b[f][Here(f)] : Received(f, m)' = Received(f, m)
      BY <1>1, <2>1, <2>2, <3>1 DEF Received
    <3>. QED BY <1>1, <3>2, SameCells
  <2>. QED BY <1>2, <2>5, <2>6, <2>7, <2>8, <2>9 DEF GatesInv
<1>4. CASE i # QtyFiles
  <2>0. i \in Files /\ i + 1 \in 0 .. QtyFiles /\ left' = left
    BY <1>0, <1>4, BatchFacts DEF GatesTypes, Files, SendJob
  <2>1. CASE gpc' = "end"
    <3>1. status' = "killed" /\ UNCHANGED <<i, job>>
      BY <1>1, <1>4, <2>1 DEF SendJob
    <3>2. GatesTypes'
      BY <1>0, <1>1, <2>0, <2>1, <3>1 DEF GatesTypes
    <3>3. Children(b)'
      BY <1>1, <2>1, <3>1, SameChildren DEF childVars, Listening
    <3>4. Streams(b)' /\ Loops(b)' /\ Cells(b)'
      BY <2>1 DEF Streams, Loops, Cells, Listening
    <3>. QED BY <1>2, <3>2, <3>3, <3>4 DEF GatesInv
  <2>2. CASE gpc' # "end"
    <3>1. /\ gpc' = gpc /\ i' = i + 1 /\ status' = status
          /\ \/ job' = job
             \/ Active(i) /\ job' = [job EXCEPT ![i] = JobOf(i)]
      BY <1>4, <2>2 DEF SendJob
    <3>2. ASSUME Active(i)
          PROVE  /\ JobOf(i) \in Jobs /\ JobOf(i).at = At(i)
                 /\ Len(JobOf(i).cur) = Len(b[i][Here(i)])
      <4>1. /\ Here(i) \in DOMAIN b[i] /\ level[i] \in Int /\ i \in Int
            /\ level[i] # 0 => Here(i) - 1 \in DOMAIN b[i]
        <5>1. Here(i) \in DOMAIN b[i] /\ Here(i) \in Int
          BY <1>0, <2>0, <3>2, TableFacts
        <5>2. i \in Int /\ level[i] \in Int /\ Here(i) = level[i] + 1
          BY <1>0, <2>0 DEF GatesTypes, Here
        <5>3. DOMAIN b[i] = 1 .. Len(b[i]) /\ Len(b[i]) \in Nat
          BY <2>0, BatchFacts
        <5>. QED BY <5>1, <5>2, <5>3
      <4>2. JobOf(i) \in Jobs
        BY <1>0, <2>0, <4>1, TableFacts DEF JobOf, Jobs, Here
      <4>. QED BY <1>0, <2>0, <4>1, <4>2, TableFacts DEF JobOf, At, Here
    <3>3. GatesTypes'
      <4>1. job' \in [Files -> Jobs]
        BY <1>0, <3>1, <3>2 DEF GatesTypes
      <4>. QED BY <1>0, <1>1, <2>0, <3>1, <4>1 DEF GatesTypes
    <3>4. Children(b)'
      <4>1. \A f \in Files : At(f)' = At(f) /\ Here(f)' = Here(f) /\ Active(f)' = Active(f) /\ JobOf(f)' = JobOf(f)
        BY <1>0, <1>1, SameTables
      <4>2. \A f \in Files : job'[f] = job[f] \/ (f = i /\ Active(i) /\ job'[f] = JobOf(f))
        BY <1>0, <2>0, <3>1 DEF GatesTypes
      <4>3. \A f \in Files : job'[f] # NoJob => /\ Active(f) /\ job'[f].at = At(f)
                                                /\ Len(job'[f].cur) = Len(b[f][Here(f)])
        BY <1>0, <3>2, <4>2 DEF Children
      <4>4. \A f \in Files : faults = 0 /\ cpc[f] = "job" => job'[f] \in {NoJob, JobOf(f)}
        BY <1>0, <1>1, <4>2 DEF Children, Listening
      <4>. QED BY <1>0, <1>1, <3>1, <4>1, <4>3, <4>4 DEF Children
    <3>5. Streams(b)'
      <4>1. \A f \in Files : At(f)' = At(f) /\ Here(f)' = Here(f) /\ Active(f)' = Active(f)
        BY <1>0, <1>1, SameTables
      <4>2. ASSUME NEW f \in Files, NEW n, NEW x PROVE Said(b, f, n, x)' = Said(b, f, n, x)
        BY <1>1, <4>1 DEF Said
      <4>3. \A f \in Files : Got(f)' = Got(f)
        BY <1>1, <3>1 DEF Got
      <4>. QED BY <1>0, <1>1, <3>1, <4>1, <4>2, <4>3 DEF Streams, Listening
    <3>6. Loops(b)' /\ Cells(b)'
      <4>1. Cells(b)'
        BY <1>1, <3>1, SameCells DEF Received
      <4>. QED BY <1>0, <1>1, <3>1, <4>1 DEF Loops
    <3>. QED BY <1>2, <3>3, <3>4, <3>5, <3>6 DEF GatesInv
  <2>. QED BY <2>1, <2>2
<1>. QED BY <1>3, <1>4

\* Steps of the main loops that read nothing.
LEMMA LoopSteps ==
  ASSUME NEW b \in Batches, GatesInv(b), Select \/ Skip \/ StopListening
  PROVE  GatesInv(b)'
<1>0. GatesTypes /\ Shape(b) /\ Children(b) /\ Streams(b) /\ Loops(b) /\ Cells(b) /\ Forms(b) /\ Savings(b)
  BY DEF GatesInv
<1>1. UNCHANGED <<table, level, pid, left, cur, row, saved, status, childVars, faults>>
  BY DEF Select, Skip, StopListening
<1>2. Shape(b)' /\ Forms(b)' /\ Savings(b)'
  BY <1>0, <1>1, SameTables DEF Savings
<1>3. /\ gpc' # "rows" /\ gpc \in {"listen", "scan"} /\ i' \in 0 .. QtyFiles /\ ready' \subseteq Files
      /\ \/ Listening /\ gpc' \in {"listen", "scan"} /\ left # 0
         \/ gpc = "listen" /\ left = 0 /\ gpc' = "save"
  <2>1. CASE Select
    <3>1. gpc = "listen" /\ left > 0 /\ left \in Nat /\ gpc' = "scan" /\ i' = 0 /\ ready' \subseteq Files
      BY <1>0, <2>1 DEF Select, GatesTypes
    <3>. QED BY <3>1, BatchFacts DEF Listening
  <2>2. CASE Skip
    <3>1. gpc = "scan" /\ gpc' \in {"scan", "listen"} /\ ready' = ready /\ i' \in {i, i + 1}
      BY <2>2 DEF Skip
    <3>2. i' \in 0 .. QtyFiles
      BY <1>0, <2>2, BatchFacts DEF Skip, GatesTypes
    <3>. QED BY <1>0, <3>1, <3>2 DEF Listening, Loops, GatesTypes
  <2>3. CASE StopListening
    BY <1>0, <2>3, BatchFacts DEF StopListening, GatesTypes
  <2>. QED BY <2>1, <2>2, <2>3
<1>4. GatesTypes'
  BY <1>0, <1>1, <1>3 DEF GatesTypes, childVars
<1>5. Children(b)'
  BY <1>1, <1>3, SameChildren DEF Listening
<1>6. Streams(b)'
  BY <1>1, <1>3, SameStreams DEF Listening, Got
<1>7. Loops(b)'
  BY <1>0, <1>1, <1>3 DEF Loops, Listening, Unread
<1>8. Cells(b)'
  BY <1>1, <1>3, SameCells DEF Received
<1>. QED BY <1>2, <1>4, <1>5, <1>6, <1>7, <1>8 DEF GatesInv

LEMMA ReadCurStep ==
  ASSUME NEW b \in Batches, GatesInv(b), ReadCur
  PROVE  GatesInv(b)'
<1>0. GatesTypes /\ Shape(b) /\ Children(b) /\ Streams(b) /\ Loops(b) /\ Cells(b) /\ Forms(b) /\ Savings(b)
  BY DEF GatesInv
<1>1. /\ gpc = "scan" /\ gpc' = "rows" /\ i < QtyFiles /\ pid[i] = "unread" /\ up[i] # <<>>
      /\ cur' = Head(up[i]) /\ row' = 1 /\ up' = [up EXCEPT ![i] = Tail(@)]
      /\ UNCHANGED <<table, level, i, pid, ready, left, saved, status, cpc, job, todo, faults>>
  BY DEF ReadCur, Serving
<1>2. Shape(b)' /\ Forms(b)' /\ Savings(b)'
  BY <1>0, <1>1, SameTables DEF Savings
<1>3. i \in Files
  BY <1>0, <1>1, BatchFacts DEF GatesTypes, Files
<1>4. up[i] \in Seq(Message) /\ todo[i] \in Seq(Message) /\ Len(b[i][Here(i)]) \in Nat \ {0}
  <2>1. Here(i) \in DOMAIN b[i]
    BY <1>0, <1>1, <1>3, TableFacts DEF Streams, Listening
  <2>. QED BY <1>0, <1>3, <2>1, BatchFacts DEF GatesTypes
<1>5. /\ cpc[i] \in {"answer", "exit", "dead"}
      /\ Len(up[i]) + Len(todo[i]) = 1 + Len(b[i][Here(i)])
      /\ \A n \in DOMAIN up[i] : Said(b, i, n, up[i][n])
      /\ \A n \in DOMAIN todo[i] : Said(b, i, Len(up[i]) + n, todo[i][n])
  <2>1. Got(i) = 0
    BY <1>1 DEF Got
  <2>2. /\ cpc[i] \in {"answer", "exit", "dead"}
        /\ Got(i) + Len(up[i]) + Len(todo[i]) = 1 + Len(b[i][Here(i)])
        /\ \A n \in DOMAIN up[i] : Said(b, i, Got(i) + n, up[i][n])
        /\ \A n \in DOMAIN todo[i] : Said(b, i, Got(i) + Len(up[i]) + n, todo[i][n])
    BY <1>0, <1>1, <1>3 DEF Streams, Listening
  <2>3. \A n \in DOMAIN up[i] : 0 + n = n
    BY <1>4
  <2>4. 0 + Len(up[i]) = Len(up[i])
    BY <1>4
  <2>. QED BY <2>1, <2>2, <2>3, <2>4
<1>6. cur' = At(i)
  BY <1>1, <1>4, <1>5 DEF Said
<1>7. GatesTypes'
  <2>1. up' \in [Files -> Seq(Message)]
    <3>1. Tail(up[i]) \in Seq(Message)
      BY <1>1, <1>4, HeadTailProperties
    <3>. QED BY <1>0, <1>1, <3>1 DEF GatesTypes
  <2>. QED BY <1>0, <1>1, <2>1 DEF GatesTypes
<1>8. \A f \in Files : At(f)' = At(f) /\ Here(f)' = Here(f) /\ Active(f)' = Active(f) /\ JobOf(f)' = JobOf(f)
  BY <1>0, <1>1, SameTables
<1>9. \A f \in Files \ {i} : up'[f] = up[f]
  BY <1>0, <1>1 DEF GatesTypes
<1>10. Children(b)'
  BY <1>0, <1>1, <1>5, <1>8, <1>9 DEF Children, Listening
<1>11. Streams(b)'
  <2>1. ASSUME NEW f \in Files, NEW n, NEW x PROVE Said(b, f, n, x)' = Said(b, f, n, x)
    BY <1>1, <1>8 DEF Said
  <2>2. \A f \in Files \ {i} : Got(f)' = Got(f)
    BY <1>1 DEF Got
  <2>3. Got(i)' = 1 /\ up'[i] = Tail(up[i])
    BY <1>0, <1>1, <1>3 DEF Got, GatesTypes
  <2>4. /\ Got(i)' + Len(up'[i]) + Len(todo[i]) = 1 + Len(b[i][Here(i)])
        /\ \A n \in DOMAIN up'[i] : Said(b, i, Got(i)' + n, up'[i][n])
        /\ \A n \in DOMAIN todo[i] : Said(b, i, Got(i)' + Len(up'[i]) + n, todo[i][n])
    <3>. DEFINE u == up[i]
    <3>1. u \in Seq(Message) /\ u # <<>> /\ Len(todo[i]) \in Nat /\ Len(u) \in Nat
      BY <1>1, <1>4
    <3>. HIDE DEF u
    <3>2. Len(Tail(u)) = Len(u) - 1 /\ DOMAIN Tail(u) = 1 .. Len(u) - 1
      BY <3>1
    <3>3. \A n \in 1 .. Len(u) - 1 : n + 1 \in DOMAIN u /\ Tail(u)[n] = u[n + 1] /\ 1 + n = n + 1
      BY <3>1
    <3>4. up'[i] = Tail(u)
      BY <2>3 DEF u
    <3>5. \A n \in DOMAIN up'[i] : Said(b, i, 1 + n, up'[i][n])
      BY <1>5, <3>2, <3>3, <3>4 DEF u
    <3>6. 1 + Len(up'[i]) = Len(u)
      BY <3>1, <3>2, <3>4
    <3>7. \A n \in DOMAIN todo[i] : Said(b, i, 1 + Len(up'[i]) + n, todo[i][n])
      BY <1>5, <3>6 DEF u
    <3>8. 1 + Len(up'[i]) + Len(todo[i]) = 1 + Len(b[i][Here(i)])
      BY <1>5, <3>6 DEF u
    <3>. QED BY <2>3, <3>5, <3>7, <3>8
  <2>5. \A f \in Files : pid'[f] = "none" <=> ~ Active(f)'
    BY <1>0, <1>1, <1>8 DEF Streams, Listening
  <2>6. ASSUME NEW f \in Files, f # i, pid[f] = "unread"
        PROVE  \/ cpc[f] \in {"job", "dead"} /\ Got(f) = 0 /\ up[f] = <<>> /\ todo[f] = <<>>
               \/ /\ cpc[f] \in {"answer", "exit", "dead"}
                  /\ Got(f) + Len(up[f]) + Len(todo[f]) = 1 + Len(b[f][Here(f)])
                  /\ \A n \in DOMAIN up[f] : Said(b, f, Got(f) + n, up[f][n])
                  /\ \A n \in DOMAIN todo[f] : Said(b, f, Got(f) + Len(up[f]) + n, todo[f][n])
    BY <1>0, <1>1, <2>6 DEF Streams, Listening
  <2>. QED BY <1>1, <1>3, <1>5, <1>8, <1>9, <2>1, <2>2, <2>4, <2>5, <2>6 DEF Streams
<1>12. Loops(b)'
  BY <1>0, <1>1, <1>3, <1>4, <1>6, <1>8 DEF Loops, Listening, Unread
<1>13. Cells(b)'
  <2>1. \A f \in Files : Here(f) \in DOMAIN b[f] =>
           \A m \in DOMAIN b[f][Here(f)] : Received(f, m)' = Received(f, m)
    BY <1>1, BatchFacts DEF Received
  <2>. QED BY <1>1, <2>1, SameCells
<1>. QED BY <1>2, <1>7, <1>10, <1>11, <1>12, <1>13 DEF GatesInv

\* What gates is about to read is a gate, in whose place it puts it.
LEMMA NextGate ==
  ASSUME NEW b \in Batches, GatesInv(b), gpc = "rows", up[i] # <<>>
  PROVE  /\ i \in Files /\ Here(i) \in DOMAIN b[i] /\ row \in DOMAIN b[i][Here(i)]
         /\ cur[1] = i /\ cur[2] + 1 = Here(i)
         /\ Head(up[i]) \in Gate
         /\ faults = 0 => RightGate(b[i], Here(i), row, Head(up[i]))
         /\ cpc[i] \in {"answer", "exit", "dead"}
         /\ row + Len(up[i]) + Len(todo[i]) = 1 + Len(b[i][Here(i)])
         /\ \A n \in DOMAIN up[i] : Said(b, i, row + n, up[i][n])
         /\ \A n \in DOMAIN todo[i] : Said(b, i, row + Len(up[i]) + n, todo[i][n])
<1>0. GatesTypes /\ Shape(b) /\ Streams(b) /\ Loops(b) /\ Listening
  BY DEF GatesInv, Listening
<1>1. i \in Files /\ pid[i] = "unread" /\ cur = At(i) /\ row \in 1 .. Len(b[i][Here(i)])
  BY <1>0 DEF Loops
<1>2. Here(i) \in DOMAIN b[i]
  BY <1>0, <1>1, TableFacts DEF Streams
<1>3. DOMAIN b[i][Here(i)] = 1 .. Len(b[i][Here(i)]) /\ Len(b[i][Here(i)]) \in Nat
  BY <1>1, <1>2, BatchFacts
<1>4. Got(i) = row /\ row # 0 /\ row \in Nat
  BY <1>1, <1>3 DEF Got
<1>5. /\ cpc[i] \in {"answer", "exit", "dead"}
      /\ row + Len(up[i]) + Len(todo[i]) = 1 + Len(b[i][Here(i)])
      /\ \A n \in DOMAIN up[i] : Said(b, i, row + n, up[i][n])
      /\ \A n \in DOMAIN todo[i] : Said(b, i, row + Len(up[i]) + n, todo[i][n])
  BY <1>0, <1>1, <1>4 DEF Streams
<1>6. up[i] \in Seq(Message)
  BY <1>0, <1>1 DEF GatesTypes
<1>7. 1 \in DOMAIN up[i] /\ Head(up[i]) = up[i][1]
  BY <1>6
<1>8. Said(b, i, row + 1, Head(up[i])) /\ row + 1 # 1 /\ (row + 1) - 1 = row
  BY <1>4, <1>5, <1>7
<1>. QED BY <1>1, <1>2, <1>3, <1>5, <1>8 DEF Said, At, Here

LEMMA ReadGateTable ==
  ASSUME NEW b \in Batches, GatesInv(b), ReadGate
  PROVE  /\ table' \in [Files -> Circuit] /\ Shape(b)'
         /\ \A f \in Files : \A k \in DOMAIN b[f] : \A m \in DOMAIN b[f][k] :
              table'[f][k][m] = IF f = i /\ k = Here(i) /\ m = row THEN Head(up[i]) ELSE table[f][k][m]
         /\ \A f \in Files \ {i} : table'[f] = table[f]
<1>0. GatesTypes /\ Shape(b)
  BY DEF GatesInv
<1>. DEFINE h == Here(i)
            t == table[i]
            x == Head(up[i])
            g == [t[h] EXCEPT ![row] = x]
<1>1. gpc = "rows" /\ up[i] # <<>> /\ level' = level
  BY DEF ReadGate
<1>2. i \in Files /\ h \in DOMAIN b[i] /\ row \in DOMAIN b[i][h] /\ x \in Gate /\ cur[1] = i /\ cur[2] + 1 = h
  BY <1>1, NextGate
<1>3. t \in Seq(Seq(Gate)) /\ DOMAIN t = DOMAIN b[i] /\ t[h] \in Seq(Gate) /\ DOMAIN t[h] = DOMAIN b[i][h]
  BY <1>0, <1>2, TableFacts DEF Shape, GatesTypes, Circuit
<1>4. table' = [table EXCEPT ![i] = [t EXCEPT ![h] = g]]
  BY <1>2 DEF ReadGate
<1>. HIDE DEF h, t, x
<1>5. g \in Seq(Gate) /\ DOMAIN g = DOMAIN b[i][h]
      /\ \A m \in DOMAIN b[i][h] : g[m] = IF m = row THEN x ELSE t[h][m]
  BY <1>2, <1>3, ExceptSeq
<1>. HIDE DEF g
<1>6. [t EXCEPT ![h] = g] \in Seq(Seq(Gate))
  BY <1>2, <1>3, <1>5, ExceptSeq
<1>7. table' \in [Files -> Circuit]
  BY <1>0, <1>2, <1>4, <1>6 DEF GatesTypes, Circuit
<1>8. table'[i] = [t EXCEPT ![h] = g] /\ \A f \in Files \ {i} : table'[f] = table[f]
  BY <1>0, <1>2, <1>4 DEF GatesTypes
<1>9. /\ DOMAIN table'[i] = DOMAIN b[i] /\ table'[i][h] = g
      /\ \A k \in DOMAIN b[i] : k # h => table'[i][k] = t[k]
  BY <1>2, <1>3, <1>8
<1>10. Shape(b)'
  <2>1. \A k \in DOMAIN b[i] : DOMAIN table'[i][k] = DOMAIN b[i][k]
    BY <1>0, <1>2, <1>5, <1>9 DEF Shape, t
  <2>2. ASSUME NEW f \in Files
        PROVE  DOMAIN table'[f] = DOMAIN b[f] /\ \A k \in DOMAIN b[f] : DOMAIN table'[f][k] = DOMAIN b[f][k]
    <3>1. CASE f = i
      BY <1>9, <2>1, <3>1
    <3>2. CASE f # i
      BY <1>0, <1>8, <3>2 DEF Shape
    <3>. QED BY <3>1, <3>2
  <2>3. level'[0] >= 0 /\ \A f \in Files : level'[f] = level'[0] - f
    BY <1>0, <1>1 DEF Shape
  <2>. QED BY <2>2, <2>3 DEF Shape
<1>11. ASSUME NEW f \in Files, NEW k \in DOMAIN b[f], NEW m \in DOMAIN b[f][k]
       PROVE  table'[f][k][m] = IF f = i /\ k = h /\ m = row THEN x ELSE table[f][k][m]
  BY <1>5, <1>8, <1>9 DEF t
<1>. QED BY <1>7, <1>8, <1>10, <1>11 DEF h, x

LEMMA ReadGateStep ==
  ASSUME NEW b \in Batches, GatesInv(b), ReadGate
  PROVE  GatesInv(b)'
<1>0. GatesTypes /\ Shape(b) /\ Children(b) /\ Streams(b) /\ Loops(b) /\ Cells(b) /\ Forms(b) /\ Savings(b)
  BY DEF GatesInv
<1>1. /\ gpc = "rows" /\ up[i] # <<>> /\ up' = [up EXCEPT ![i] = Tail(@)]
      /\ UNCHANGED <<level, ready, cur, saved, status, cpc, job, todo, faults>>
  BY DEF ReadGate
<1>2. /\ i \in Files /\ Here(i) \in DOMAIN b[i] /\ row \in DOMAIN b[i][Here(i)]
      /\ faults = 0 => RightGate(b[i], Here(i), row, Head(up[i]))
      /\ cpc[i] \in {"answer", "exit", "dead"}
      /\ row + Len(up[i]) + Len(todo[i]) = 1 + Len(b[i][Here(i)])
      /\ \A n \in DOMAIN up[i] : Said(b, i, row + n, up[i][n])
      /\ \A n \in DOMAIN todo[i] : Said(b, i, row + Len(up[i]) + n, todo[i][n])
      /\ cur[1] = i /\ cur[2] + 1 = Here(i)
  BY <1>1, NextGate
<1>3. /\ table' \in [Files -> Circuit] /\ Shape(b)'
      /\ \A f \in Files : \A k \in DOMAIN b[f] : \A m \in DOMAIN b[f][k] :
           table'[f][k][m] = IF f = i /\ k = Here(i) /\ m = row THEN Head(up[i]) ELSE table[f][k][m]
      /\ \A f \in Files \ {i} : table'[f] = table[f]
  BY ReadGateTable
<1>4. pid[i] = "unread" /\ cur = At(i) /\ Listening
  BY <1>0, <1>1 DEF Loops, Listening
<1>5. Len(b[i][Here(i)]) \in Nat \ {0} /\ DOMAIN b[i][Here(i)] = 1 .. Len(b[i][Here(i)])
  BY <1>2, BatchFacts
<1>6. Unread \in SUBSET Files /\ IsFiniteSet(Unread) /\ i \in Unread /\ left = Cardinality(Unread) /\ left \in Nat \ {0}
      /\ left <= QtyFiles
  <2>1. Unread \subseteq Files /\ i \in Unread /\ left = Cardinality(Unread)
    BY <1>0, <1>1, <1>2, <1>4 DEF Unread, Loops
  <2>2. IsFiniteSet(Unread)
    BY <2>1, BatchFacts, FS_Subset
  <2>3. left \in Nat /\ left # 0 /\ left <= QtyFiles
    BY <1>0, <1>1, BatchFacts DEF GatesTypes, Loops
  <2>. QED BY <2>1, <2>2, <2>3
\* The gate is not the last, the last of a child, or the last of all.
<1>7. \/ /\ row < Len(b[i][Here(i)]) /\ row' = row + 1 /\ UNCHANGED <<gpc, i, pid, left>>
      \/ /\ row = Len(b[i][Here(i)]) /\ row' = row /\ left' = left - 1 /\ left' = 0
         /\ gpc' = "listen" /\ UNCHANGED <<i, pid>>
      \/ /\ row = Len(b[i][Here(i)]) /\ row' = row /\ left' = left - 1 /\ left' # 0
         /\ gpc' = "scan" /\ i' = i + 1 /\ pid' = [pid EXCEPT ![i] = "read"]
  <2>1. Len(table[cur[1]][cur[2] + 1]) = Len(b[i][Here(i)])
    BY <1>0, <1>2, TableFacts
  <2>. QED BY <1>2, <1>5, <2>1 DEF ReadGate
<1>8. up[i] \in Seq(Message) /\ Tail(up[i]) \in Seq(Message) /\ todo[i] \in Seq(Message)
      /\ up'[i] = Tail(up[i]) /\ \A f \in Files \ {i} : up'[f] = up[f]
  <2>1. up[i] \in Seq(Message) /\ todo[i] \in Seq(Message)
    BY <1>0, <1>2 DEF GatesTypes
  <2>2. Tail(up[i]) \in Seq(Message)
    BY <1>1, <2>1, HeadTailProperties
  <2>. QED BY <1>0, <1>1, <1>2, <2>1, <2>2 DEF GatesTypes
<1>9. GatesTypes'
  <2>1. up' \in [Files -> Seq(Message)]
    BY <1>0, <1>1, <1>8 DEF GatesTypes
  <2>2. left' \in 0 .. QtyFiles /\ i' \in 0 .. QtyFiles
    <3>1. QtyFiles \in Nat /\ i \in 0 .. QtyFiles - 1
      BY <1>2, BatchFacts DEF Files
    <3>2. i' = i \/ i' = i + 1
      BY <1>7
    <3>3. left' = left \/ left' = left - 1
      BY <1>7
    <3>4. left \in Nat \ {0} /\ left <= QtyFiles
      BY <1>6
    <3>. QED BY <3>1, <3>2, <3>3, <3>4
  <2>3. pid' \in [Files -> {"none", "unread", "read"}]
    BY <1>0, <1>7 DEF GatesTypes
  <2>4. gpc' \in {"rows", "listen", "scan"}
    BY <1>1, <1>7
  <2>. QED BY <1>0, <1>1, <1>3, <2>1, <2>2, <2>3, <2>4 DEF GatesTypes
<1>10. \A f \in Files : /\ At(f)' = At(f) /\ Here(f)' = Here(f) /\ Active(f)' = Active(f)
                        /\ f # i => JobOf(f)' = JobOf(f)
  <2>1. \A f \in Files : Here(f)' = Here(f) /\ At(f)' = At(f)
    BY <1>1 DEF Here, At
  <2>2. \A f \in Files : Active(f) <=> Here(f) \in DOMAIN b[f]
    BY <1>0, TableFacts
  <2>3. \A f \in Files : MaxLevel(f)' = Len(b[f])
    <3>. TAKE f \in Files
    <3>1. table'[f] \in Seq(Seq(Gate)) /\ DOMAIN table'[f] = DOMAIN b[f]
      BY <1>3 DEF Shape, Circuit
    <3>2. DOMAIN b[f] = 1 .. Len(b[f]) /\ Len(b[f]) \in Nat
      BY BatchFacts
    <3>. QED BY <3>1, <3>2 DEF MaxLevel
  <2>4. \A f \in Files : Active(f)' = Active(f)
    BY <1>0, <1>1, <2>3, TableFacts DEF Active
  <2>5. \A f \in Files : f # i => JobOf(f)' = JobOf(f)
    BY <1>1, <1>3 DEF JobOf
  <2>. QED BY <2>1, <2>4, <2>5
<1>11. Children(b)'
  <2>1. ASSUME NEW f \in Files
        PROVE  /\ cpc[f] \in {"none", "job"} => up'[f] = <<>> /\ todo[f] = <<>>
               /\ cpc[f] = "answer" => todo[f] # <<>>
               /\ cpc[f] = "exit" => todo[f] = <<>>
               /\ cpc[f] = "dead" => faults # 0
               /\ job[f] # NoJob => /\ Active(f)' /\ job[f].at = At(f)'
                                    /\ Len(job[f].cur) = Len(b[f][Here(f)'])
               /\ faults = 0 /\ cpc[f] = "job" => job[f] \in {NoJob, JobOf(f)'}
    <3>1. CASE f = i
      BY <1>0, <1>2, <1>10, <3>1 DEF Children
    <3>2. CASE f # i
      BY <1>0, <1>4, <1>8, <1>10, <3>2 DEF Children
    <3>. QED BY <3>1, <3>2
  <2>2. gpc' # "round"
    BY <1>1, <1>7
  <2>. QED BY <1>1, <2>1, <2>2 DEF Children
<1>12. Streams(b)'
  <2>. SUFFICES ASSUME Listening' PROVE Streams(b)'
    BY DEF Streams
  <2>1. gpc' # "listen" /\ (gpc' = "rows" => i' = i)
    BY <1>1, <1>7 DEF Listening
  <2>2. ASSUME NEW f \in Files, NEW n, NEW x PROVE Said(b, f, n, x)' = Said(b, f, n, x)
    BY <1>1, <1>10 DEF Said
  <2>3. \A f \in Files \ {i} : Got(f)' = 0 /\ Got(f) = 0 /\ pid'[f] = pid[f]
    BY <1>0, <1>1, <1>7, <2>1 DEF Got, GatesTypes
  <2>4. pid'[i] # "none" /\ pid[i] # "none"
    BY <1>0, <1>2, <1>4, <1>7 DEF GatesTypes
  <2>5. \A f \in Files : pid'[f] = "none" <=> ~ Active(f)'
    BY <1>0, <1>4, <1>10, <2>3, <2>4 DEF Streams
  <2>6. ASSUME NEW f \in Files, f # i, pid'[f] = "unread"
        PROVE  \/ cpc[f] \in {"job", "dead"} /\ Got(f)' = 0 /\ up'[f] = <<>> /\ todo[f] = <<>>
               \/ /\ cpc[f] \in {"answer", "exit", "dead"}
                  /\ Got(f)' + Len(up'[f]) + Len(todo[f]) = 1 + Len(b[f][Here(f)'])
                  /\ \A n \in DOMAIN up'[f] : Said(b, f, Got(f)' + n, up'[f][n])
                  /\ \A n \in DOMAIN todo[f] : Said(b, f, Got(f)' + Len(up'[f]) + n, todo[f][n])
    <3>1. up'[f] = up[f] /\ Got(f)' = Got(f) /\ pid[f] = "unread" /\ Here(f)' = Here(f)
      BY <1>8, <1>10, <2>3, <2>6
    <3>2. \/ cpc[f] \in {"job", "dead"} /\ Got(f) = 0 /\ up[f] = <<>> /\ todo[f] = <<>>
          \/ /\ cpc[f] \in {"answer", "exit", "dead"}
             /\ Got(f) + Len(up[f]) + Len(todo[f]) = 1 + Len(b[f][Here(f)])
             /\ \A n \in DOMAIN up[f] : Said(b, f, Got(f) + n, up[f][n])
             /\ \A n \in DOMAIN todo[f] : Said(b, f, Got(f) + Len(up[f]) + n, todo[f][n])
      BY <1>0, <1>4, <3>1 DEF Streams
    <3>. QED BY <2>2, <3>1, <3>2
  <2>7. ASSUME NEW f \in Files, f = i, pid'[f] = "unread"
        PROVE  /\ cpc[f] \in {"answer", "exit", "dead"}
               /\ Got(f)' + Len(up'[f]) + Len(todo[f]) = 1 + Len(b[f][Here(f)'])
               /\ \A n \in DOMAIN up'[f] : Said(b, f, Got(f)' + n, up'[f][n])
               /\ \A n \in DOMAIN todo[f] : Said(b, f, Got(f)' + Len(up'[f]) + n, todo[f][n])
    <3>1. gpc' = "rows" /\ row' = row + 1 /\ Got(f)' = row + 1 /\ row \in Nat
      BY <1>0, <1>1, <1>2, <1>5, <1>7, <2>1, <2>7 DEF Got, GatesTypes
    <3>. DEFINE u == up[i]
    <3>2. u \in Seq(Message) /\ u # <<>> /\ Len(todo[i]) \in Nat /\ Len(u) \in Nat
      BY <1>1, <1>8
    <3>3. \A n \in DOMAIN todo[i] : n \in Nat
      BY <1>8
    <3>. HIDE DEF u
    <3>4. Len(Tail(u)) = Len(u) - 1 /\ DOMAIN Tail(u) = 1 .. Len(u) - 1
      BY <3>2
    <3>5. \A n \in 1 .. Len(u) - 1 : n + 1 \in DOMAIN u /\ Tail(u)[n] = u[n + 1] /\ row + 1 + n = row + (n + 1)
      BY <3>1, <3>2
    <3>6. up'[i] = Tail(u)
      BY <1>8 DEF u
    <3>7. \A n \in DOMAIN up'[i] : Said(b, i, row + 1 + n, up'[i][n])
      BY <1>2, <3>4, <3>5, <3>6 DEF u
    <3>8. row + 1 + Len(up'[i]) = row + Len(u)
      BY <3>1, <3>2, <3>4, <3>6
    <3>9. \A n \in DOMAIN todo[i] : Said(b, i, row + 1 + Len(up'[i]) + n, todo[i][n])
      BY <1>2, <3>8 DEF u
    <3>10. row + 1 + Len(up'[i]) + Len(todo[i]) = 1 + Len(b[i][Here(i)])
      BY <1>2, <3>8 DEF u
    <3>11. cpc[f] \in {"answer", "exit", "dead"} /\ Here(f)' = Here(f)
      BY <1>2, <1>10, <2>7
    <3>12. Got(f)' + Len(up'[f]) + Len(todo[f]) = 1 + Len(b[f][Here(f)'])
      BY <2>7, <3>1, <3>10, <3>11
    <3>13. /\ \A n \in DOMAIN up'[f] : Said(b, f, Got(f)' + n, up'[f][n])
           /\ \A n \in DOMAIN todo[f] : Said(b, f, Got(f)' + Len(up'[f]) + n, todo[f][n])
      BY <2>7, <3>1, <3>7, <3>9
    <3>. QED BY <3>11, <3>12, <3>13
  <2>8. \A f \in Files : pid'[f] = "unread" =>
          \/ cpc'[f] \in {"job", "dead"} /\ Got(f)' = 0 /\ up'[f] = <<>> /\ todo'[f] = <<>>
          \/ /\ cpc'[f] \in {"answer", "exit", "dead"}
             /\ Got(f)' + Len(up'[f]) + Len(todo'[f]) = 1 + Len(b[f][Here(f)'])
             /\ \A n \in DOMAIN up'[f] : Said(b, f, Got(f)' + n, up'[f][n])
             /\ \A n \in DOMAIN todo'[f] : Said(b, f, Got(f)' + Len(up'[f]) + n, todo'[f][n])
    BY <1>1, <2>6, <2>7
  <2>9. \A f \in Files : \A n, x : Said(b, f, n, x)' = Said(b, f, n, x)
    BY <2>2
  <2>. QED BY <2>5, <2>8, <2>9 DEF Streams
<1>13. Loops(b)'
  <2>1. CASE gpc' = "rows"
    BY <1>0, <1>1, <1>2, <1>4, <1>5, <1>6, <1>7, <1>10, <2>1 DEF Loops, Unread
  <2>2. CASE gpc' = "listen"
    BY <1>1, <1>7, <2>2 DEF Loops, Listening
  <2>3. CASE gpc' = "scan"
    <3>1. Unread' = Unread \ {i}
      BY <1>0, <1>1, <1>2, <1>7, <2>3 DEF Unread, GatesTypes
    <3>2. left' = Cardinality(Unread') /\ left' # 0
      BY <1>1, <1>6, <1>7, <2>3, <3>1, FS_RemoveElement
    <3>. QED BY <2>3, <3>2 DEF Loops
  <2>. QED BY <1>1, <1>7, <2>1, <2>2, <2>3
<1>14. Cells(b)'
  <2>1. ASSUME NEW f \in Files, Here(f) \in DOMAIN b[f], NEW m \in DOMAIN b[f][Here(f)]
        PROVE  Received(f, m)' <=> Received(f, m) \/ (f = i /\ m = row)
    <3>1. pid[f] # "none" /\ Active(f)
      BY <1>0, <1>4, <2>1, TableFacts DEF Streams
    <3>2. m \in Nat /\ row \in Nat /\ m <= Len(b[f][Here(f)])
      BY <1>2, <1>5, <2>1, BatchFacts
    <3>3. CASE gpc' = "rows"
      BY <1>1, <1>4, <1>7, <3>2, <3>3 DEF Received
    <3>4. CASE gpc' = "scan"
      <4>1. row = Len(b[i][Here(i)]) /\ pid' = [pid EXCEPT ![i] = "read"]
        BY <1>1, <1>7, <3>4
      <4>2. CASE f = i
        <5>1. pid'[f] = "read" /\ (m < row \/ m = row)
          BY <1>0, <1>2, <3>2, <4>1, <4>2 DEF GatesTypes
        <5>. QED BY <1>1, <3>4, <4>2, <5>1 DEF Received
      <4>3. CASE f # i
        <5>1. pid'[f] = pid[f]
          BY <1>0, <4>1, <4>3 DEF GatesTypes
        <5>. QED BY <1>1, <3>4, <4>3, <5>1 DEF Received
      <4>. QED BY <4>2, <4>3
    <3>5. CASE gpc' = "listen"
      <4>1. left' = 0 /\ Cardinality(Unread) = 1 /\ row = Len(b[i][Here(i)])
        BY <1>1, <1>6, <1>7, <3>5
      <4>2. Unread = {i}
        BY <1>6, <4>1, FS_Singleton
      <4>3. f # i => pid[f] = "read"
        BY <1>0, <3>1, <4>2 DEF Unread, GatesTypes
      <4>. QED BY <1>1, <3>2, <3>5, <4>1, <4>3 DEF Received
    <3>. QED BY <1>1, <1>7, <3>3, <3>4, <3>5
  <2>2. SUFFICES ASSUME faults = 0, NEW f \in Files, NEW k \in DOMAIN b[f], NEW m \in DOMAIN b[f][k]
        PROVE  IF k <= level[f] \/ (k = Here(f) /\ Received(f, m)')
               THEN RightGate(b[f], k, m, table'[f][k][m])
               ELSE table'[f][k][m] = b[f][k][m]
    BY <1>1, <1>10 DEF Cells
  <2>3. k = Here(f) => (Received(f, m)' <=> Received(f, m) \/ (f = i /\ m = row))
    BY <2>1
  <2>4. IF k <= level[f] \/ (k = Here(f) /\ Received(f, m))
        THEN RightGate(b[f], k, m, table[f][k][m])
        ELSE table[f][k][m] = b[f][k][m]
    BY <1>0, <1>1, <2>2 DEF Cells
  <2>5. CASE f = i /\ k = Here(i) /\ m = row
    BY <1>2, <1>3, <2>2, <2>3, <2>5
  <2>6. CASE ~ (f = i /\ k = Here(i) /\ m = row)
    BY <1>3, <2>3, <2>4, <2>6
  <2>. QED BY <2>5, <2>6
<1>15. Forms(b)'
  BY <1>0, <1>1, <1>2, <1>3 DEF Forms, RightGate
<1>16. Savings(b)'
  BY <1>0, <1>1 DEF Savings
<1>. QED BY <1>3, <1>9, <1>11, <1>12, <1>13, <1>14, <1>15, <1>16 DEF GatesInv

\* The data of a child that is still to be read only end if it died.
LEMMA OnlyTheDeadEnd ==
  ASSUME NEW b \in Batches, GatesInv(b), ReadFails
  PROVE  faults # 0
<1>0. GatesTypes /\ Shape(b) /\ Children(b) /\ Streams(b) /\ Loops(b) /\ Listening
  BY DEF GatesInv, ReadFails, Serving, Listening
<1>1. i \in Files /\ pid[i] = "unread" /\ up[i] = <<>> /\ ~ Alive(i) /\ (gpc = "scan" \/ gpc = "rows")
  <2>1. CASE Serving
    BY <1>0, <2>1, BatchFacts DEF ReadFails, Serving, AllGone, Files, GatesTypes
  <2>2. CASE gpc = "rows"
    BY <1>0, <2>2 DEF ReadFails, AllGone, Loops
  <2>. QED BY <2>1, <2>2 DEF ReadFails
<1>2. Len(b[i][Here(i)]) \in Nat \ {0}
  <2>1. Here(i) \in DOMAIN b[i]
    BY <1>0, <1>1, TableFacts DEF Streams
  <2>. QED BY <1>1, <2>1, BatchFacts
<1>3. SUFFICES ASSUME cpc[i] = "exit" PROVE FALSE
  <2>1. cpc[i] \in {"dead", "exit"}
    BY <1>0, <1>1 DEF Streams, Alive
  <2>. QED BY <1>0, <1>1, <1>3, <2>1 DEF Children
<1>4. todo[i] = <<>> /\ Got(i) + Len(up[i]) + Len(todo[i]) = 1 + Len(b[i][Here(i)])
  BY <1>0, <1>1, <1>3 DEF Children, Streams
<1>5. Got(i) \in Nat /\ Got(i) <= Len(b[i][Here(i)])
  BY <1>0, <1>1, <1>2 DEF Got, Loops
<1>. QED BY <1>1, <1>2, <1>4, <1>5

\* Steps of gates that a fault must have come before, or is.
LEMMA FailureSteps ==
  ASSUME NEW b \in Batches, GatesInv(b), SelectTimesOut \/ ReadFails
  PROVE  GatesInv(b)'
<1>0. GatesTypes /\ Shape(b) /\ Children(b)
  BY DEF GatesInv
<1>1. /\ UNCHANGED <<table, level, pid, ready, left, cur, row, saved, childVars>>
      /\ gpc' \in {"save", "end"} /\ i' \in {0, i} /\ status' \in {status, "error"}
      /\ faults' # 0 /\ faults' \in 0 .. MaxFaults
  <2>1. CASE SelectTimesOut
    BY <1>0, <2>1, FaultAssumption DEF SelectTimesOut, GatesTypes
  <2>2. CASE ReadFails
    BY <1>0, <2>2, OnlyTheDeadEnd DEF ReadFails, GatesTypes
  <2>. QED BY <2>1, <2>2
<1>2. GatesTypes'
  <2>1. i' \in 0 .. QtyFiles
    BY <1>0, <1>1, BatchFacts DEF GatesTypes
  <2>. QED BY <1>0, <1>1, <2>1 DEF GatesTypes, childVars
<1>3. Shape(b)' /\ \A f \in Files : At(f)' = At(f) /\ Here(f)' = Here(f) /\ Active(f)' = Active(f)
  BY <1>0, <1>1, SameTables
<1>4. Children(b)'
  BY <1>0, <1>1, <1>3 DEF Children, childVars
<1>5. Streams(b)' /\ Loops(b)' /\ Cells(b)' /\ Forms(b)' /\ Savings(b)'
  BY <1>1 DEF Streams, Loops, Cells, Forms, Savings, Listening
<1>. QED BY <1>2, <1>3, <1>4, <1>5 DEF GatesInv

LEMMA SaveStep ==
  ASSUME NEW b \in Batches, GatesInv(b), Save
  PROVE  GatesInv(b)'
<1>0. GatesTypes /\ Shape(b) /\ Children(b) /\ Cells(b) /\ Forms(b) /\ Savings(b)
  BY DEF GatesInv
<1>1. /\ gpc = "save" /\ gpc' = "reap" /\ i < QtyFiles
      /\ saved' = IF level[i] = MaxLevel(i) - 1 THEN [saved EXCEPT ![i] = Append(@, table[i])] ELSE saved
      /\ UNCHANGED <<table, level, i, pid, ready, left, cur, row, status, childVars, faults>>
  BY DEF Save
<1>2. i \in Files
  BY <1>0, <1>1, BatchFacts DEF GatesTypes, Files
<1>3. Shape(b)' /\ Forms(b)'
  BY <1>0, <1>1, SameTables
<1>4. saved[i] \in Seq(Circuit) /\ table[i] \in Circuit
  BY <1>0, <1>2 DEF GatesTypes
<1>5. Append(saved[i], table[i]) \in Seq(Circuit)
  BY <1>4, AppendProperties
<1>6. GatesTypes'
  <2>1. saved' \in [Files -> Seq(Circuit)]
    BY <1>0, <1>1, <1>2, <1>5 DEF GatesTypes
  <2>. QED BY <1>0, <1>1, <2>1 DEF GatesTypes, childVars
<1>7. Children(b)'
  BY <1>1, SameChildren DEF Listening
<1>8. Streams(b)' /\ Loops(b)'
  BY <1>1, <1>2 DEF Streams, Loops, Listening
<1>9. Cells(b)'
  BY <1>1, SameCells DEF Received
<1>10. Savings(b)'
  <2>. SUFFICES ASSUME faults = 0, NEW f \in Files, NEW s \in DOMAIN saved'[f]
                PROVE  /\ DOMAIN saved'[f][s] = DOMAIN b[f]
                       /\ \A k \in DOMAIN b[f] :
                            /\ DOMAIN saved'[f][s][k] = DOMAIN b[f][k]
                            /\ \A m \in DOMAIN b[f][k] : RightGate(b[f], k, m, saved'[f][s][k][m])
    BY <1>1 DEF Savings
  <2>1. CASE s \in DOMAIN saved[f] /\ saved'[f][s] = saved[f][s]
    BY <1>0, <2>1 DEF Savings
  <2>2. CASE ~ (s \in DOMAIN saved[f] /\ saved'[f][s] = saved[f][s])
    <3>1. f = i /\ level[i] = MaxLevel(i) - 1 /\ saved'[f] = Append(saved[f], table[f])
      BY <1>0, <1>1, <1>2, <2>2 DEF GatesTypes
    <3>2. saved'[f][s] = table[f]
      <4>. DEFINE q == saved[f]
      <4>1. q \in Seq(Circuit) /\ table[f] \in Circuit
        BY <1>4, <3>1
      <4>. HIDE DEF q
      <4>2. /\ Len(Append(q, table[f])) = Len(q) + 1 /\ Append(q, table[f])[Len(q) + 1] = table[f]
            /\ \A x \in 1 .. Len(q) : Append(q, table[f])[x] = q[x]
            /\ DOMAIN Append(q, table[f]) = 1 .. Len(q) + 1 /\ DOMAIN q = 1 .. Len(q) /\ Len(q) \in Nat
        BY <4>1, AppendProperties
      <4>. QED BY <2>2, <3>1, <4>2 DEF q
    <3>3. Here(f) = Len(b[f])
      <4>1. level[f] = MaxLevel(f) - 1 /\ MaxLevel(f) = Len(b[f])
        BY <1>0, <3>1, TableFacts
      <4>2. Len(b[f]) \in Nat
        BY BatchFacts
      <4>. QED BY <4>1, <4>2 DEF Here
    <3>4. \A k \in DOMAIN b[f] : k <= level[f] \/ k = Here(f)
      BY <1>0, <3>3, BatchFacts DEF Here, GatesTypes
    <3>5. \A k \in DOMAIN b[f] : \A m \in DOMAIN b[f][k] : RightGate(b[f], k, m, table[f][k][m])
      BY <1>0, <1>1, <3>4 DEF Cells, Received
    <3>. QED BY <1>0, <3>2, <3>5 DEF Shape
  <2>. QED BY <2>1, <2>2
<1>. QED BY <1>3, <1>6, <1>7, <1>8, <1>9, <1>10 DEF GatesInv

LEMMA EndSteps ==
  ASSUME NEW b \in Batches, GatesInv(b), Reap \/ Finish
  PROVE  GatesInv(b)'
<1>0. GatesTypes /\ Shape(b) /\ Children(b) /\ Loops(b) /\ Cells(b) /\ Forms(b) /\ Savings(b)
  BY DEF GatesInv
<1>1. /\ UNCHANGED <<table, level, pid, ready, left, cur, row, saved, childVars, faults>>
      /\ gpc' \in {"save", "end"} /\ i' \in 0 .. QtyFiles /\ status' \in {status, "ok"}
      /\ gpc' = "save" => gpc = "reap"
  <2>1. CASE Reap
    <3>1. i \in 0 .. QtyFiles - 1 /\ QtyFiles \in Nat /\ i' = i + 1
      BY <1>0, <2>1, BatchFacts DEF Reap, Loops, Files
    <3>. QED BY <2>1, <3>1 DEF Reap
  <2>2. CASE Finish
    BY <1>0, <2>2 DEF Finish, GatesTypes
  <2>. QED BY <2>1, <2>2
<1>2. GatesTypes'
  BY <1>0, <1>1 DEF GatesTypes, childVars
<1>3. Shape(b)' /\ Forms(b)' /\ Savings(b)'
  BY <1>0, <1>1, SameTables DEF Savings
<1>4. Children(b)'
  BY <1>1, SameChildren DEF Listening
<1>5. Streams(b)' /\ Loops(b)'
  BY <1>1 DEF Streams, Loops, Listening
<1>6. Cells(b)'
  <2>1. CASE gpc' = "end"
    BY <2>1 DEF Cells
  <2>2. CASE gpc' = "save"
    BY <1>1, <2>2, SameCells DEF Received
  <2>. QED BY <1>1, <2>1, <2>2
<1>. QED BY <1>2, <1>3, <1>4, <1>5, <1>6 DEF GatesInv

LEMMA EndRoundStep ==
  ASSUME NEW b \in Batches, GatesInv(b), EndRound
  PROVE  GatesInv(b)'
<1>0. GatesTypes /\ Shape(b) /\ Cells(b) /\ Forms(b) /\ Savings(b)
  BY DEF GatesInv
<1>1. /\ gpc = "save" /\ gpc' = "round" /\ i' = 0 /\ level' = [f \in Files |-> level[f] + 1]
      /\ pid' = [f \in Files |-> "none"] /\ cpc' = [f \in Files |-> "none"]
      /\ job' = [f \in Files |-> NoJob] /\ todo' = [f \in Files |-> <<>>] /\ up' = [f \in Files |-> <<>>]
      /\ UNCHANGED <<table, ready, left, cur, row, saved, status, faults>>
  BY DEF EndRound
<1>2. \A f \in Files : level'[f] = level[f] + 1 /\ level[f] \in Int
  BY <1>0, <1>1 DEF GatesTypes
<1>3. GatesTypes'
  <2>1. level' \in [Files -> Int]
    BY <1>1, <1>2
  <2>2. job' \in [Files -> Jobs]
    <3>1. NoJob \in Jobs
      BY DEF NoJob, Jobs
    <3>. QED BY <1>1, <3>1
  <2>3. todo' \in [Files -> Seq(Message)] /\ up' \in [Files -> Seq(Message)]
    BY <1>1
  <2>4. i' \in 0 .. QtyFiles
    BY <1>1, BatchFacts
  <2>. QED BY <1>0, <1>1, <2>1, <2>2, <2>3, <2>4 DEF GatesTypes
<1>4. Shape(b)'
  <2>1. level'[0] >= 0 /\ \A f \in Files : level'[f] = level'[0] - f
    <3>1. 0 \in Files /\ \A f \in Files : f \in Int
      BY BatchFacts DEF Files
    <3>. QED BY <1>0, <1>2, <3>1 DEF Shape
  <2>. QED BY <1>0, <1>1, <2>1 DEF Shape
<1>5. Forms(b)' /\ Savings(b)'
  BY <1>0, <1>1 DEF Forms, Savings
<1>6. Children(b)'
  BY <1>1 DEF Children
<1>7. Streams(b)' /\ Loops(b)'
  BY <1>1 DEF Streams, Loops, Listening
<1>8. Cells(b)'
  <2>. SUFFICES ASSUME faults = 0, NEW f \in Files, NEW k \in DOMAIN b[f], NEW m \in DOMAIN b[f][k]
                PROVE  IF k <= level'[f] \/ (k = Here(f)' /\ Received(f, m)')
                       THEN RightGate(b[f], k, m, table[f][k][m])
                       ELSE table[f][k][m] = b[f][k][m]
    BY <1>1 DEF Cells
  <2>1. ~ Received(f, m)' /\ Received(f, m)
    BY <1>1 DEF Received
  <2>2. k <= level'[f] <=> k <= level[f] \/ k = Here(f)
    BY <1>2, BatchFacts DEF Here
  <2>. QED BY <1>0, <1>1, <2>1, <2>2 DEF Cells
<1>. QED BY <1>3, <1>4, <1>5, <1>6, <1>7, <1>8 DEF GatesInv

-----------------------------------------------------------------------------
\* What a child makes of its job is what it owes.
LEMMA JobMeans ==
  ASSUME NEW b \in Batches, GatesInv(b), NEW f \in Files, faults = 0, Listening,
         pid[f] = "unread", Got(f) = 0, job[f] = JobOf(f), Active(f)
  PROVE  \A m \in DOMAIN b[f][Here(f)] :
           RightGate(b[f], Here(f), m, EvaluateLevel(job[f].prev, job[f].cur, job[f].notFirst)[m])
<1>. DEFINE k == Here(f)
            c == b[f]
<1>0. GatesTypes /\ Shape(b) /\ Loops(b) /\ Cells(b)
  BY DEF GatesInv
<1>1. k \in DOMAIN c /\ c \in Circuit /\ Meaningful(c) /\ DOMAIN c = 1 .. Len(c) /\ Len(c) \in Nat
  BY <1>0, TableFacts, BatchFacts
<1>2. level[f] = k - 1 /\ k \in Nat \ {0}
  <2>1. level[f] \in Int
    BY <1>0 DEF GatesTypes
  <2>. QED BY <1>1, <2>1 DEF Here
<1>3. \A m \in DOMAIN c[k] : ~ Received(f, m)
  BY <1>0 DEF Received, Listening, Got, Loops
<1>4. table[f][k] = c[k]
  <2>1. \A m \in DOMAIN c[k] : table[f][k][m] = c[k][m]
    BY <1>0, <1>1, <1>2, <1>3 DEF Cells, Listening
  <2>2. table[f][k] \in Seq(Gate) /\ c[k] \in Seq(Gate) /\ Len(table[f][k]) = Len(c[k])
    BY <1>0, <1>1, TableFacts, BatchFacts
  <2>. QED BY <2>1, <2>2, SeqEqual
<1>5. job[f].cur = c[k] /\ job[f].notFirst = (k # 1)
      /\ job[f].prev = IF k = 1 THEN <<>> ELSE table[f][k - 1]
  BY <1>2, <1>4 DEF JobOf, Here
<1>6. job[f].prev \in Seq(Gate)
  BY <1>0 DEF GatesTypes, Jobs
<1>7. ASSUME k # 1
      PROVE  /\ DOMAIN job[f].prev = DOMAIN c[k - 1]
             /\ \A m \in DOMAIN job[f].prev : RightGate(c, k - 1, m, job[f].prev[m])
  <2>1. k - 1 \in DOMAIN c /\ k - 1 <= level[f] /\ job[f].prev = table[f][k - 1]
    BY <1>1, <1>2, <1>5, <1>7
  <2>2. DOMAIN table[f][k - 1] = DOMAIN c[k - 1]
    BY <1>0, <2>1 DEF Shape
  <2>3. \A m \in DOMAIN c[k - 1] : RightGate(c, k - 1, m, table[f][k - 1][m])
    BY <1>0, <2>1 DEF Cells, Listening
  <2>. QED BY <2>1, <2>2, <2>3
<1>. HIDE DEF k, c
<1>8. \A m \in DOMAIN c[k] : RightGate(c, k, m, EvaluateLevel(job[f].prev, c[k], k # 1)[m])
  BY <1>1, <1>6, <1>7, EvaluateMeans
<1>. QED BY <1>5, <1>8 DEF k, c

LEMMA EvaluateStep ==
  ASSUME NEW b \in Batches, GatesInv(b), NEW f \in Files, Evaluate(f)
  PROVE  GatesInv(b)'
<1>0. GatesTypes /\ Shape(b) /\ Children(b) /\ Streams(b) /\ Loops(b) /\ Cells(b) /\ Forms(b) /\ Savings(b)
  BY DEF GatesInv
<1>. DEFINE e == EvaluateLevel(job[f].prev, job[f].cur, job[f].notFirst)
<1>1. /\ cpc[f] = "job" /\ job[f] # NoJob
      /\ todo' = [todo EXCEPT ![f] = <<job[f].at>> \o e]
      /\ cpc' = [cpc EXCEPT ![f] = "answer"]
      /\ UNCHANGED <<gatesVars, job, up, faults>>
  BY DEF Evaluate
<1>2. e \in Seq(Gate) /\ Len(e) = Len(job[f].cur) /\ job[f].at \in Int \X Int
  <2>1. job[f] \in Jobs
    BY <1>0 DEF GatesTypes
  <2>2. job[f].prev \in Seq(Gate) /\ job[f].cur \in Seq(Gate) /\ job[f].notFirst \in BOOLEAN /\ job[f].at \in Int \X Int
    BY <2>1 DEF Jobs
  <2>. QED BY <2>2, EvaluateGives
<1>. HIDE DEF e
<1>3. Active(f) /\ job[f].at = At(f) /\ Len(job[f].cur) = Len(b[f][Here(f)]) /\ up[f] = <<>> /\ gpc # "round"
  BY <1>0, <1>1 DEF Children
<1>. DEFINE a == <<job[f].at>> \o e
<1>4. /\ a \in Seq(Message) /\ Len(a) = 1 + Len(e) /\ Len(e) \in Nat /\ DOMAIN a = 1 .. 1 + Len(e) /\ a # <<>>
      /\ a[1] = At(f) /\ \A n \in DOMAIN a : n # 1 => n - 1 \in DOMAIN e /\ a[n] = e[n - 1]
  <2>1. <<job[f].at>> \in Seq(Message) /\ e \in Seq(Message)
    BY <1>2 DEF Message
  <2>2. a \in Seq(Message)
    BY <2>1, ConcatProperties
  <2>. QED BY <1>2, <1>3, <2>1, <2>2
<1>5. todo'[f] = a /\ cpc'[f] = "answer" /\ \A g \in Files \ {f} : todo'[g] = todo[g] /\ cpc'[g] = cpc[g]
  BY <1>0, <1>1 DEF GatesTypes
<1>. HIDE DEF a
<1>6. GatesTypes'
  <2>1. todo' \in [Files -> Seq(Message)] /\ cpc' \in [Files -> {"none", "job", "answer", "exit", "dead"}]
    BY <1>0, <1>1, <1>4 DEF GatesTypes, a
  <2>. QED BY <1>0, <1>1, <2>1 DEF GatesTypes, gatesVars
<1>7. Shape(b)' /\ Forms(b)' /\ Savings(b)' /\ \A g \in Files : /\ At(g)' = At(g) /\ Here(g)' = Here(g)
                                                                /\ Active(g)' = Active(g) /\ JobOf(g)' = JobOf(g)
  BY <1>0, <1>1, SameTables DEF Savings, gatesVars
<1>8. Children(b)'
  <2>1. Listening' = Listening /\ gpc' = gpc /\ UNCHANGED <<up, job, faults>>
    BY <1>1 DEF Listening, gatesVars
  <2>. QED BY <1>0, <1>1, <1>3, <1>4, <1>5, <1>7, <2>1 DEF Children
<1>9. Streams(b)'
  <2>1. Listening' = Listening /\ UNCHANGED <<pid, up, faults>> /\ \A g \in Files : Got(g)' = Got(g)
    BY <1>1 DEF Listening, gatesVars, Got
  <2>2. ASSUME NEW g \in Files, NEW n, NEW x PROVE Said(b, g, n, x)' = Said(b, g, n, x)
    BY <1>7, <2>1 DEF Said
  <2>3. ASSUME Listening, pid[f] = "unread"
        PROVE  /\ Got(f) + Len(up[f]) + Len(a) = 1 + Len(b[f][Here(f)])
               /\ \A n \in DOMAIN up[f] : Said(b, f, Got(f) + n, up[f][n])
               /\ \A n \in DOMAIN a : Said(b, f, Got(f) + Len(up[f]) + n, a[n])
    <3>1. Got(f) = 0
      BY <1>0, <1>1, <2>3 DEF Streams
    <3>2. \A n \in DOMAIN a : 0 + 0 + n = n
      BY <1>4
    <3>3. faults = 0 => \A m \in DOMAIN b[f][Here(f)] : RightGate(b[f], Here(f), m, e[m])
      <4>1. SUFFICES ASSUME faults = 0 PROVE \A m \in DOMAIN b[f][Here(f)] : RightGate(b[f], Here(f), m, e[m])
        OBVIOUS
      <4>2. job[f] = JobOf(f)
        BY <1>0, <1>1, <2>3, <4>1 DEF Children
      <4>. QED BY <1>3, <2>3, <3>1, <4>1, <4>2, JobMeans DEF e
    <3>4. DOMAIN e = DOMAIN b[f][Here(f)]
      <4>1. Here(f) \in DOMAIN b[f]
        BY <1>0, <1>3, TableFacts
      <4>. QED BY <1>2, <1>3, <4>1, BatchFacts
    <3>5. \A n \in DOMAIN a : Said(b, f, n, a[n])
      BY <1>2, <1>4, <3>3, <3>4 DEF Said
    <3>6. Len(up[f]) = 0 /\ DOMAIN up[f] = {}
      BY <1>3
    <3>7. Got(f) + Len(up[f]) + Len(a) = 1 + Len(b[f][Here(f)])
      BY <1>2, <1>3, <1>4, <3>1, <3>6
    <3>8. \A n \in DOMAIN a : Got(f) + Len(up[f]) + n = n
      BY <3>1, <3>2, <3>6
    <3>9. \A n \in DOMAIN a : Said(b, f, Got(f) + Len(up[f]) + n, a[n])
      BY <3>5, <3>8
    <3>. QED BY <3>6, <3>7, <3>9
  <2>4. ASSUME Listening, NEW g \in Files, g # f, pid[g] = "unread"
        PROVE  \/ cpc[g] \in {"job", "dead"} /\ Got(g) = 0 /\ up[g] = <<>> /\ todo[g] = <<>>
               \/ /\ cpc[g] \in {"answer", "exit", "dead"}
                  /\ Got(g) + Len(up[g]) + Len(todo[g]) = 1 + Len(b[g][Here(g)])
                  /\ \A n \in DOMAIN up[g] : Said(b, g, Got(g) + n, up[g][n])
                  /\ \A n \in DOMAIN todo[g] : Said(b, g, Got(g) + Len(up[g]) + n, todo[g][n])
    BY <1>0, <2>4 DEF Streams
  <2>5. ASSUME Listening, NEW g \in Files PROVE pid[g] = "none" <=> ~ Active(g)
    BY <1>0, <2>5 DEF Streams
  <2>. QED BY <1>5, <1>7, <2>1, <2>2, <2>3, <2>4, <2>5 DEF Streams
<1>10. Loops(b)'
  BY <1>0, <1>1, <1>7 DEF Loops, Listening, Unread, gatesVars
<1>11. Cells(b)'
  <2>1. CASE gpc = "end"
    BY <1>1, <2>1 DEF Cells, gatesVars
  <2>2. CASE gpc # "end"
    BY <1>1, <2>2, SameCells DEF Received, gatesVars
  <2>. QED BY <2>1, <2>2
<1>. QED BY <1>6, <1>7, <1>8, <1>9, <1>10, <1>11 DEF GatesInv

LEMMA AnswerStep ==
  ASSUME NEW b \in Batches, GatesInv(b), NEW f \in Files, Answer(f)
  PROVE  GatesInv(b)'
<1>0. GatesTypes /\ Shape(b) /\ Children(b) /\ Streams(b) /\ Loops(b) /\ Cells(b) /\ Forms(b) /\ Savings(b)
  BY DEF GatesInv
<1>1. /\ cpc[f] = "answer" /\ up' = [up EXCEPT ![f] = Append(@, Head(todo[f]))]
      /\ todo' = [todo EXCEPT ![f] = Tail(@)]
      /\ cpc' = [cpc EXCEPT ![f] = IF Len(todo[f]) = 1 THEN "exit" ELSE "answer"]
      /\ UNCHANGED <<gatesVars, job, faults>>
  BY DEF Answer
<1>. DEFINE u == up[f]
            t == todo[f]
<1>2. u \in Seq(Message) /\ t \in Seq(Message) /\ t # <<>>
  BY <1>0, <1>1 DEF GatesTypes, Children
<1>3. /\ up'[f] = Append(u, Head(t)) /\ todo'[f] = Tail(t)
      /\ cpc'[f] = IF Len(t) = 1 THEN "exit" ELSE "answer"
      /\ \A g \in Files \ {f} : up'[g] = up[g] /\ todo'[g] = todo[g] /\ cpc'[g] = cpc[g]
  BY <1>0, <1>1 DEF GatesTypes
<1>. HIDE DEF u, t
<1>4. /\ Head(t) = t[1] /\ Head(t) \in Message /\ Tail(t) \in Seq(Message)
      /\ Len(t) \in Nat \ {0} /\ Len(Tail(t)) = Len(t) - 1 /\ DOMAIN Tail(t) = 1 .. Len(t) - 1
      /\ \A n \in 1 .. Len(t) - 1 : Tail(t)[n] = t[n + 1] /\ n + 1 \in DOMAIN t
      /\ 1 \in DOMAIN t
  BY <1>2
<1>5. /\ Append(u, Head(t)) \in Seq(Message) /\ Len(Append(u, Head(t))) = Len(u) + 1 /\ Len(u) \in Nat
      /\ DOMAIN Append(u, Head(t)) = 1 .. Len(u) + 1 /\ DOMAIN u = 1 .. Len(u)
      /\ \A n \in 1 .. Len(u) : Append(u, Head(t))[n] = u[n]
      /\ Append(u, Head(t))[Len(u) + 1] = t[1]
  BY <1>2, <1>4, AppendProperties
<1>6. GatesTypes'
  <2>1. up' \in [Files -> Seq(Message)] /\ todo' \in [Files -> Seq(Message)]
    BY <1>0, <1>1, <1>4, <1>5 DEF GatesTypes, u, t
  <2>2. cpc' \in [Files -> {"none", "job", "answer", "exit", "dead"}]
    BY <1>0, <1>1 DEF GatesTypes
  <2>. QED BY <1>0, <1>1, <2>1, <2>2 DEF GatesTypes, gatesVars
<1>7. Shape(b)' /\ Forms(b)' /\ Savings(b)' /\ \A g \in Files : /\ At(g)' = At(g) /\ Here(g)' = Here(g)
                                                                /\ Active(g)' = Active(g) /\ JobOf(g)' = JobOf(g)
  BY <1>0, <1>1, SameTables DEF Savings, gatesVars
<1>8. gpc # "round"
  BY <1>0, <1>1 DEF Children
<1>9. Children(b)'
  <2>1. Listening' = Listening /\ gpc' = gpc /\ UNCHANGED <<job, faults>>
    BY <1>1 DEF Listening, gatesVars
  <2>2. cpc'[f] = "answer" => todo'[f] # <<>>
    <3>1. Len(t) # 1 => Len(Tail(t)) # 0
      BY <1>4
    <3>2. Len(<<>>) = 0
      OBVIOUS
    <3>3. cpc'[f] = "answer" => Len(t) # 1
      BY <1>3
    <3>4. Len(Tail(t)) # 0 => Tail(t) # <<>>
      BY <3>2, Zenon
    <3>. QED BY <1>3, <3>1, <3>3, <3>4
  <2>3. cpc'[f] = "exit" => todo'[f] = <<>>
    BY <1>3, <1>4
  <2>4. cpc'[f] \in {"answer", "exit"}
    BY <1>3
  <2>. QED BY <1>0, <1>1, <1>3, <1>7, <1>8, <2>1, <2>2, <2>3, <2>4 DEF Children
<1>10. Streams(b)'
  <2>1. Listening' = Listening /\ UNCHANGED <<pid, faults>> /\ \A g \in Files : Got(g)' = Got(g)
    BY <1>1 DEF Listening, gatesVars, Got
  <2>2. ASSUME NEW g \in Files, NEW n, NEW x PROVE Said(b, g, n, x)' = Said(b, g, n, x)
    BY <1>7, <2>1 DEF Said
  <2>3. ASSUME Listening, pid[f] = "unread"
        PROVE  /\ Got(f) + Len(up'[f]) + Len(todo'[f]) = 1 + Len(b[f][Here(f)])
               /\ \A n \in DOMAIN up'[f] : Said(b, f, Got(f) + n, up'[f][n])
               /\ \A n \in DOMAIN todo'[f] : Said(b, f, Got(f) + Len(up'[f]) + n, todo'[f][n])
    <3>1. /\ Got(f) + Len(u) + Len(t) = 1 + Len(b[f][Here(f)])
          /\ \A n \in DOMAIN u : Said(b, f, Got(f) + n, u[n])
          /\ \A n \in DOMAIN t : Said(b, f, Got(f) + Len(u) + n, t[n])
      BY <1>0, <1>1, <2>3 DEF Streams, u, t
    <3>2. Got(f) \in Nat
      <4>1. gpc = "rows" => row \in 1 .. Len(b[i][Here(i)])
        BY <1>0 DEF Loops
      <4>. QED BY <4>1 DEF Got
    <3>3. Len(up'[f]) = Len(u) + 1 /\ Len(todo'[f]) = Len(t) - 1
      BY <1>3, <1>4, <1>5
    <3>. DEFINE got == Got(f)
                lu == Len(u)
                lt == Len(t)
    <3>7. got \in Nat /\ lu \in Nat /\ lt \in Nat
      BY <1>4, <1>5, <3>2
    <3>8. Len(up'[f]) = lu + 1 /\ Len(todo'[f]) = lt - 1 /\ got + lu + lt = 1 + Len(b[f][Here(f)])
      BY <3>1, <3>3
    <3>. HIDE DEF got, lu, lt
    <3>9. got + (lu + 1) + (lt - 1) = got + lu + lt
      BY <3>7
    <3>10. got + Len(up'[f]) + Len(todo'[f]) = 1 + Len(b[f][Here(f)])
      BY <3>8, <3>9
    <3>4. Got(f) + Len(up'[f]) + Len(todo'[f]) = 1 + Len(b[f][Here(f)])
      BY <3>10 DEF got
    <3>5. ASSUME NEW n \in DOMAIN up'[f] PROVE Said(b, f, Got(f) + n, up'[f][n])
      <4>1. CASE n \in 1 .. Len(u)
        BY <1>3, <1>5, <3>1, <4>1
      <4>2. CASE n = Len(u) + 1
        <5>1. Got(f) + n = Got(f) + Len(u) + 1
          BY <1>5, <3>2, <4>2
        <5>. QED BY <1>3, <1>4, <1>5, <3>1, <4>2, <5>1
      <4>. QED BY <1>3, <1>5, <4>1, <4>2
    <3>6. ASSUME NEW n \in DOMAIN todo'[f] PROVE Said(b, f, Got(f) + Len(up'[f]) + n, todo'[f][n])
      <4>1. n \in 1 .. Len(t) - 1 /\ todo'[f][n] = t[n + 1] /\ n + 1 \in DOMAIN t
        BY <1>3, <1>4
      <4>2. n \in Int
        BY <4>1
      <4>3. got + (lu + 1) + n = got + lu + (n + 1)
        BY <3>7, <4>2
      <4>4. got + Len(up'[f]) + n = got + lu + (n + 1)
        BY <3>8, <4>3
      <4>5. Got(f) + Len(up'[f]) + n = Got(f) + Len(u) + (n + 1)
        BY <4>4 DEF got, lu
      <4>. QED BY <3>1, <4>1, <4>5
    <3>. QED BY <3>4, <3>5, <3>6
  <2>4. ASSUME Listening, NEW g \in Files, g # f, pid[g] = "unread"
        PROVE  \/ cpc[g] \in {"job", "dead"} /\ Got(g) = 0 /\ up[g] = <<>> /\ todo[g] = <<>>
               \/ /\ cpc[g] \in {"answer", "exit", "dead"}
                  /\ Got(g) + Len(up[g]) + Len(todo[g]) = 1 + Len(b[g][Here(g)])
                  /\ \A n \in DOMAIN up[g] : Said(b, g, Got(g) + n, up[g][n])
                  /\ \A n \in DOMAIN todo[g] : Said(b, g, Got(g) + Len(up[g]) + n, todo[g][n])
    BY <1>0, <2>4 DEF Streams
  <2>5. ASSUME Listening, NEW g \in Files PROVE pid[g] = "none" <=> ~ Active(g)
    BY <1>0, <2>5 DEF Streams
  <2>6. cpc'[f] \in {"answer", "exit", "dead"}
    BY <1>3
  <2>7. ASSUME Listening, NEW g \in Files, pid[g] = "unread"
        PROVE  \/ cpc'[g] \in {"job", "dead"} /\ Got(g) = 0 /\ up'[g] = <<>> /\ todo'[g] = <<>>
               \/ /\ cpc'[g] \in {"answer", "exit", "dead"}
                  /\ Got(g) + Len(up'[g]) + Len(todo'[g]) = 1 + Len(b[g][Here(g)])
                  /\ \A n \in DOMAIN up'[g] : Said(b, g, Got(g) + n, up'[g][n])
                  /\ \A n \in DOMAIN todo'[g] : Said(b, g, Got(g) + Len(up'[g]) + n, todo'[g][n])
    <3>1. CASE g = f
      BY <2>3, <2>6, <2>7, <3>1
    <3>2. CASE g # f
      BY <1>3, <2>4, <2>7, <3>2
    <3>. QED BY <3>1, <3>2
  <2>. QED BY <1>7, <2>1, <2>2, <2>5, <2>7 DEF Streams
<1>11. Loops(b)'
  BY <1>0, <1>1, <1>7 DEF Loops, Listening, Unread, gatesVars
<1>12. Cells(b)'
  <2>1. CASE gpc = "end"
    BY <1>1, <2>1 DEF Cells, gatesVars
  <2>2. CASE gpc # "end"
    BY <1>1, <2>2, SameCells DEF Received, gatesVars
  <2>. QED BY <2>1, <2>2
<1>. QED BY <1>6, <1>7, <1>9, <1>10, <1>11, <1>12 DEF GatesInv

LEMMA CrashStep ==
  ASSUME NEW b \in Batches, GatesInv(b), NEW f \in Files, Crash(f)
  PROVE  GatesInv(b)'
<1>0. GatesTypes /\ Shape(b) /\ Children(b) /\ Streams(b) /\ Loops(b)
  BY DEF GatesInv
<1>1. /\ cpc[f] \in {"job", "answer"} /\ cpc' = [cpc EXCEPT ![f] = "dead"] /\ faults' = faults + 1
      /\ faults < MaxFaults /\ UNCHANGED <<gatesVars, job, todo, up>>
  BY DEF Crash, Alive
<1>2. faults' # 0 /\ faults' \in 0 .. MaxFaults
  BY <1>0, <1>1, FaultAssumption DEF GatesTypes
<1>3. cpc'[f] = "dead" /\ (\A g \in Files \ {f} : cpc'[g] = cpc[g]) /\ gpc # "round"
  BY <1>0, <1>1 DEF GatesTypes, Children
<1>4. GatesTypes'
  <2>1. cpc' \in [Files -> {"none", "job", "answer", "exit", "dead"}]
    BY <1>0, <1>1 DEF GatesTypes
  <2>. QED BY <1>0, <1>1, <1>2, <2>1 DEF GatesTypes, gatesVars
<1>5. Shape(b)' /\ \A g \in Files : At(g)' = At(g) /\ Here(g)' = Here(g) /\ Active(g)' = Active(g)
  BY <1>0, <1>1, SameTables DEF gatesVars
<1>6. Children(b)'
  BY <1>0, <1>1, <1>2, <1>3, <1>5 DEF Children, gatesVars
<1>7. Streams(b)'
  <2>1. Listening' = Listening /\ UNCHANGED <<pid, up, todo>> /\ \A g \in Files : Got(g)' = Got(g)
    BY <1>1 DEF Listening, gatesVars, Got
  <2>2. ASSUME NEW g \in Files, NEW n, NEW x, Said(b, g, n, x) PROVE Said(b, g, n, x)'
    BY <1>2, <1>5, <2>2 DEF Said
  <2>3. ASSUME Listening, NEW g \in Files, pid[g] = "unread"
        PROVE  \/ cpc'[g] \in {"job", "dead"} /\ Got(g) = 0 /\ up[g] = <<>> /\ todo[g] = <<>>
               \/ /\ cpc'[g] \in {"answer", "exit", "dead"}
                  /\ Got(g) + Len(up[g]) + Len(todo[g]) = 1 + Len(b[g][Here(g)])
                  /\ \A n \in DOMAIN up[g] : Said(b, g, Got(g) + n, up[g][n])
                  /\ \A n \in DOMAIN todo[g] : Said(b, g, Got(g) + Len(up[g]) + n, todo[g][n])
    BY <1>0, <1>3, <2>3 DEF Streams
  <2>4. ASSUME Listening, NEW g \in Files PROVE pid[g] = "none" <=> ~ Active(g)
    BY <1>0, <2>4 DEF Streams
  <2>. QED BY <1>5, <2>1, <2>2, <2>3, <2>4 DEF Streams
<1>8. Loops(b)'
  BY <1>0, <1>1, <1>5 DEF Loops, Listening, Unread, gatesVars
<1>9. Cells(b)' /\ Forms(b)' /\ Savings(b)'
  BY <1>2 DEF Cells, Forms, Savings
<1>. QED BY <1>4, <1>5, <1>6, <1>7, <1>8, <1>9 DEF GatesInv

-----------------------------------------------------------------------------
LEMMA GatesInductive ==
  ASSUME NEW b \in Batches, GatesInv(b), [Next]_vars
  PROVE  GatesInv(b)'
<1>1. CASE UNCHANGED vars
  <2>. USE <1>1 DEF vars, gatesVars, childVars
  <2>1. GatesTypes' /\ Shape(b)' /\ Forms(b)' /\ Savings(b)' /\ Loops(b)'
    <3>1. \A f \in Files : At(f)' = At(f) /\ Here(f)' = Here(f)
      BY DEF At, Here
    <3>2. Shape(b)' /\ Forms(b)' /\ Savings(b)'
      BY DEF GatesInv, Shape, Forms, Savings
    <3>3. GatesTypes'
      BY DEF GatesInv, GatesTypes
    <3>4. Loops(b)'
      BY <3>1 DEF GatesInv, Loops, Listening, Unread
    <3>. QED BY <3>2, <3>3, <3>4
  <2>2. Streams(b)'
    BY SameStreams DEF Listening, Got
  <2>3. Children(b)'
    <3>1. \A f \in Files : At(f)' = At(f) /\ Here(f)' = Here(f) /\ Active(f)' = Active(f) /\ JobOf(f)' = JobOf(f)
      BY SameTables DEF GatesInv
    <3>. QED BY <3>1 DEF GatesInv, Children, Listening
  <2>4. Cells(b)'
    <3>1. \A f \in Files : Here(f)' = Here(f) /\ \A m : Received(f, m)' = Received(f, m)
      BY DEF Here, Received
    <3>. QED BY <3>1 DEF GatesInv, Cells
  <2>. QED BY <2>1, <2>2, <2>3, <2>4 DEF GatesInv
<1>2. CASE GatesStep
  BY <1>2, StartRoundStep, SendJobStep, LoopSteps, ReadCurStep, ReadGateStep, FailureSteps,
     SaveStep, EndSteps, EndRoundStep DEF GatesStep
<1>3. CASE SelectTimesOut
  BY <1>3, FailureSteps
<1>4. CASE \E f \in Files : LevelsStep(f) \/ Crash(f)
  BY <1>4, EvaluateStep, AnswerStep, CrashStep DEF LevelsStep
<1>. QED BY <1>1, <1>2, <1>3, <1>4 DEF Next, Ended

GInv == \E b \in Batches : GatesInv(b)

LEMMA GatesAlways == Spec => []GInv
<1>1. Init => GInv
  <2>1. Init => table \in Batches
    BY DEF Init
  <2>. QED BY <2>1, GatesInit DEF GInv
<1>2. GInv /\ [Next]_vars => GInv'
  BY GatesInductive DEF GInv
<1>. QED BY <1>1, <1>2, PTL DEF Spec

-----------------------------------------------------------------------------
(***************************************************************************)
(* What the invariant gives.                                               *)
(***************************************************************************)
(* At every moment the variables of gates, its children and their pipes hold
   what they may hold, and the gate being received belongs to a level there is:
   a child never sends gates to a place outside of its table. *)
THEOREM GatesTypeCorrect == Spec => []TypeOK
<1>1. ASSUME NEW b \in Batches, GatesInv(b) PROVE TypeOK
  <2>1. GatesTypes /\ Shape(b) /\ Streams(b) /\ Loops(b)
    BY <1>1 DEF GatesInv
  <2>2. ASSUME gpc = "rows"
        PROVE  /\ cur[1] \in Files /\ cur[2] \in 0 .. MaxLevel(cur[1]) - 1
               /\ row \in 1 .. Len(table[cur[1]][cur[2] + 1])
    <3>1. /\ i \in Files /\ pid[i] = "unread" /\ cur = <<i, level[i]>>
          /\ row \in 1 .. Len(b[i][Here(i)])
      BY <2>1, <2>2 DEF Loops, At
    <3>2. Active(i)
      BY <2>1, <2>2, <3>1 DEF Streams, Listening
    <3>3. Here(i) \in DOMAIN b[i] /\ Len(table[i][Here(i)]) = Len(b[i][Here(i)])
      BY <2>1, <3>1, <3>2, TableFacts
    <3>4. level[i] \in 0 .. MaxLevel(i) - 1
      <4>1. MaxLevel(i) = Len(b[i]) /\ Len(b[i]) \in Nat
        BY <2>1, <3>1, TableFacts, BatchFacts
      <4>2. level[i] \in Int
        BY <2>1, <3>1 DEF GatesTypes
      <4>. QED BY <3>2, <4>1, <4>2 DEF Active
    <3>. QED BY <3>1, <3>3, <3>4 DEF Here
  <2>. QED BY <2>1, <2>2 DEF GatesTypes, TypeOK
<1>2. GInv => TypeOK
  BY <1>1 DEF GInv
<1>. QED BY <1>2, GatesAlways, PTL

\* The first file that has levels left is at one of them.
LEMMA WorkIsLeft ==
  ASSUME NEW b \in Batches, GatesInv(b), ~ AllFilesWereProcessed
  PROVE  \E f \in Files : Active(f)
<1>1. GatesTypes /\ Shape(b)
  BY DEF GatesInv
<1>2. \A f \in Files : level[f] \in Int /\ MaxLevel(f) \in Nat \ {0} /\ f \in Nat
  <2>. TAKE f \in Files
  <2>1. MaxLevel(f) = Len(b[f]) /\ Len(b[f]) \in Nat \ {0}
    BY <1>1, TableFacts, BatchFacts
  <2>2. level[f] \in Int /\ f \in Nat
    BY <1>1 DEF GatesTypes, Files
  <2>. QED BY <2>1, <2>2
<1>. DEFINE S == {f \in Files : level[f] < MaxLevel(f)}
<1>3. S # {}
  BY <1>2 DEF AllFilesWereProcessed
<1>4. S \in SUBSET Nat
  BY <1>2
<1>5. PICK f \in S : \A g \in S : f <= g
  <2>. HIDE DEF S
  <2>. QED BY <1>3, <1>4, LeastNat
<1>6. f \in Files /\ f \in Nat /\ level[f] < MaxLevel(f) /\ level[f] \in Int
  BY <1>2
<1>7. CASE f = 0
  BY <1>1, <1>6, <1>7 DEF Shape, Active
<1>8. CASE f # 0
  <2>1. f - 1 \in Files /\ f - 1 < f /\ ~ (f <= f - 1)
    BY <1>6, <1>8, FilesAssumption DEF Files
  <2>2. level[f - 1] >= MaxLevel(f - 1)
    <3>1. f - 1 \notin S
      BY <1>5, <2>1
    <3>2. level[f - 1] \in Int /\ MaxLevel(f - 1) \in Nat
      BY <1>2, <2>1
    <3>. QED BY <2>1, <3>1, <3>2
  <2>3. level[f - 1] >= 1
    BY <1>2, <2>1, <2>2
  <2>4. level[f] = level[0] - f /\ level[f - 1] = level[0] - (f - 1) /\ level[0] \in Int
    BY <1>1, <1>6, <2>1, BatchFacts DEF Shape, GatesTypes
  <2>5. level[f] >= 0
    BY <1>6, <2>3, <2>4
  <2>. QED BY <1>6, <2>5 DEF Active
<1>. QED BY <1>7, <1>8

(* No round of the pipeline waits for nobody: whatever the lengths of the
   circuits, a round that begins has a file at one of its levels, so files that
   are done leave no gap before those that still have to begin. *)
THEOREM EveryRoundHasWork == Spec => []EveryRoundWorks
<1>1. Init => EveryRoundWorks
  BY DEF Init, EveryRoundWorks
<1>2. ASSUME NEW b \in Batches, GatesInv(b), EveryRoundWorks, [Next]_vars
      PROVE  EveryRoundWorks'
  <2>1. CASE StartRound
    <3>1. UNCHANGED <<table, level>> /\ \E f \in Files : Active(f)
      BY <1>2, <2>1, WorkIsLeft DEF StartRound
    <3>. QED BY <3>1 DEF EveryRoundWorks, Active, MaxLevel
  <2>2. CASE UNCHANGED <<table, level>> /\ (gpc' = "send" => gpc = "send")
    BY <1>2, <2>2 DEF EveryRoundWorks, Active, MaxLevel
  <2>3. CASE GatesStep /\ ~ StartRound
    <3>1. gpc' = "send" => UNCHANGED <<table, level>> /\ gpc = "send"
      <4>1. SendJob \/ Select \/ StopListening \/ Skip \/ ReadCur \/ ReadGate \/ ReadFails
              \/ Save \/ Reap \/ EndRound \/ Finish
        BY <2>3 DEF GatesStep
      <4>. QED BY <4>1 DEF SendJob, Select, StopListening, Skip, Serving, ReadCur, ReadGate,
                           ReadFails, Save, Reap, EndRound, Finish
    <3>2. CASE gpc' = "send"
      BY <2>2, <3>1, <3>2
    <3>3. CASE gpc' # "send"
      BY <3>3 DEF EveryRoundWorks
    <3>. QED BY <3>2, <3>3
  <2>4. CASE SelectTimesOut
    BY <2>2, <2>4 DEF SelectTimesOut
  <2>5. CASE \E f \in Files : LevelsStep(f) \/ Crash(f)
    BY <2>2, <2>5 DEF LevelsStep, Evaluate, Answer, Crash, gatesVars
  <2>6. CASE UNCHANGED vars
    BY <2>2, <2>6 DEF vars, gatesVars
  <2>. QED BY <1>2, <2>1, <2>3, <2>4, <2>5, <2>6 DEF Next, Ended
<1>3. GInv /\ EveryRoundWorks /\ [Next]_vars => EveryRoundWorks'
  BY <1>2 DEF GInv
<1>. QED BY <1>1, <1>3, GatesAlways, PTL DEF Spec

(* As long as no child dies and none is slow, every file gates writes is the
   complete and right solution of the circuit that came in that file: for every
   number of files, every length of circuit and every order in which children
   evaluate, answer and are read, each output is the value its gate has by the
   meaning of the circuit. *)
THEOREM ResultsAreRight == Spec => []SavedIsRight
<1>1. ASSUME NEW b \in Batches, GatesInv(b), faults = 0, NEW f \in Files
      PROVE  /\ Form(table[f]) = Form(b[f])
             /\ \A s \in DOMAIN saved[f] :
                  /\ Form(saved[f][s]) = Form(b[f])
                  /\ \A k \in DOMAIN saved[f][s] : Solved(saved[f][s], k, b[f])
  <2>1. Shape(b) /\ Forms(b) /\ Savings(b)
    BY <1>1 DEF GatesInv
  <2>2. Form(table[f]) = Form(b[f])
    <3>1. DOMAIN table[f] = DOMAIN b[f] /\ \A k \in DOMAIN b[f] : DOMAIN table[f][k] = DOMAIN b[f][k]
      BY <2>1 DEF Shape
    <3>2. \A k \in DOMAIN b[f] : \A m \in DOMAIN b[f][k] :
            /\ table[f][k][m].name = b[f][k][m].name
            /\ table[f][k][m].type = b[f][k][m].type
            /\ table[f][k][m].fathers = b[f][k][m].fathers
      BY <1>1, <2>1 DEF Forms
    <3>. QED BY <3>1, <3>2 DEF Form
  <2>3. ASSUME NEW s \in DOMAIN saved[f]
        PROVE  /\ Form(saved[f][s]) = Form(b[f])
               /\ \A k \in DOMAIN saved[f][s] : Solved(saved[f][s], k, b[f])
    <3>. DEFINE c == saved[f][s]
    <3>1. DOMAIN c = DOMAIN b[f] /\ \A k \in DOMAIN b[f] : DOMAIN c[k] = DOMAIN b[f][k]
      BY <1>1, <2>1 DEF Savings
    <3>2. \A k \in DOMAIN b[f] : \A m \in DOMAIN b[f][k] : RightGate(b[f], k, m, c[k][m])
      BY <1>1, <2>1 DEF Savings
    <3>. HIDE DEF c
    <3>3. Form(c) = Form(b[f])
      BY <3>1, <3>2 DEF Form, RightGate
    <3>4. Meaning[b[f]] = Value(b[f])
      <4>1. b[f] \in Circuits
        BY DEF Circuits
      <4>. QED BY <4>1 DEF Meaning
    <3>5. ASSUME NEW k \in DOMAIN c PROVE Solved(c, k, b[f])
      <4>1. \A m \in DOMAIN c[k] :
              /\ c[k][m].name = b[f][k][m].name
              /\ c[k][m].output = BitOf(Value(b[f])[k][b[f][k][m].name])
        BY <3>1, <3>2 DEF RightGate
      <4>. QED BY <3>4, <4>1 DEF Solved, BitOf
    <3>. QED BY <3>3, <3>5 DEF c
  <2>. QED BY <2>2, <2>3
<1>2. GInv => SavedIsRight
  BY <1>1 DEF GInv, SavedIsRight
<1>. QED BY <1>2, GatesAlways, PTL

-----------------------------------------------------------------------------
(***************************************************************************)
(* Who waits for whom.                                                     *)
(***************************************************************************)
\* A child that has not read its level is of a file in the round, and when gates
\* has passed it, its level is in its pipe.
Sent ==
  /\ gpc \notin {"round", "end"} => \A f \in Files : cpc[f] = "job" => Active(f)
  /\ gpc = "send" => \A f \in Files : f < i /\ cpc[f] = "job" => job[f] # NoJob
  /\ gpc \notin {"round", "send", "end"} => \A f \in Files : cpc[f] = "job" => job[f] # NoJob

\* gates has something to do beside waiting, be it for a select to time out.
GatesCanGo ==
  \/ gpc \in {"round", "send", "save"}
  \/ gpc = "listen" /\ (left = 0 \/ \E f \in Files : Readable(f))
  \/ gpc = "scan" /\ (Serving => up[i] # <<>> \/ AllGone)
  \/ gpc = "rows" /\ (up[i] # <<>> \/ AllGone)
  \/ gpc = "reap" /\ (Active(i) => Cardinality({f \in Files : Active(f) /\ ~ Alive(f)})
                                     >= Cardinality({f \in 0 .. i : Active(f)}))

LevelsCanGo(f) == cpc[f] = "answer" \/ (cpc[f] = "job" /\ job[f] # NoJob)

NoRoundHangs == gpc = "end" \/ GatesCanGo \/ \E f \in Files : LevelsCanGo(f)

LEMMA SameActive ==
  ASSUME NEW b \in Batches, GatesInv(b), GatesInv(b)', UNCHANGED level
  PROVE  \A f \in Files : Active(f)' <=> Active(f)
<1>1. \A f \in Files : MaxLevel(f) = Len(b[f])
  BY TableFacts DEF GatesInv
<1>2. \A f \in Files : MaxLevel(f)' = Len(b[f])
  <2>1. GatesTypes' /\ Shape(b)'
    BY DEF GatesInv
  <2>2. \A f \in Files : table'[f] \in Seq(Seq(Gate)) /\ DOMAIN table'[f] = DOMAIN b[f]
    BY <2>1 DEF GatesTypes, Shape, Circuit
  <2>3. \A f \in Files : Len(table'[f]) = Len(b[f])
    BY <2>2, BatchFacts
  <2>. QED BY <2>3 DEF MaxLevel
<1>. QED BY <1>1, <1>2 DEF Active

\* A level that is sent is not empty.
LEMMA JobIsSomething ==
  ASSUME NEW b \in Batches, GatesInv(b), NEW f \in Files, Active(f)
  PROVE  JobOf(f) # NoJob
<1>1. Here(f) \in DOMAIN b[f] /\ table[f][Here(f)] \in Seq(Gate)
      /\ Len(table[f][Here(f)]) = Len(b[f][Here(f)])
  BY TableFacts DEF GatesInv
<1>2. Len(table[f][Here(f)]) \in Nat \ {0}
  BY <1>1, BatchFacts
<1>3. JobOf(f).cur = table[f][Here(f)] /\ NoJob.cur = <<>>
  BY DEF JobOf, NoJob, Here
<1>. QED BY <1>2, <1>3

LEMMA SentStep ==
  ASSUME NEW b \in Batches, GatesInv(b), GatesInv(b)', Sent, [Next]_vars
  PROVE  Sent'
<1>0. /\ GatesTypes /\ Files \subseteq Nat /\ QtyFiles \in Nat \ {0}
      /\ cpc \in [Files -> {"none", "job", "answer", "exit", "dead"}] /\ job \in [Files -> Jobs]
      /\ i \in 0 .. QtyFiles
  <2>1. GatesTypes
    BY DEF GatesInv
  <2>2. Files \subseteq Nat
    BY FilesAssumption DEF Files
  <2>. QED BY <2>1, <2>2, FilesAssumption DEF GatesTypes
<1>1. CASE StartRound
  <2>1. /\ UNCHANGED level /\ gpc' = "send" /\ i' = 0
        /\ cpc' = [f \in Files |-> IF Active(f) THEN "job" ELSE "none"]
    BY <1>1 DEF StartRound
  <2>2. \A f \in Files : ~ (f < 0)
    BY <1>0
  <2>. QED BY <2>1, <2>2, SameActive DEF Sent
<1>2. CASE SendJob
  <2>1. UNCHANGED <<level, cpc>> /\ gpc = "send" /\ \A f \in Files : cpc[f] = "job" => Active(f)
    BY <1>2 DEF SendJob, Sent
  <2>2. \A f \in Files : cpc'[f] = "job" => Active(f)'
    BY <2>1, SameActive
  <2>3. CASE i = QtyFiles
    <3>1. gpc' = "listen" /\ UNCHANGED job
      BY <1>2, <2>3 DEF SendJob
    <3>2. \A f \in Files : f < i
      BY <2>3, <1>0 DEF Files
    <3>. QED BY <2>1, <2>2, <3>1, <3>2 DEF Sent
  <2>4. CASE i # QtyFiles
    <3>1. i \in Files /\ \A f \in Files : f < i + 1 => f < i \/ f = i
      BY <1>0, <2>4 DEF Files
    <3>2. CASE ~ Active(i)
      <4>1. gpc' = gpc /\ i' = i + 1 /\ UNCHANGED job
        BY <1>2, <2>4, <3>2 DEF SendJob
      <4>. QED BY <2>1, <2>2, <3>1, <3>2, <4>1 DEF Sent
    <3>3. CASE Active(i) /\ ~ AllGone
      <4>1. gpc' = gpc /\ i' = i + 1 /\ job' = [job EXCEPT ![i] = JobOf(i)]
        BY <1>2, <2>4, <3>3 DEF SendJob
      <4>2. JobOf(i) # NoJob
        BY <3>1, <3>3, JobIsSomething
      <4>3. \A f \in Files : f < i' /\ cpc'[f] = "job" => job'[f] # NoJob
        BY <1>0, <2>1, <3>1, <4>1, <4>2 DEF Sent
      <4>. QED BY <2>1, <2>2, <4>1, <4>3 DEF Sent
    <3>4. CASE Active(i) /\ AllGone
      BY <1>2, <2>4, <3>4 DEF SendJob, Sent
    <3>. QED BY <3>2, <3>3, <3>4
  <2>. QED BY <2>3, <2>4
<1>3. ASSUME UNCHANGED <<level, cpc, job>>, gpc \notin {"round", "send", "end"}, gpc' # "send"
      PROVE  Sent'
  BY <1>3, SameActive DEF Sent
<1>4. CASE Select \/ StopListening \/ SelectTimesOut \/ Skip \/ ReadCur \/ ReadGate \/ ReadFails \/ Save \/ Reap
  BY <1>3, <1>4 DEF Select, StopListening, SelectTimesOut, Skip, Serving, ReadCur, ReadGate, ReadFails,
     Save, Reap, childVars
<1>5. CASE EndRound \/ Finish
  BY <1>5 DEF EndRound, Finish, Sent
<1>6. ASSUME NEW f \in Files, Evaluate(f) \/ Answer(f) \/ Crash(f)
      PROVE  Sent'
  <2>1. UNCHANGED <<gatesVars, job>>
    BY <1>6 DEF Evaluate, Answer, Crash
  <2>2. \A g \in Files : cpc'[g] = "job" => cpc[g] = "job"
    BY <1>0, <1>6 DEF Evaluate, Answer, Crash
  <2>. QED BY <2>1, <2>2, SameActive DEF gatesVars, Sent
<1>7. CASE UNCHANGED vars
  BY <1>7, SameActive DEF vars, gatesVars, childVars, Sent
<1>. QED BY <1>1, <1>2, <1>4, <1>5, <1>6, <1>7 DEF Next, GatesStep, LevelsStep, Ended

(* When no child goes on, all have ended, but for some that wait for a level that
   gates is about to send: the data end, and there are enough to wait() for. *)
LEMMA GatesGoesOn ==
  ASSUME NEW b \in Batches, GatesInv(b), Sent
  PROVE  NoRoundHangs
<1>. SUFFICES ASSUME gpc # "end", \A f \in Files : ~ LevelsCanGo(f) PROVE GatesCanGo
  BY DEF NoRoundHangs
<1>0. /\ GatesTypes /\ Streams(b) /\ Loops(b)
      /\ gpc \in {"round", "send", "listen", "scan", "rows", "save", "reap", "end"}
  BY DEF GatesInv, GatesTypes
<1>1. CASE gpc \in {"round", "send", "save"}
  BY <1>1 DEF GatesCanGo
<1>2. ASSUME gpc \notin {"round", "send"} PROVE AllGone
  BY <1>2 DEF Sent, LevelsCanGo, AllGone, Alive
<1>3. CASE gpc = "listen"
  <2>1. ASSUME left # 0 PROVE \E f \in Files : Readable(f)
    <3>1. left = Cardinality(Unread)
      BY <1>0, <1>3, <2>1 DEF Loops, Listening
    <3>2. Unread # {}
      BY <2>1, <3>1, FS_EmptySet
    <3>3. PICK f \in Files : pid[f] = "unread"
      BY <3>2 DEF Unread
    <3>. QED BY <1>2, <1>3, <3>3 DEF Readable
  <2>. QED BY <1>3, <2>1 DEF GatesCanGo
<1>4. CASE gpc \in {"scan", "rows"}
  BY <1>2, <1>4 DEF GatesCanGo
<1>5. CASE gpc = "reap"
  <2>. DEFINE Gone == {f \in Files : Active(f) /\ ~ Alive(f)}
              Owed == {f \in 0 .. i : Active(f)}
  <2>1. i \in Files /\ 0 .. i \subseteq Files
    <3>1. i \in Files
      BY <1>0, <1>5 DEF Loops
    <3>. QED BY <3>1, FilesAssumption DEF Files
  <2>2. Owed \subseteq Gone
    BY <1>2, <1>5, <2>1 DEF AllGone
  <2>3. IsFiniteSet(Gone)
    BY BatchFacts, FS_Subset
  <2>4. Cardinality(Owed) <= Cardinality(Gone)
    <3>. HIDE DEF Gone, Owed
    <3>. QED BY <2>2, <2>3, FS_Subset
  <2>5. Cardinality(Owed) \in Nat /\ Cardinality(Gone) \in Nat
    BY <2>2, <2>3, FS_Subset, FS_CardinalityType
  <2>. QED BY <1>5, <2>4, <2>5 DEF GatesCanGo
<1>. QED BY <1>0, <1>1, <1>3, <1>4, <1>5

(* Whichever children die, and whichever selects give up, gates and its children
   never all wait for each other: until gates has ended, either a child can read its
   level or send a part of it, or gates can go on, be it because the data have ended
   or because enough children have for its wait(). *)
THEOREM GatesNeverHangs == Spec => []NoRoundHangs
<1>. DEFINE Always == \E b \in Batches : GatesInv(b) /\ Sent
<1>1. Init => Always
  <2>1. Init => table \in Batches /\ Sent
    BY DEF Init, Sent
  <2>. QED BY <2>1, GatesInit
<1>2. Always /\ [Next]_vars => Always'
  <2>1. ASSUME NEW b \in Batches, GatesInv(b), Sent, [Next]_vars PROVE GatesInv(b)' /\ Sent'
    BY <2>1, GatesInductive, SentStep
  <2>. QED BY <2>1
<1>3. Always => NoRoundHangs
  BY GatesGoesOn
<1>. QED BY <1>1, <1>2, <1>3, PTL DEF Spec

-----------------------------------------------------------------------------
(***************************************************************************)
(* The pipeline implements Solving.                                        *)
(***************************************************************************)
\* A file has been written from the round of its last level on.
Passed(f) ==
  \/ level[f] >= MaxLevel(f)
  \/ level[f] = MaxLevel(f) - 1 /\ ((gpc = "save" /\ f < i) \/ (gpc = "reap" /\ f <= i))

\* Each file is written once, also when something fails.
Written == \A f \in Files : Len(saved[f]) = IF Passed(f) THEN 1 ELSE 0

\* The levels of f that are solved in table.
SolvedOnes(f) == {k \in DOMAIN table[f] : Solved(table[f], k, TheBatch[f])}

\* Those are, by the invariant, the levels f has been at, and the one at which
\* it is when every gate of it has come.
Behind(b, f) ==
  {k \in DOMAIN b[f] : \/ k <= level[f]
                       \/ k = Here(f) /\ \A m \in DOMAIN b[f][k] : Received(f, m)}

LEMMA TheBatchIs ==
  ASSUME NEW b \in Batches, Shape(b), Forms(b), faults = 0
  PROVE  TheBatch = b
<1>1. ASSUME NEW f \in Files PROVE Form(table[f]) = Form(b[f])
  <2>1. DOMAIN table[f] = DOMAIN b[f] /\ \A k \in DOMAIN b[f] : DOMAIN table[f][k] = DOMAIN b[f][k]
    BY DEF Shape
  <2>2. \A k \in DOMAIN b[f] : \A m \in DOMAIN b[f][k] :
          /\ table[f][k][m].name = b[f][k][m].name
          /\ table[f][k][m].type = b[f][k][m].type
          /\ table[f][k][m].fathers = b[f][k][m].fathers
    BY DEF Forms
  <2>. QED BY <2>1, <2>2 DEF Form
<1>2. \A d \in Batches : (\A f \in Files : Form(table[f]) = Form(d[f])) => d = b
  BY <1>1, FormsAssumption
<1>. QED BY <1>1, <1>2 DEF TheBatch

LEMMA SolvedWhenBehind ==
  ASSUME NEW b \in Batches, GatesInv(b), faults = 0, gpc # "end", NEW f \in Files
  PROVE  SolvedOnes(f) = Behind(b, f)
<1>1. GatesTypes /\ Shape(b) /\ Cells(b) /\ Forms(b) /\ TheBatch = b
  BY TheBatchIs DEF GatesInv
<1>2. DOMAIN table[f] = DOMAIN b[f] /\ \A k \in DOMAIN b[f] : DOMAIN table[f][k] = DOMAIN b[f][k]
  BY <1>1 DEF Shape
<1>3. b[f] \in Circuit /\ Meaningful(b[f]) /\ Meaning[b[f]] = Value(b[f])
  <2>1. b[f] \in Circuits
    BY DEF Circuits
  <2>. QED BY <2>1, BatchFacts DEF Meaning
<1>. SUFFICES ASSUME NEW k \in DOMAIN b[f]
              PROVE  Solved(table[f], k, b[f])
                     <=> (k <= level[f] \/ (k = Here(f) /\ \A m \in DOMAIN b[f][k] : Received(f, m)))
  BY <1>1, <1>2 DEF SolvedOnes, Behind
<1>4. ASSUME NEW m \in DOMAIN b[f][k]
      PROVE  IF k <= level[f] \/ (k = Here(f) /\ Received(f, m))
             THEN RightGate(b[f], k, m, table[f][k][m])
             ELSE table[f][k][m] = b[f][k][m]
  BY <1>1 DEF Cells
<1>5. CASE k <= level[f] \/ (k = Here(f) /\ \A m \in DOMAIN b[f][k] : Received(f, m))
  <2>1. \A m \in DOMAIN b[f][k] : RightGate(b[f], k, m, table[f][k][m])
    BY <1>4, <1>5
  <2>2. \A m \in DOMAIN table[f][k] :
          /\ table[f][k][m].name = b[f][k][m].name
          /\ table[f][k][m].output = BitOf(Value(b[f])[k][b[f][k][m].name])
    BY <1>2, <2>1 DEF RightGate
  <2>3. Solved(table[f], k, b[f])
    BY <1>3, <2>2 DEF Solved, BitOf
  <2>. QED BY <1>5, <2>3
<1>6. CASE ~ (k <= level[f] \/ (k = Here(f) /\ \A m \in DOMAIN b[f][k] : Received(f, m)))
  <2>1. PICK m \in DOMAIN b[f][k] : ~ (k = Here(f) /\ Received(f, m))
    <3>1. 1 \in DOMAIN b[f][k]
      BY BatchFacts
    <3>. QED BY <1>6, <3>1
  <2>2. table[f][k][m] = b[f][k][m]
    BY <1>4, <1>6, <2>1
  <2>3. table[f][k][m].output = -1
    BY <1>3, <2>2 DEF Meaningful, Unknown
  <2>4. m \in DOMAIN table[f][k] /\ \A p : (IF p THEN 1 ELSE 0) # -1
    BY <1>2
  <2>5. ~ Solved(table[f], k, b[f])
    BY <2>3, <2>4 DEF Solved
  <2>. QED BY <1>6, <2>5
<1>. QED BY <1>5, <1>6

\* The same, after a step.
LEMMA SolvedWhenBehindNext ==
  ASSUME NEW b \in Batches, NEW f \in Files
  PROVE  (GatesInv(b) /\ faults = 0 /\ gpc # "end" => SolvedOnes(f) = Behind(b, f))'
<1>1. GatesInv(b) /\ faults = 0 /\ gpc # "end" => SolvedOnes(f) = Behind(b, f)
  BY SolvedWhenBehind
<1>. QED BY <1>1, PTL

LEMMA TheBatchStays ==
  ASSUME NEW b \in Batches
  PROVE  (Shape(b) /\ Forms(b) /\ faults = 0 => TheBatch = b)'
<1>1. Shape(b) /\ Forms(b) /\ faults = 0 => TheBatch = b
  BY TheBatchIs
<1>. QED BY <1>1, PTL

LEMMA DepthStays ==
  ASSUME NEW b \in Batches, NEW f \in Files
  PROVE  (GatesInv(b) => MaxLevel(f) = Len(b[f]))'
<1>1. GatesInv(b) => MaxLevel(f) = Len(b[f])
  BY TableFacts DEF GatesInv
<1>. QED BY <1>1, PTL

LEMMA WrittenFirst == ASSUME Init PROVE Written
<1>1. GatesInv(table) /\ table \in Batches
  BY GatesInit DEF Init
<1>2. ASSUME NEW f \in Files PROVE Len(saved[f]) = IF Passed(f) THEN 1 ELSE 0
  <2>1. level[f] = - f /\ gpc = "round" /\ saved[f] = <<>> /\ f \in Nat
    BY DEF Init, InitLevels, Files
  <2>2. MaxLevel(f) \in Nat \ {0}
    <3>1. MaxLevel(f) = Len(table[f]) /\ Len(table[f]) \in Nat \ {0}
      BY <1>1, TableFacts, BatchFacts DEF GatesInv
    <3>. QED BY <3>1
  <2>3. ~ Passed(f)
    BY <2>1, <2>2 DEF Passed
  <2>4. Len(<<>>) = 0
    OBVIOUS
  <2>. QED BY <2>1, <2>3, <2>4
<1>. QED BY <1>2 DEF Written

LEMMA WrittenStep ==
  ASSUME NEW b \in Batches, GatesInv(b), GatesInv(b)', Written, [Next]_vars
  PROVE  Written'
<1>0. GatesTypes /\ Shape(b) /\ Loops(b)
  BY DEF GatesInv
<1>1. \A f \in Files : /\ MaxLevel(f) = Len(b[f]) /\ MaxLevel(f)' = MaxLevel(f)
                       /\ Len(b[f]) \in Nat \ {0} /\ level[f] \in Int
  <2>. TAKE f \in Files
  <2>1. MaxLevel(f) = Len(b[f]) /\ MaxLevel(f)' = Len(b[f])
    BY <1>0, TableFacts, DepthStays
  <2>2. Len(b[f]) \in Nat \ {0} /\ level[f] \in Int
    BY <1>0, BatchFacts DEF GatesTypes
  <2>. QED BY <2>1, <2>2
<1>2. i \in Nat
  BY <1>0, BatchFacts DEF GatesTypes
<1>3. CASE Save
  <2>1. /\ gpc = "save" /\ gpc' = "reap" /\ i' = i /\ level' = level /\ i \in Files
        /\ saved' = IF level[i] = MaxLevel(i) - 1 THEN [saved EXCEPT ![i] = Append(@, table[i])] ELSE saved
    BY <1>2, <1>3, FilesAssumption DEF Save, Files
  <2>2. ASSUME NEW f \in Files, f # i PROVE Len(saved'[f]) = IF Passed(f)' THEN 1 ELSE 0
    <3>1. saved'[f] = saved[f]
      BY <1>0, <2>1, <2>2 DEF GatesTypes
    <3>2. f \in Nat
      BY DEF Files
    <3>3. f < i <=> f <= i
      BY <1>2, <2>2, <3>2
    <3>4. Passed(f)' <=> Passed(f)
      BY <1>1, <2>1, <3>3 DEF Passed
    <3>. QED BY <3>1, <3>4 DEF Written
  <2>3. Len(saved'[i]) = IF Passed(i)' THEN 1 ELSE 0
    <3>1. Len(saved[i]) = (IF Passed(i) THEN 1 ELSE 0) /\ ~ (i < i) /\ i <= i
      BY <1>2, <2>1 DEF Written
    <3>2. CASE level[i] = MaxLevel(i) - 1
      <4>1. Len(saved[i]) = 0
        BY <1>1, <2>1, <3>1, <3>2 DEF Passed
      <4>2. saved'[i] = Append(saved[i], table[i]) /\ saved[i] \in Seq(Circuit)
        BY <1>0, <2>1, <3>2 DEF GatesTypes
      <4>3. Len(saved'[i]) = Len(saved[i]) + 1
        BY <4>2
      <4>4. Passed(i)'
        BY <1>1, <2>1, <3>1, <3>2 DEF Passed
      <4>. QED BY <4>1, <4>3, <4>4
    <3>3. CASE level[i] # MaxLevel(i) - 1
      <4>1. saved' = saved
        BY <2>1, <3>3
      <4>2. Passed(i)' <=> Passed(i)
        BY <1>1, <2>1, <3>3 DEF Passed
      <4>. QED BY <2>1, <3>1, <4>1, <4>2
    <3>. QED BY <3>2, <3>3
  <2>. QED BY <2>1, <2>2, <2>3 DEF Written
<1>4. CASE Reap
  <2>1. gpc = "reap" /\ gpc' = "save" /\ i' = i + 1 /\ level' = level /\ saved' = saved
    BY <1>4 DEF Reap
  <2>2. ASSUME NEW f \in Files PROVE Passed(f)' <=> Passed(f)
    <3>1. f \in Nat
      BY DEF Files
    <3>2. f < i + 1 <=> f <= i
      BY <1>2, <3>1
    <3>. QED BY <1>1, <2>1, <3>2 DEF Passed
  <2>. QED BY <2>1, <2>2 DEF Written
<1>5. CASE EndRound
  <2>1. /\ gpc = "save" /\ i = QtyFiles /\ gpc' = "round" /\ saved' = saved
        /\ level' = [f \in Files |-> level[f] + 1]
    BY <1>5 DEF EndRound
  <2>2. ASSUME NEW f \in Files PROVE Passed(f)' <=> Passed(f)
    <3>1. f \in Nat /\ f < i /\ level'[f] = level[f] + 1
      BY <2>1, FilesAssumption DEF Files
    <3>2. level[f] + 1 >= MaxLevel(f) <=> (level[f] >= MaxLevel(f) \/ level[f] = MaxLevel(f) - 1)
      BY <1>1
    <3>3. Passed(f)' <=> level[f] + 1 >= MaxLevel(f)
      BY <1>1, <2>1, <3>1 DEF Passed
    <3>4. Passed(f) <=> (level[f] >= MaxLevel(f) \/ level[f] = MaxLevel(f) - 1)
      BY <2>1, <3>1 DEF Passed
    <3>. QED BY <3>2, <3>3, <3>4
  <2>. QED BY <2>1, <2>2 DEF Written
<1>6. CASE saved' = saved /\ level' = level /\ (gpc \notin {"save", "reap"} \/ UNCHANGED <<gpc, i>>)
                          /\ (gpc' \in {"save", "reap"} => (gpc' = "save" /\ i' = 0) \/ UNCHANGED <<gpc, i>>)
  <2>1. ASSUME NEW f \in Files PROVE Passed(f)' <=> Passed(f)
    <3>1. f \in Nat /\ ~ (f < 0)
      BY DEF Files
    <3>. QED BY <1>1, <1>6, <3>1 DEF Passed
  <2>. QED BY <1>6, <2>1 DEF Written
<1>7. CASE StartRound \/ SendJob \/ Select \/ StopListening \/ SelectTimesOut \/ Skip \/ ReadCur
             \/ ReadGate \/ ReadFails \/ Finish
  BY <1>6, <1>7 DEF StartRound, SendJob, Select, StopListening, SelectTimesOut, Skip, Serving, ReadCur,
                    ReadGate, ReadFails, Finish
<1>8. CASE (\E f \in Files : LevelsStep(f) \/ Crash(f)) \/ UNCHANGED vars
  BY <1>6, <1>8 DEF LevelsStep, Evaluate, Answer, Crash, vars, gatesVars
<1>. QED BY <1>3, <1>4, <1>5, <1>7, <1>8 DEF Next, GatesStep, Ended

\* A step that changes neither a table nor what is written is not seen.
LEMMA NothingSeen ==
  ASSUME UNCHANGED <<table, saved>>
  PROVE  UNCHANGED TheSolving!svars
<1>1. \A f \in Files : MaxLevel(f)' = MaxLevel(f) /\ Len(saved[f])' = Len(saved[f])
  BY DEF MaxLevel
<1>2. TheBatch' = TheBatch
  BY DEF TheBatch
<1>3. \A f \in Files : SolvedLevels(f)' = SolvedLevels(f)
  BY <1>2 DEF SolvedLevels, Solved
<1>. QED BY <1>1, <1>3 DEF TheSolving!svars

\* The gate that completes a level solves it; the others are not seen.
LEMMA GateSolves ==
  ASSUME NEW b \in Batches, GatesInv(b), GatesInv(b)', ReadGate, faults = 0
  PROVE  [TheSolving!Next]_TheSolving!svars
<1>0. GatesTypes /\ Shape(b) /\ Loops(b) /\ Forms(b) /\ Shape(b)' /\ Forms(b)'
  BY DEF GatesInv
<1>1. /\ gpc = "rows" /\ up[i] # <<>> /\ UNCHANGED <<level, saved, faults>>
      /\ IF row < Len(table[cur[1]][cur[2] + 1])
         THEN row' = row + 1 /\ UNCHANGED <<gpc, i, pid>>
         ELSE IF left' = 0 THEN gpc' = "listen" /\ UNCHANGED <<i, pid>>
              ELSE gpc' = "scan" /\ i' = i + 1 /\ pid' = [pid EXCEPT ![i] = "read"]
  BY DEF ReadGate
<1>. PICK f \in Files : f = i
  BY <1>1, NextGate
<1>. DEFINE h == level[f] + 1
            len == Len(b[f][h])
<1>2. /\ Here(f) = h /\ h \in DOMAIN b[f] /\ row \in DOMAIN b[f][h] /\ pid[f] = "unread"
      /\ len \in Nat \ {0} /\ DOMAIN b[f][h] = 1 .. len /\ DOMAIN b[f] = 1 .. Len(b[f])
      /\ Len(table[cur[1]][cur[2] + 1]) = len /\ level[f] \in Int /\ Len(b[f]) \in Nat
  <2>1. Here(f) = h /\ h \in DOMAIN b[f] /\ row \in DOMAIN b[f][h] /\ cur[1] = f /\ cur[2] + 1 = h
    BY <1>1, NextGate DEF Here
  <2>2. pid[f] = "unread"
    BY <1>0, <1>1 DEF Loops
  <2>3. len \in Nat \ {0} /\ DOMAIN b[f][h] = 1 .. len /\ DOMAIN b[f] = 1 .. Len(b[f]) /\ Len(b[f]) \in Nat
    BY <2>1, BatchFacts
  <2>4. Len(table[f][h]) = len
    BY <1>0, <2>1, TableFacts
  <2>. QED BY <1>0, <2>1, <2>2, <2>3, <2>4 DEF GatesTypes
<1>3. TheBatch = b /\ TheBatch' = b
  BY <1>0, <1>1, TheBatchIs, TheBatchStays
<1>4. \A g \in Files : MaxLevel(g)' = MaxLevel(g)
  BY <1>0, TableFacts, DepthStays
<1>5. \A g \in Files \ {f} : SolvedLevels(g)' = SolvedLevels(g)
  <2>1. \A g \in Files \ {f} : table'[g] = table[g]
    BY ReadGateTable
  <2>. QED BY <1>3, <2>1 DEF SolvedLevels, Solved
<1>6. SolvedOnes(f) = 1 .. level[f]
  <2>1. ~ Received(f, row)
    BY <1>1, <1>2 DEF Received
  <2>2. Behind(b, f) = 1 .. level[f]
    BY <1>2, <2>1 DEF Behind
  <2>. QED BY <1>1, <2>2, SolvedWhenBehind
<1>7. SolvedOnes(f)' = Behind(b, f)'
  BY <1>1, SolvedWhenBehindNext
<1>8. Here(f)' = h
  BY <1>1, <1>2 DEF Here
<1>9. SolvedLevels(f) = Cardinality(SolvedOnes(f)) /\ SolvedLevels(f)' = Cardinality(SolvedOnes(f)')
  BY DEF SolvedLevels, SolvedOnes
<1>10. level[f] \in Nat /\ level[f] + 1 <= Len(b[f])
  BY <1>2
<1>11. SolvedLevels(f) = level[f]
  <2>. DEFINE n == level[f]
  <2>0. n \in Int /\ 1 \in Int
    BY <1>2
  <2>1. Cardinality(1 .. n) = IF 1 > n THEN 0 ELSE n - 1 + 1
    <3>. HIDE DEF n
    <3>. QED BY <2>0, FS_Interval
  <2>2. Cardinality(1 .. level[f]) = level[f]
    BY <1>10, <2>1
  <2>. QED BY <1>6, <1>9, <2>2
<1>12. CASE row < len
  <2>1. row' = row + 1 /\ gpc' = "rows" /\ i' = f /\ pid' = pid
    BY <1>1, <1>2, <1>12
  <2>2. PICK m \in DOMAIN b[f][h] : ~ (m < row')
    <3>1. row + 1 \in DOMAIN b[f][h] /\ ~ (row + 1 < row')
      BY <1>2, <1>12, <2>1
    <3>. QED BY <3>1
  <2>3. ~ Received(f, m)'
    BY <1>2, <2>1, <2>2 DEF Received
  <2>4. Behind(b, f)' = 1 .. level[f]
    <3>1. ASSUME NEW k \in DOMAIN b[f]
          PROVE  ~ (k = Here(f)' /\ \A n \in DOMAIN b[f][k] : Received(f, n)')
      BY <1>8, <2>2, <2>3
    <3>2. Behind(b, f)' = {k \in DOMAIN b[f] : k <= level[f]}
      BY <1>1, <3>1 DEF Behind
    <3>. QED BY <1>2, <3>2
  <2>5. SolvedLevels(f)' = SolvedLevels(f)
    BY <1>6, <1>7, <1>9, <2>4
  <2>6. \A g \in Files : SolvedLevels(g)' = SolvedLevels(g)
    BY <1>5, <2>5
  <2>. QED BY <1>1, <1>4, <2>6 DEF TheSolving!svars
<1>13. CASE ~ (row < len)
  <2>1. \A m : Received(f, m)'
    BY <1>0, <1>1, <1>2, <1>13 DEF Received, GatesTypes
  <2>2. Behind(b, f)' = 1 .. level[f] + 1
    BY <1>1, <1>2, <1>8, <1>10, <2>1 DEF Behind
  <2>3. SolvedLevels(f)' = level[f] + 1
    <3>1. Cardinality(1 .. level[f] + 1) = IF 1 > level[f] + 1 THEN 0 ELSE level[f] + 1 - 1 + 1
      BY <1>10, FS_Interval
    <3>2. Cardinality(1 .. level[f] + 1) = level[f] + 1
      BY <1>10, <3>1
    <3>. QED BY <1>7, <1>9, <2>2, <3>2
  <2>. DEFINE levelsSolved == [g \in Files |-> SolvedLevels(g)]
              depth == [g \in Files |-> MaxLevel(g)]
  <2>4. levelsSolved[f] < depth[f]
    <3>1. MaxLevel(f) = Len(b[f])
      BY <1>0, TableFacts
    <3>. QED BY <1>2, <1>10, <1>11, <3>1
  <2>5. levelsSolved' = [levelsSolved EXCEPT ![f] = @ + 1]
    BY <1>5, <1>11, <2>3
  <2>6. depth' = depth /\ [g \in Files |-> Len(saved[g])]' = [g \in Files |-> Len(saved[g])]
    BY <1>1, <1>4
  <2>7. TheSolving!Solve(f)
    BY <2>4, <2>5, <2>6 DEF TheSolving!Solve
  <2>. QED BY <2>7 DEF TheSolving!Next
<1>. QED BY <1>12, <1>13

\* Saving a file publishes its result; the other files are not seen.
LEMMA SavePublishes ==
  ASSUME NEW b \in Batches, GatesInv(b), Written, Save, faults = 0
  PROVE  [TheSolving!Next]_TheSolving!svars
<1>0. GatesTypes /\ Shape(b)
  BY DEF GatesInv
<1>1. /\ gpc = "save" /\ i < QtyFiles /\ table' = table
      /\ saved' = IF level[i] = MaxLevel(i) - 1 THEN [saved EXCEPT ![i] = Append(@, table[i])] ELSE saved
  BY DEF Save
<1>2. CASE level[i] # MaxLevel(i) - 1
  BY <1>1, <1>2, NothingSeen
<1>3. CASE level[i] = MaxLevel(i) - 1
  <2>. PICK f \in Files : f = i
    BY <1>0, <1>1, FilesAssumption DEF GatesTypes, Files
  <2>. DEFINE levelsSolved == [g \in Files |-> SolvedLevels(g)]
              depth == [g \in Files |-> MaxLevel(g)]
              published == [g \in Files |-> Len(saved[g])]
  <2>1. MaxLevel(f) = Len(b[f]) /\ Len(b[f]) \in Nat \ {0} /\ DOMAIN b[f] = 1 .. Len(b[f])
        /\ level[f] = Len(b[f]) - 1 /\ f \in Nat
    BY <1>0, <1>3, TableFacts, BatchFacts DEF Files
  <2>2. Behind(b, f) = 1 .. Len(b[f])
    <3>1. \A m : Received(f, m)
      BY <1>1 DEF Received
    <3>. QED BY <2>1, <3>1 DEF Behind, Here
  <2>3. SolvedLevels(f) = Len(b[f])
    <3>1. SolvedLevels(f) = Cardinality(1 .. Len(b[f]))
      BY <1>1, <2>2, SolvedWhenBehind DEF SolvedLevels, SolvedOnes
    <3>2. Cardinality(1 .. Len(b[f])) = IF 1 > Len(b[f]) THEN 0 ELSE Len(b[f]) - 1 + 1
      BY <2>1, FS_Interval
    <3>. QED BY <2>1, <3>1, <3>2
  <2>4. levelsSolved[f] = depth[f]
    BY <2>1, <2>3
  <2>5. published[f] = 0
    <3>1. ~ Passed(f)
      BY <1>1, <2>1 DEF Passed
    <3>. QED BY <3>1 DEF Written
  <2>6. published' = [published EXCEPT ![f] = 1]
    <3>1. saved'[f] = Append(saved[f], table[f]) /\ saved[f] \in Seq(Circuit)
          /\ \A g \in Files \ {f} : saved'[g] = saved[g]
      BY <1>0, <1>1, <1>3 DEF GatesTypes
    <3>2. Len(saved'[f]) = Len(saved[f]) + 1
      BY <3>1
    <3>3. Len(saved'[f]) = 1
      BY <2>5, <3>2
    <3>4. \A g \in Files : Len(saved'[g]) = IF g = f THEN 1 ELSE Len(saved[g])
      BY <3>1, <3>3
    <3>. QED BY <3>4
  <2>7. UNCHANGED <<depth, levelsSolved>>
    <3>1. TheBatch' = TheBatch
      BY <1>1 DEF TheBatch
    <3>2. \A g \in Files : SolvedLevels(g)' = SolvedLevels(g) /\ MaxLevel(g)' = MaxLevel(g)
      BY <1>1, <3>1 DEF SolvedLevels, Solved, MaxLevel
    <3>. QED BY <3>2
  <2>8. TheSolving!Publish(f)
    BY <2>4, <2>5, <2>6, <2>7 DEF TheSolving!Publish
  <2>. QED BY <2>8 DEF TheSolving!Next
<1>. QED BY <1>2, <1>3

LEMMA SolvingStarts == ASSUME Init PROVE TheSolving!Init
<1>1. table \in Batches /\ GatesInv(table) /\ faults = 0 /\ gpc = "round"
  BY GatesInit DEF Init
<1>2. GatesTypes /\ Shape(table)
  BY <1>1 DEF GatesInv
<1>3. ASSUME NEW f \in Files
      PROVE  MaxLevel(f) \in Nat \ {0} /\ SolvedLevels(f) = 0 /\ Len(saved[f]) = 0
  <2>1. MaxLevel(f) = Len(table[f]) /\ Len(table[f]) \in Nat \ {0} /\ DOMAIN table[f] = 1 .. Len(table[f])
    BY <1>1, <1>2, TableFacts, BatchFacts
  <2>2. level[f] = - f /\ f \in Nat /\ saved[f] = <<>>
    BY DEF Init, InitLevels, Files
  <2>3. Behind(table, f) = {}
    <3>1. \A m : ~ Received(f, m)
      BY <1>1 DEF Received
    <3>2. \A k \in DOMAIN table[f] : 1 \in DOMAIN table[f][k]
      BY <1>1, BatchFacts
    <3>. QED BY <2>1, <2>2, <3>1, <3>2 DEF Behind
  <2>4. SolvedLevels(f) = Cardinality(SolvedOnes(f))
    BY DEF SolvedLevels, SolvedOnes
  <2>5. SolvedLevels(f) = 0
    BY <1>1, <2>3, <2>4, SolvedWhenBehind, FS_EmptySet
  <2>6. Len(<<>>) = 0
    OBVIOUS
  <2>. QED BY <2>1, <2>2, <2>5, <2>6
<1>. QED BY <1>3 DEF TheSolving!Init

(* While no child dies and none is slow, the pipeline solves the circuits as
   Solving promises: every step of gates or of a child that can be seen solves
   one more level of one circuit, never twice the same and never out of order,
   or publishes, once, a circuit all of whose levels are solved. *)
THEOREM PipelineSolves == Spec => SolvingSpec
<1>1. Init => TheSolving!Init /\ Written
  BY SolvingStarts, WrittenFirst
<1>2. ASSUME NEW b \in Batches, GatesInv(b), Written, [Next]_vars, faults' = 0
      PROVE  [TheSolving!Next]_TheSolving!svars
  <2>1. GatesInv(b)'
    BY <1>2, GatesInductive
  <2>2. faults = 0
    <3>1. faults \in Nat /\ faults + 1 # 0
      BY <1>2, FaultAssumption DEF GatesInv, GatesTypes
    <3>2. faults' \in {faults, faults + 1}
      BY <1>2 DEF Next, GatesStep, StartRound, SendJob, Select, StopListening, SelectTimesOut, Skip, ReadCur,
                  ReadGate, ReadFails, Save, Reap, EndRound, Finish, LevelsStep, Evaluate, Answer, Crash,
                  Ended, vars
    <3>. QED BY <1>2, <3>1, <3>2
  <2>3. CASE ReadGate
    BY <1>2, <2>1, <2>2, <2>3, GateSolves
  <2>4. CASE Save
    BY <1>2, <2>2, <2>4, SavePublishes
  <2>5. CASE UNCHANGED <<table, saved>>
    BY <2>5, NothingSeen
  <2>6. ReadGate \/ Save \/ UNCHANGED <<table, saved>>
    BY <1>2 DEF Next, GatesStep, StartRound, SendJob, Select, StopListening, SelectTimesOut, Skip, ReadCur,
                ReadFails, Reap, EndRound, Finish, LevelsStep, Evaluate, Answer, Crash, Ended, vars, gatesVars
  <2>. QED BY <2>3, <2>4, <2>5, <2>6
<1>3. GInv /\ Written /\ [Next]_vars => Written'
  BY GatesInductive, WrittenStep DEF GInv
<1>4. GInv /\ Written /\ [Next]_vars => [faults' = 0 => TheSolving!Next]_(TheSolving!svars)
  BY <1>2 DEF GInv
<1>. QED BY <1>1, <1>3, <1>4, GatesAlways, PTL DEF Spec, SolvingSpec

-----------------------------------------------------------------------------
(***************************************************************************)
(* The nesting of the tags of a document.                                  *)
(***************************************************************************)
LEMMA DocumentFacts ==
  ASSUME NEW d, WellFormed(d)
  PROVE  /\ Len(d) \in Nat \ {0} /\ DOMAIN d = 1 .. Len(d) /\ Nested(d)
         /\ \A p \in DOMAIN d : /\ d[p] \in Tag /\ d[p].name \in Names /\ d[p].type \in Types
                                /\ d[p].input \in {0, 1, Unknown} \X {0, 1, Unknown}
                                /\ d[p].last \in Nat /\ p <= d[p].last /\ d[p].last <= Len(d)
         /\ \A p \in DOMAIN d : \A q \in p .. d[p].last : d[q].last <= d[p].last
<1>1. d \in Seq(Tag) /\ d # <<>> /\ Nested(d)
  BY DEF WellFormed
<1>2. Len(d) \in Nat \ {0} /\ DOMAIN d = 1 .. Len(d)
  BY <1>1
<1>3. ASSUME NEW p \in DOMAIN d
      PROVE  /\ d[p] \in Tag /\ d[p].name \in Names /\ d[p].type \in Types
             /\ d[p].input \in {0, 1, Unknown} \X {0, 1, Unknown}
             /\ d[p].last \in Nat /\ p <= d[p].last /\ d[p].last <= Len(d)
  <2>1. d[p] \in Tag
    BY <1>1
  <2>2. d[p].last \in p .. Len(d)
    BY <1>1 DEF Nested
  <2>. QED BY <1>2, <2>1, <2>2 DEF Tag
<1>. QED BY <1>1, <1>2, <1>3 DEF Nested

LEMMA AroundFacts ==
  ASSUME NEW d, WellFormed(d), NEW p \in DOMAIN d
  PROVE  /\ Around(d, p) \subseteq DOMAIN d /\ IsFiniteSet(Around(d, p))
         /\ Cardinality(Around(d, p)) \in Nat /\ Depth(d, p) \in Nat \ {0}
         /\ \A q \in Around(d, p) : Depth(d, q) < Depth(d, p)
<1>1. ASSUME NEW q \in DOMAIN d
      PROVE  /\ Around(d, q) \subseteq 1 .. q - 1 /\ IsFiniteSet(Around(d, q))
             /\ Cardinality(Around(d, q)) \in Nat
  <2>1. q \in Nat /\ 1 \in Int /\ q - 1 \in Int
    BY DocumentFacts
  <2>2. IsFiniteSet(1 .. q - 1)
    BY <2>1, FS_Interval
  <2>3. Around(d, q) \subseteq 1 .. q - 1
    BY DEF Around
  <2>. QED BY <2>2, <2>3, FS_Subset, FS_CardinalityType
<1>2. Around(d, p) \subseteq DOMAIN d
  BY <1>1, DocumentFacts
<1>3. ASSUME NEW q \in Around(d, p) PROVE Depth(d, q) < Depth(d, p)
  <2>1. q \in DOMAIN d /\ q < p /\ p <= d[q].last /\ q \in Nat /\ p \in Nat
    BY <1>2, DocumentFacts DEF Around
  <2>2. Around(d, q) \cup {q} \subseteq Around(d, p)
    <3>1. ASSUME NEW r \in Around(d, q) PROVE r \in Around(d, p)
      <4>1. r \in DOMAIN d /\ r < q /\ q <= d[r].last /\ r \in Nat
        BY <2>1, <1>1, DocumentFacts DEF Around
      <4>2. d[q].last <= d[r].last
        <5>1. q \in r .. d[r].last
          BY <2>1, <4>1, DocumentFacts
        <5>. QED BY <4>1, <5>1, DocumentFacts
      <4>3. r \in 1 .. p - 1 /\ p <= d[r].last
        BY <2>1, <4>1, <4>2, DocumentFacts
      <4>. QED BY <4>3 DEF Around
    <3>. QED BY <3>1
  <2>3. q \notin Around(d, q)
    BY <2>1, <1>1
  <2>4. /\ IsFiniteSet(Around(d, q) \cup {q})
        /\ Cardinality(Around(d, q) \cup {q}) = Cardinality(Around(d, q)) + 1
    BY <1>1, <2>1, <2>3, FS_AddElement
  <2>5. Cardinality(Around(d, q) \cup {q}) <= Cardinality(Around(d, p))
    BY <1>1, <2>2, FS_Subset
  <2>. QED BY <1>1, <2>1, <2>4, <2>5 DEF Depth
<1>. QED BY <1>1, <1>2, <1>3 DEF Depth

LEMMA DepthFits ==
  ASSUME NEW d, WellFormed(d), NEW p \in DOMAIN d
  PROVE  Depth(d, p) \in 1 .. MaxLevels /\ Depth(d, p) < MaxLevels
<1>1. Depth(d, p) < MaxLevels
  <2>1. Fits(d)
    BY DEF WellFormed
  <2>. QED BY <2>1 DEF Fits
<1>2. Depth(d, p) \in Nat \ {0}
  BY AroundFacts
<1>. QED BY <1>1, <1>2, MaxLevelsAssumption

\* How deep the tags inside f are; those inside no tag are at depth 1.
Outside(d, f) == IF f = 0 THEN 0 ELSE Depth(d, f)
NameAt(d, f) == IF f = 0 THEN NoName ELSE d[f].name

\* f is the innermost tag that p is inside of.
Innermost(d, p, f) ==
  /\ f \in 0 .. p - 1 /\ (f # 0 => p <= d[f].last)
  /\ \A q \in 1 .. p - 1 : p <= d[q].last => q <= f

LEMMA InnermostIs ==
  ASSUME NEW d, WellFormed(d), NEW p \in DOMAIN d, NEW f, Innermost(d, p, f)
  PROVE  Father(d, p) = f /\ Depth(d, p) = Outside(d, f) + 1
<1>1. p \in Nat /\ f \in Nat /\ f < p /\ (f # 0 => f \in DOMAIN d /\ f \in Around(d, p))
  BY DocumentFacts DEF Innermost, Around
<1>2. \A q \in Around(d, p) : q <= f /\ q \in Nat
  BY DEF Innermost, Around
<1>3. CASE f = 0
  <2>1. Around(d, p) = {}
    BY <1>2, <1>3 DEF Around
  <2>. QED BY <1>3, <2>1, FS_EmptySet DEF Father, Depth, Outside
<1>4. CASE f # 0
  <2>1. \A q \in Around(d, p) : (\A r \in Around(d, p) : r <= q) => q = f
    BY <1>1, <1>2, <1>4
  <2>2. Father(d, p) = f
    BY <1>1, <1>2, <1>4, <2>1 DEF Father
  <2>3. Around(d, p) = Around(d, f) \cup {f} /\ f \notin Around(d, f)
    <3>1. ASSUME NEW q \in Around(d, p), q # f PROVE q \in Around(d, f)
      <4>1. q < f /\ q \in 1 .. p - 1 /\ p <= d[q].last
        BY <1>1, <1>2, <3>1 DEF Around
      <4>. QED BY <1>1, <1>4, <4>1, DocumentFacts DEF Around
    <3>2. ASSUME NEW q \in Around(d, f) PROVE q \in Around(d, p)
      <4>1. q \in DOMAIN d /\ q \in Nat /\ q < f /\ f <= d[q].last
        BY <1>1, <1>4, DocumentFacts DEF Around
      <4>2. d[f].last <= d[q].last
        <5>1. f \in q .. d[q].last
          BY <1>1, <4>1, DocumentFacts
        <5>. QED BY <4>1, <5>1, DocumentFacts
      <4>3. p <= d[f].last
        BY <1>4 DEF Innermost
      <4>4. q \in 1 .. p - 1 /\ p <= d[q].last
        BY <1>1, <1>4, <4>1, <4>2, <4>3, DocumentFacts
      <4>. QED BY <4>4 DEF Around
    <3>3. f \notin Around(d, f)
      BY <1>1 DEF Around
    <3>. QED BY <1>1, <1>4, <3>1, <3>2, <3>3
  <2>4. Cardinality(Around(d, p)) = Cardinality(Around(d, f)) + 1
    BY <1>1, <1>4, <2>3, AroundFacts, FS_AddElement
  <2>. QED BY <1>1, <1>4, <2>2, <2>4, AroundFacts DEF Depth, Outside
<1>. QED BY <1>3, <1>4

LEMMA FatherFacts ==
  ASSUME NEW d, WellFormed(d), NEW p \in DOMAIN d
  PROVE  Innermost(d, p, Father(d, p)) /\ Depth(d, p) = Outside(d, Father(d, p)) + 1
<1>. DEFINE S == {0} \cup Around(d, p)
            T == {p - q : q \in S}
<1>1. p \in Nat /\ \A q \in S : q \in 0 .. p - 1
  BY DocumentFacts DEF Around
<1>2. T \in SUBSET Nat /\ T # {}
  BY <1>1
<1>3. PICK m \in T : \A k \in T : m <= k
  BY <1>2, LeastNat
<1>4. PICK f \in S : m = p - f
  BY <1>3
<1>5. \A q \in S : q <= f
  <2>. TAKE q \in S
  <2>1. p - q \in T
    OBVIOUS
  <2>2. p - f <= p - q /\ p - f \in Int
    BY <1>3, <1>4, <2>1, <1>1
  <2>. QED BY <1>1, <2>2
<1>6. Innermost(d, p, f)
  BY <1>1, <1>5 DEF Innermost, Around
<1>. QED BY <1>6, InnermostIs

-----------------------------------------------------------------------------
(***************************************************************************)
(* The calls of parseGatesTags.                                            *)
(***************************************************************************)
Within(d, c) == [father |-> d[c.from].name, from |-> c.from + 1, to |-> d[c.from].last,
                 level |-> c.level + 1]
After(d, c) == [c EXCEPT !.from = d[c.from].last + 1]
LoadOf(c) == [tag |-> c.from, father |-> c.father, level |-> c.level]

LoadsOf(d, v, c) == IF c.from > c.to THEN <<>>
                    ELSE v[Within(d, c)] \o <<LoadOf(c)>> \o v[After(d, c)]

AllTags(d) == [father |-> NoName, from |-> 1, to |-> Len(d), level |-> 1]

LEMMA CallFacts ==
  ASSUME NEW d, WellFormed(d), NEW c \in Calls(d)
  PROVE  /\ c.from \in 1 .. Len(d) + 1 /\ c.to \in 0 .. Len(d) /\ c.level \in Nat
         /\ c.father \in Names \cup {NoName}
         /\ c.from <= c.to =>
              /\ c.from \in DOMAIN d
              /\ Within(d, c) \in Calls(d) /\ Within(d, c).from = c.from + 1
              /\ Within(d, c).to = d[c.from].last
              /\ Within(d, c).father = d[c.from].name /\ Within(d, c).level = c.level + 1
              /\ After(d, c) \in Calls(d) /\ After(d, c).from = d[c.from].last + 1
              /\ After(d, c).to = c.to
              /\ After(d, c).father = c.father /\ After(d, c).level = c.level
<1>1. /\ c.from \in 1 .. Len(d) + 1 /\ c.to \in 0 .. Len(d) /\ c.level \in Nat
      /\ c.father \in Names \cup {NoName}
  BY DEF Calls
<1>2. ASSUME c.from <= c.to
      PROVE  /\ c.from \in DOMAIN d /\ d[c.from].last + 1 \in 1 .. Len(d) + 1
             /\ d[c.from].last \in 0 .. Len(d) /\ c.from + 1 \in 1 .. Len(d) + 1
             /\ d[c.from].name \in Names
  <2>1. c.from \in DOMAIN d
    BY <1>1, <1>2, DocumentFacts
  <2>. QED BY <1>1, <1>2, <2>1, DocumentFacts
<1>3. c.from <= c.to => Within(d, c) \in Calls(d)
  BY <1>1, <1>2 DEF Within, Calls
<1>4. c.from <= c.to => After(d, c) \in Calls(d) /\ After(d, c).from = d[c.from].last + 1
                        /\ After(d, c).to = c.to /\ After(d, c).father = c.father
                        /\ After(d, c).level = c.level
  BY <1>2 DEF After, Calls
<1>. QED BY <1>1, <1>2, <1>3, <1>4 DEF Within

\* The recursion comes to an end: each call begins after the one that makes it.
LEMMA LoadsExist ==
  ASSUME NEW d, WellFormed(d)
  PROVE  \E v : v = [c \in Calls(d) |-> LoadsOf(d, v, c)]
<1>. DEFINE N == Len(d) + 1
            Is(v, n) == \A c \in Calls(d) : N - c.from <= n => v[c] = LoadsOf(d, v, c)
            Good == {n \in Nat : \E v : v = [c \in Calls(d) |-> v[c]] /\ Is(v, n)}
<1>1. N \in Nat /\ \A c \in Calls(d) : N - c.from \in Nat /\ N - c.from <= N
  BY DocumentFacts, CallFacts
<1>2. 0 \in Good
  <2>. DEFINE v == [c \in Calls(d) |-> <<>>]
  <2>1. ASSUME NEW c \in Calls(d), N - c.from <= 0 PROVE v[c] = LoadsOf(d, v, c)
    <3>1. c.from > c.to
      BY <2>1, DocumentFacts, CallFacts
    <3>. QED BY <3>1 DEF LoadsOf
  <2>2. v = [c \in Calls(d) |-> v[c]]
    OBVIOUS
  <2>. HIDE DEF v
  <2>. QED BY <2>1, <2>2
<1>3. ASSUME NEW n \in Nat, n \in Good PROVE n + 1 \in Good
  <2>1. PICK v : v = [c \in Calls(d) |-> v[c]] /\ Is(v, n)
    BY <1>3
  <2>. DEFINE w == [c \in Calls(d) |-> IF N - c.from <= n THEN v[c] ELSE LoadsOf(d, v, c)]
  <2>2. ASSUME NEW c \in Calls(d), N - c.from <= n + 1 PROVE LoadsOf(d, w, c) = LoadsOf(d, v, c)
    <3>1. CASE c.from > c.to
      BY <3>1 DEF LoadsOf
    <3>2. CASE ~ (c.from > c.to)
      <4>1. /\ Within(d, c) \in Calls(d) /\ After(d, c) \in Calls(d)
            /\ N - Within(d, c).from <= n /\ N - After(d, c).from <= n
        <5>1. c.from <= c.to
          BY <3>2, CallFacts, DocumentFacts
        <5>2. /\ Within(d, c) \in Calls(d) /\ After(d, c) \in Calls(d) /\ c.from \in DOMAIN d
              /\ Within(d, c).from = c.from + 1 /\ After(d, c).from = d[c.from].last + 1
          BY <5>1, CallFacts
        <5>3. d[c.from].last \in Nat /\ c.from <= d[c.from].last /\ c.from \in Nat
          BY <5>2, DocumentFacts
        <5>. QED BY <1>1, <2>2, <5>2, <5>3
      <4>2. w[Within(d, c)] = v[Within(d, c)] /\ w[After(d, c)] = v[After(d, c)]
        BY <4>1
      <4>. HIDE DEF w
      <4>. QED BY <3>2, <4>2 DEF LoadsOf
    <3>. QED BY <3>1, <3>2
  <2>3. Is(w, n + 1)
    <3>. SUFFICES ASSUME NEW c \in Calls(d), N - c.from <= n + 1 PROVE w[c] = LoadsOf(d, w, c)
      OBVIOUS
    <3>1. w[c] = IF N - c.from <= n THEN v[c] ELSE LoadsOf(d, v, c)
      OBVIOUS
    <3>. HIDE DEF w
    <3>. QED BY <2>1, <2>2, <3>1
  <2>4. w = [c \in Calls(d) |-> w[c]]
    OBVIOUS
  <2>. HIDE DEF w, Is
  <2>. QED BY <2>3, <2>4
<1>. HIDE DEF Good
<1>4. N \in Good
  BY <1>1, <1>2, <1>3, SetInduction
<1>5. PICK v : v = [c \in Calls(d) |-> v[c]] /\ Is(v, N)
  BY <1>4 DEF Good
<1>6. \A c \in Calls(d) : v[c] = LoadsOf(d, v, c)
  BY <1>1, <1>5
<1>7. v = [c \in Calls(d) |-> LoadsOf(d, v, c)]
  BY <1>5, <1>6
<1>. QED BY <1>7

LEMMA ParseUnfolds ==
  ASSUME NEW d, WellFormed(d)
  PROVE  \E v : /\ ParseGatesTags(d) = v[AllTags(d)]
                /\ \A c \in Calls(d) : v[c] = LoadsOf(d, v, c)
<1>. DEFINE v == CHOOSE v : v = [c \in Calls(d) |-> LoadsOf(d, v, c)]
<1>1. v = [c \in Calls(d) |-> LoadsOf(d, v, c)]
  BY LoadsExist
<1>2. ParseGatesTags(d) = v[AllTags(d)]
  BY DEF ParseGatesTags, AllTags, LoadsOf, Within, After, LoadOf
<1>. HIDE DEF v
<1>3. \A c \in Calls(d) : v[c] = LoadsOf(d, v, c)
  BY <1>1
<1>. QED BY <1>2, <1>3

-----------------------------------------------------------------------------
(***************************************************************************)
(* What parseGatesTags loads: every tag once, with the name of the tag it  *)
(* is inside of and how deep it is.                                        *)
(***************************************************************************)
\* The tags from one to another are siblings inside f, with what is inside them.
Siblings(d, f, from, to) ==
  /\ f \in 0 .. from - 1
  /\ \A p \in from .. to : /\ d[p].last <= to
                           /\ f # 0 => p <= d[f].last
                           /\ \A q \in 1 .. from - 1 : p <= d[q].last => q <= f

LEMMA FirstSibling ==
  ASSUME NEW d, WellFormed(d), NEW from \in DOMAIN d, NEW to \in 0 .. Len(d), from <= to,
         NEW f, Siblings(d, f, from, to)
  PROVE  /\ Father(d, from) = f /\ Depth(d, from) = Outside(d, f) + 1
         /\ Siblings(d, from, from + 1, d[from].last)
         /\ Siblings(d, f, d[from].last + 1, to)
<1>1. from \in Nat /\ to \in Nat /\ from \in from .. to /\ Len(d) \in Nat /\ f \in 0 .. from - 1
  BY DocumentFacts DEF Siblings
<1>2. Innermost(d, from, f)
  BY <1>1 DEF Siblings, Innermost
<1>3. d[from].last \in Nat /\ from <= d[from].last /\ d[from].last <= to
  BY <1>1, DocumentFacts DEF Siblings
<1>4. Siblings(d, from, from + 1, d[from].last)
  <2>1. ASSUME NEW p \in from + 1 .. d[from].last
        PROVE  d[p].last <= d[from].last /\ p <= d[from].last
    <3>1. p \in from .. d[from].last
      BY <1>1
    <3>. QED BY <1>3, <2>1, <3>1, DocumentFacts
  <2>2. from \in 0 .. (from + 1) - 1 /\ \A q \in 1 .. (from + 1) - 1 : q <= from
    BY <1>1
  <2>. QED BY <2>1, <2>2 DEF Siblings
<1>5. Siblings(d, f, d[from].last + 1, to)
  <2>1. f \in 0 .. (d[from].last + 1) - 1
    BY <1>1, <1>3
  <2>2. ASSUME NEW p \in d[from].last + 1 .. to
        PROVE  /\ d[p].last <= to /\ (f # 0 => p <= d[f].last)
               /\ \A q \in 1 .. (d[from].last + 1) - 1 : p <= d[q].last => q <= f
    <3>1. p \in from .. to /\ p > d[from].last /\ p \in Nat
      BY <1>1, <1>3
    <3>2. ASSUME NEW q \in 1 .. (d[from].last + 1) - 1, p <= d[q].last PROVE q <= f
      <4>1. CASE q < from
        BY <1>1, <3>1, <3>2, <4>1 DEF Siblings
      <4>2. CASE q >= from
        <5>1. q \in from .. d[from].last /\ q \in DOMAIN d
          BY <1>1, <1>3, <4>2, DocumentFacts
        <5>2. d[q].last <= d[from].last /\ d[q].last \in Nat
          BY <5>1, DocumentFacts
        <5>. QED BY <1>3, <3>1, <3>2, <5>2
      <4>. QED BY <1>1, <1>3, <4>1, <4>2
    <3>. QED BY <3>1, <3>2 DEF Siblings
  <2>. QED BY <2>1, <2>2 DEF Siblings
<1>. QED BY <1>2, <1>4, <1>5, InnermostIs

\* A load of tag p, as it is to be.
RightLoad(d, l) ==
  /\ l.tag \in DOMAIN d /\ l.father = NameAt(d, Father(d, l.tag)) /\ l.level = Depth(d, l.tag)
  /\ l.father \in Names \cup {NoName} /\ l.level \in Nat

\* The loads of the tags from one to another: a tag is loaded before another that
\* comes after it in the text, but for those inside it.
Walk(d, s, from, to) ==
  /\ s \in Seq([tag : DOMAIN d, father : Names \cup {NoName}, level : Nat])
  /\ \A a \in DOMAIN s : s[a].tag \in from .. to /\ RightLoad(d, s[a])
  /\ \A p \in from .. to : \E a \in DOMAIN s : s[a].tag = p
  /\ \A a, b \in DOMAIN s : a < b => \/ s[a].tag < s[b].tag
                                     \/ s[b].tag < s[a].tag /\ s[a].tag <= d[s[b].tag].last

LEMMA ThreeParts ==
  ASSUME NEW R, NEW s \in Seq(R), NEW u \in Seq(R), NEW l \in R, NEW m, m = Len(s)
  PROVE  LET w == s \o <<l>> \o u IN
         /\ w \in Seq(R) /\ Len(w) = m + 1 + Len(u) /\ DOMAIN w = 1 .. m + 1 + Len(u)
         /\ \A a \in 1 .. m + 1 + Len(u) :
              w[a] = IF a <= m THEN s[a] ELSE IF a = m + 1 THEN l ELSE u[a - (m + 1)]
<1>. DEFINE v == s \o <<l>>
            w == v \o u
<1>1. m \in Nat /\ Len(u) \in Nat
  OBVIOUS
<1>2. v \in Seq(R) /\ Len(v) = m + 1 /\ \A a \in 1 .. m + 1 : v[a] = IF a <= m THEN s[a] ELSE l
  OBVIOUS
<1>. HIDE DEF v
<1>3. w \in Seq(R) /\ Len(w) = m + 1 + Len(u)
  BY <1>1, <1>2
<1>4. \A a \in 1 .. m + 1 + Len(u) : w[a] = IF a <= m + 1 THEN v[a] ELSE u[a - (m + 1)]
  BY <1>1, <1>2
<1>. HIDE DEF w
<1>5. DOMAIN w = 1 .. m + 1 + Len(u)
  BY <1>3
<1>6. ASSUME NEW a \in 1 .. m + 1 + Len(u)
      PROVE  w[a] = IF a <= m THEN s[a] ELSE IF a = m + 1 THEN l ELSE u[a - (m + 1)]
  <2>1. a <= m + 1 => a \in 1 .. m + 1
    BY <1>1
  <2>2. CASE a <= m
    BY <1>1, <1>2, <1>4, <2>1, <2>2
  <2>3. CASE a = m + 1
    <3>1. ~ (a <= m) /\ a <= m + 1
      BY <1>1, <2>3
    <3>2. w[a] = v[a] /\ v[a] = l
      BY <1>2, <1>4, <2>1, <3>1
    <3>. QED BY <2>3, <3>1, <3>2
  <2>4. CASE a > m + 1
    BY <1>1, <1>4, <2>4
  <2>. QED BY <1>1, <2>2, <2>3, <2>4
<1>. QED BY <1>3, <1>5, <1>6 DEF v, w

LEMMA WalkJoins ==
  ASSUME NEW d, WellFormed(d), NEW from \in DOMAIN d, NEW to \in 0 .. Len(d),
         from <= to, d[from].last <= to,
         NEW s, Walk(d, s, from + 1, d[from].last), NEW u, Walk(d, u, d[from].last + 1, to),
         NEW l \in [tag : DOMAIN d, father : Names \cup {NoName}, level : Nat],
         RightLoad(d, l), l.tag = from
  PROVE  Walk(d, s \o <<l>> \o u, from, to)
<1>. DEFINE R == [tag : DOMAIN d, father : Names \cup {NoName}, level : Nat]
            w == s \o <<l>> \o u
            m == Len(s)
            z == d[from].last
<1>1. /\ from \in Nat /\ to \in Nat /\ z \in Nat /\ from <= z /\ z <= to
      /\ s \in Seq(R) /\ u \in Seq(R) /\ l \in R /\ m \in Nat /\ Len(u) \in Nat
  BY DocumentFacts DEF Walk
<1>2. /\ w \in Seq(R) /\ Len(w) = m + 1 + Len(u) /\ DOMAIN w = 1 .. m + 1 + Len(u)
      /\ \A a \in 1 .. m + 1 + Len(u) :
           w[a] = IF a <= m THEN s[a] ELSE IF a = m + 1 THEN l ELSE u[a - (m + 1)]
  <2>. HIDE DEF R
  <2>. QED BY <1>1, ThreeParts
<1>. HIDE DEF w
<1>4. /\ \A a \in DOMAIN s : s[a].tag \in from + 1 .. z /\ RightLoad(d, s[a])
      /\ \A p \in from + 1 .. z : \E a \in DOMAIN s : s[a].tag = p
      /\ \A a, b \in DOMAIN s : a < b => \/ s[a].tag < s[b].tag
                                         \/ s[b].tag < s[a].tag /\ s[a].tag <= d[s[b].tag].last
      /\ DOMAIN s = 1 .. m
  BY <1>1 DEF Walk
<1>5. /\ \A a \in DOMAIN u : u[a].tag \in z + 1 .. to /\ RightLoad(d, u[a])
      /\ \A p \in z + 1 .. to : \E a \in DOMAIN u : u[a].tag = p
      /\ \A a, b \in DOMAIN u : a < b => \/ u[a].tag < u[b].tag
                                         \/ u[b].tag < u[a].tag /\ u[a].tag <= d[u[b].tag].last
      /\ DOMAIN u = 1 .. Len(u)
      /\ d[from].last = z
  BY <1>1 DEF Walk
<1>. HIDE DEF m, z, R
<1>9. ASSUME NEW a \in DOMAIN w
      PROVE  \/ a \in DOMAIN s /\ w[a] = s[a] /\ a <= m
             \/ a = m + 1 /\ w[a] = l
             \/ a > m + 1 /\ a - (m + 1) \in DOMAIN u /\ w[a] = u[a - (m + 1)]
  <2>1. a \in Int /\ 1 <= a /\ a <= m + 1 + Len(u)
    BY <1>1, <1>2
  <2>2. CASE a <= m
    BY <1>1, <1>2, <1>4, <2>1, <2>2
  <2>3. CASE a = m + 1
    BY <1>1, <1>2, <2>1, <2>3
  <2>4. CASE a > m + 1
    <3>1. a - (m + 1) \in 1 .. Len(u)
      BY <1>1, <2>1, <2>4
    <3>2. ~ (a <= m) /\ a # m + 1
      BY <1>1, <2>1, <2>4
    <3>. QED BY <1>2, <1>5, <2>4, <3>1, <3>2
  <2>. QED BY <1>1, <2>1, <2>2, <2>3, <2>4
<1>6. \A a \in DOMAIN w : w[a].tag \in from .. to /\ RightLoad(d, w[a])
  <2>. TAKE a \in DOMAIN w
  <2>1. from \in from .. to /\ from + 1 .. z \subseteq from .. to /\ z + 1 .. to \subseteq from .. to
    BY <1>1
  <2>. QED BY <1>9, <1>4, <1>5, <2>1
<1>7. ASSUME NEW p \in from .. to PROVE \E a \in DOMAIN w : w[a].tag = p
  <2>1. CASE p = from
    <3>1. m + 1 \in DOMAIN w /\ w[m + 1] = l
      BY <1>1, <1>2
    <3>. QED BY <2>1, <3>1
  <2>2. CASE p \in from + 1 .. z
    <3>1. PICK a \in DOMAIN s : s[a].tag = p
      BY <1>4, <2>2
    <3>2. a \in DOMAIN w /\ w[a] = s[a]
      BY <1>1, <1>2, <1>4
    <3>. QED BY <3>1, <3>2
  <2>3. CASE p \in z + 1 .. to
    <3>1. PICK a \in DOMAIN u : u[a].tag = p
      BY <1>5, <2>3
    <3>. DEFINE b == a + (m + 1)
    <3>2. b \in 1 .. m + 1 + Len(u) /\ b - (m + 1) = a /\ ~ (b <= m) /\ b # m + 1
      BY <1>1, <1>5
    <3>. HIDE DEF b
    <3>3. b \in DOMAIN w /\ w[b] = u[a]
      BY <1>2, <3>2
    <3>. QED BY <3>1, <3>3
  <2>. QED BY <1>1, <2>1, <2>2, <2>3
<1>8. ASSUME NEW a \in DOMAIN w, NEW b \in DOMAIN w, a < b
      PROVE  \/ w[a].tag < w[b].tag
             \/ w[b].tag < w[a].tag /\ w[a].tag <= d[w[b].tag].last
  <2>1. a \in Nat /\ b \in Nat
    BY <1>1, <1>2
  <2>2. CASE a <= m
    <3>1. a \in DOMAIN s /\ w[a] = s[a] /\ s[a].tag \in from + 1 .. z
      BY <1>1, <1>9, <1>4, <2>1, <2>2
    <3>2. CASE b <= m
      <4>1. b \in DOMAIN s /\ w[b] = s[b]
        BY <1>1, <1>9, <2>1, <3>2
      <4>2. \/ s[a].tag < s[b].tag
            \/ s[b].tag < s[a].tag /\ s[a].tag <= d[s[b].tag].last
        BY <1>4, <1>8, <3>1, <4>1
      <4>. QED BY <3>1, <4>1, <4>2
    <3>3. CASE b = m + 1
      <4>1. w[b].tag = from
        BY <1>1, <1>9, <3>3
      <4>2. d[w[b].tag].last = z /\ w[b].tag < w[a].tag /\ w[a].tag <= z
        BY <1>1, <1>5, <3>1, <4>1
      <4>. QED BY <4>2
    <3>4. CASE b > m + 1
      <4>1. w[b].tag \in z + 1 .. to
        BY <1>1, <1>9, <1>5, <2>1, <3>4
      <4>. QED BY <1>1, <3>1, <4>1
    <3>. QED BY <1>1, <2>1, <3>2, <3>3, <3>4
  <2>3. CASE a = m + 1
    <3>1. w[a].tag = from /\ b > m + 1
      BY <1>1, <1>9, <1>8, <2>1, <2>3
    <3>2. w[b].tag \in z + 1 .. to
      BY <1>1, <1>9, <1>5, <2>1, <3>1
    <3>. QED BY <1>1, <3>1, <3>2
  <2>4. CASE a > m + 1
    <3>1. /\ a - (m + 1) \in DOMAIN u /\ w[a] = u[a - (m + 1)]
          /\ b - (m + 1) \in DOMAIN u /\ w[b] = u[b - (m + 1)]
      BY <1>1, <1>9, <1>8, <2>1, <2>4
    <3>2. a - (m + 1) < b - (m + 1)
      BY <1>1, <1>8, <2>1
    <3>. QED BY <1>5, <3>1, <3>2
  <2>. QED BY <1>1, <2>1, <2>2, <2>3, <2>4
<1>. QED BY <1>2, <1>6, <1>7, <1>8 DEF Walk, R, w

LEMMA ParseWalks ==
  ASSUME NEW d, WellFormed(d)
  PROVE  Walk(d, ParseGatesTags(d), 1, Len(d))
<1>1. PICK v : ParseGatesTags(d) = v[AllTags(d)] /\ \A c \in Calls(d) : v[c] = LoadsOf(d, v, c)
  BY ParseUnfolds
<1>. DEFINE N == Len(d) + 1
            RowsFit(c, f) == /\ Siblings(d, f, c.from, c.to)
                             /\ c.father = NameAt(d, f) /\ c.level = Outside(d, f) + 1
            Good == {n \in Nat : \A c \in Calls(d), f \in 0 .. Len(d) :
                                   N - c.from <= n /\ RowsFit(c, f) => Walk(d, v[c], c.from, c.to)}
<1>2. N \in Nat /\ Len(d) \in Nat \ {0} /\ \A c \in Calls(d) : N - c.from \in Nat
  BY DocumentFacts, CallFacts
<1>3. ASSUME NEW c \in Calls(d), c.from > c.to PROVE Walk(d, v[c], c.from, c.to)
  <2>1. v[c] = <<>>
    BY <1>1, <1>3 DEF LoadsOf
  <2>2. c.from .. c.to = {}
    BY <1>3, CallFacts, <1>2
  <2>3. DOMAIN <<>> = {}
    OBVIOUS
  <2>. QED BY <2>1, <2>2, <2>3 DEF Walk
<1>4. 0 \in Good
  <2>1. \A c \in Calls(d) : N - c.from <= 0 => c.from > c.to
    BY <1>2, CallFacts
  <2>. QED BY <1>3, <2>1
<1>5. ASSUME NEW n \in Nat, n \in Good PROVE n + 1 \in Good
  <2>. SUFFICES ASSUME NEW c \in Calls(d), NEW f \in 0 .. Len(d), N - c.from <= n + 1, RowsFit(c, f)
                PROVE  Walk(d, v[c], c.from, c.to)
    BY <1>5
  <2>1. CASE c.from <= c.to
    <3>. DEFINE in == Within(d, c)
                on == After(d, c)
    <3>1. /\ c.from \in DOMAIN d /\ c.to \in 0 .. Len(d) /\ in \in Calls(d) /\ on \in Calls(d)
          /\ in.from = c.from + 1 /\ in.to = d[c.from].last /\ in.father = d[c.from].name
          /\ in.level = c.level + 1 /\ on.from = d[c.from].last + 1 /\ on.to = c.to
          /\ on.father = c.father /\ on.level = c.level
          /\ c.level \in Nat /\ c.father \in Names \cup {NoName}
      BY <2>1, CallFacts
    <3>. HIDE DEF in, on
    <3>2. d[c.from].last \in Nat /\ c.from <= d[c.from].last /\ c.from \in Nat /\ c.from # 0
          /\ c.from \in 0 .. Len(d)
      BY <3>1, DocumentFacts
    <3>3. /\ Father(d, c.from) = f /\ Depth(d, c.from) = Outside(d, f) + 1
          /\ Siblings(d, c.from, in.from, in.to) /\ Siblings(d, f, on.from, on.to)
      BY <2>1, <3>1, FirstSibling
    <3>4. RowsFit(in, c.from)
      BY <3>1, <3>2, <3>3 DEF NameAt, Outside
    <3>5. RowsFit(on, f)
      BY <3>1, <3>3
    <3>6. N - in.from <= n /\ N - on.from <= n
      BY <1>2, <3>1, <3>2
    <3>7. Walk(d, v[in], c.from + 1, d[c.from].last) /\ Walk(d, v[on], d[c.from].last + 1, c.to)
      <4>. HIDE DEF RowsFit
      <4>1. Walk(d, v[in], in.from, in.to)
        BY <1>5, <3>1, <3>2, <3>4, <3>6
      <4>2. Walk(d, v[on], on.from, on.to)
        BY <1>5, <3>1, <3>5, <3>6
      <4>. QED BY <3>1, <4>1, <4>2
    <3>8. /\ LoadOf(c) \in [tag : DOMAIN d, father : Names \cup {NoName}, level : Nat]
          /\ RightLoad(d, LoadOf(c)) /\ LoadOf(c).tag = c.from
      BY <3>1, <3>3 DEF LoadOf, RightLoad
    <3>9. d[c.from].last <= c.to
      <4>1. c.from \in c.from .. c.to
        BY <2>1, <3>1, <3>2, <1>2
      <4>. QED BY <4>1 DEF Siblings
    <3>10. Walk(d, v[in] \o <<LoadOf(c)>> \o v[on], c.from, c.to)
      BY <2>1, <3>1, <3>7, <3>8, <3>9, WalkJoins
    <3>11. v[c] = v[in] \o <<LoadOf(c)>> \o v[on]
      <4>1. ~ (c.from > c.to) /\ v[c] = LoadsOf(d, v, c)
        BY <1>1, <2>1, CallFacts, <1>2
      <4>. QED BY <4>1 DEF LoadsOf, in, on
    <3>. QED BY <3>10, <3>11
  <2>2. CASE c.from > c.to
    BY <1>3, <2>2
  <2>. QED BY <1>2, <2>1, <2>2, CallFacts
<1>. HIDE DEF Good
<1>6. N \in Good
  BY <1>2, <1>4, <1>5, SetInduction
<1>. DEFINE all == AllTags(d)
<1>7. all \in Calls(d) /\ all.from = 1 /\ all.to = Len(d) /\ all.father = NoName /\ all.level = 1
  BY <1>2 DEF AllTags, Calls
<1>8. RowsFit(all, 0)
  <2>1. Siblings(d, 0, 1, Len(d))
    BY DocumentFacts DEF Siblings
  <2>. QED BY <1>7, <2>1 DEF NameAt, Outside
<1>9. Walk(d, v[all], 1, Len(d))
  <2>. HIDE DEF all, RowsFit
  <2>1. 0 \in 0 .. Len(d) /\ N - all.from <= N
    BY <1>2, <1>7
  <2>. QED BY <1>6, <1>7, <1>8, <2>1 DEF Good
<1>. QED BY <1>1, <1>9

-----------------------------------------------------------------------------
(***************************************************************************)
(* The table after some of the loads.                                      *)
(***************************************************************************)
EmptyTable == [k \in 1 .. MaxLevels |-> <<>>]

LEMMA TableUnfolds ==
  ASSUME NEW d, NEW s, Len(s) \in Nat
  PROVE  \E t : /\ Table(d, s) = t[Len(s)] /\ t[0] = EmptyTable
                /\ \A m \in 1 .. Len(s) :
                     t[m] = Load(s[m].father, d[s[m].tag], t[m - 1], s[m].level)
<1>. DEFINE E(t, m) == IF m = 0 THEN EmptyTable
                       ELSE Load(s[m].father, d[s[m].tag], t[m - 1], s[m].level)
            Is(t, n) == t = [m \in 0 .. n |-> E(t, m)]
            Good == {n \in Nat : \E t : Is(t, n)}
<1>1. 0 \in Good
  <2>. DEFINE t == [m \in 0 .. 0 |-> EmptyTable]
  <2>1. t = [m \in 0 .. 0 |-> E(t, m)]
    OBVIOUS
  <2>. QED BY <2>1
<1>2. ASSUME NEW n \in Nat, n \in Good PROVE n + 1 \in Good
  <2>1. PICK t : Is(t, n)
    BY <1>2
  <2>. DEFINE w == [m \in 0 .. n + 1 |->
                      IF m = n + 1 THEN Load(s[n + 1].father, d[s[n + 1].tag], t[n], s[n + 1].level)
                      ELSE t[m]]
  <2>2. \A m \in 0 .. n : t[m] = E(t, m)
    BY <2>1
  <2>. HIDE DEF E
  <2>3. \A m \in 0 .. n : w[m] = t[m] /\ m \in 0 .. n + 1
    OBVIOUS
  <2>4. w[n + 1] = Load(s[n + 1].father, d[s[n + 1].tag], t[n], s[n + 1].level)
    OBVIOUS
  <2>5. w = [m \in 0 .. n + 1 |-> w[m]]
    OBVIOUS
  <2>. HIDE DEF w
  <2>6. \A m \in 0 .. n + 1 : w[m] = E(w, m)
    <3>. TAKE m \in 0 .. n + 1
    <3>1. CASE m = n + 1
      <4>1. m # 0 /\ m - 1 = n /\ w[n] = t[n]
        BY <2>3, <3>1
      <4>. QED BY <2>4, <3>1, <4>1 DEF E
    <3>2. CASE m = 0
      BY <2>2, <2>3, <3>2 DEF E
    <3>3. CASE m # n + 1 /\ m # 0
      <4>1. m \in 0 .. n /\ m - 1 \in 0 .. n
        BY <3>3
      <4>2. w[m] = t[m] /\ w[m - 1] = t[m - 1] /\ t[m] = E(t, m)
        BY <2>2, <2>3, <4>1
      <4>. QED BY <3>3, <4>2 DEF E
    <3>. QED BY <3>1, <3>2, <3>3
  <2>7. Is(w, n + 1)
    BY <2>5, <2>6
  <2>. QED BY <2>7
<1>. HIDE DEF Good
<1>3. Len(s) \in Good
  BY <1>1, <1>2, SetInduction
<1>. DEFINE t == CHOOSE t : Is(t, Len(s))
<1>4. Is(t, Len(s))
  BY <1>3 DEF Good
<1>5. Table(d, s) = t[Len(s)]
  BY DEF Table, EmptyTable
<1>. HIDE DEF t
<1>6. \A m \in 0 .. Len(s) : t[m] = E(t, m)
  BY <1>4
<1>. QED BY <1>5, <1>6

\* The loads of a document: a gate is always loaded into the same level.
Loads(d, s) ==
  /\ Len(s) \in Nat /\ DOMAIN s = 1 .. Len(s)
  /\ \A a \in DOMAIN s : /\ s[a].tag \in DOMAIN d /\ d[s[a].tag] \in Tag
                         /\ s[a].level \in 1 .. MaxLevels /\ s[a].father \in Names \cup {NoName}
  /\ \A a, b \in DOMAIN s : d[s[a].tag].name = d[s[b].tag].name => s[a].level = s[b].level

\* g is the gate of load a, the first of the first m loads with its name; another
\* of them has given it a second father.
GateOf(d, s, m, g, a) ==
  LET tag == d[s[a].tag]
      Others == {b \in 1 .. m : b # a /\ d[s[b].tag].name = tag.name}
  IN  /\ g.name = tag.name /\ g.type = tag.type /\ g.input = tag.input /\ g.output = Unknown
      /\ \A b \in Others : a < b
      /\ g.fathers[1] = s[a].father
      /\ Others = {} => g.fathers[2] = NoName
      /\ Others # {} => \E b \in Others : g.fathers[2] = s[b].father

Loaded(d, s, m, t) ==
  /\ t \in [1 .. MaxLevels -> Seq(Gate)]
  /\ \A k \in 1 .. MaxLevels : \A x \in DOMAIN t[k] :
       \E a \in 1 .. m : s[a].level = k /\ GateOf(d, s, m, t[k][x], a)
  /\ \A a \in 1 .. m : \E x \in DOMAIN t[s[a].level] : t[s[a].level][x].name = d[s[a].tag].name
  /\ \A k \in 1 .. MaxLevels : \A x, y \in DOMAIN t[k] : t[k][x].name = t[k][y].name => x = y

\* A gate is not touched by the load of a tag with another name.
LEMMA GateOfStays ==
  ASSUME NEW d, NEW s, NEW m \in Nat \ {0}, NEW g, NEW a \in 1 .. m - 1, GateOf(d, s, m - 1, g, a),
         d[s[m].tag].name # d[s[a].tag].name
  PROVE  a \in 1 .. m /\ GateOf(d, s, m, g, a)
<1>. DEFINE Others(x) == {b \in 1 .. x : b # a /\ d[s[b].tag].name = d[s[a].tag].name}
<1>1. Others(m) = Others(m - 1)
  OBVIOUS
<1>. HIDE DEF Others
<1>2. GateOf(d, s, m - 1, g, a) <=>
        /\ g.name = d[s[a].tag].name /\ g.type = d[s[a].tag].type /\ g.input = d[s[a].tag].input
        /\ g.output = Unknown
        /\ \A b \in Others(m - 1) : a < b
        /\ g.fathers[1] = s[a].father
        /\ Others(m - 1) = {} => g.fathers[2] = NoName
        /\ Others(m - 1) # {} => \E b \in Others(m - 1) : g.fathers[2] = s[b].father
  BY DEF GateOf, Others
<1>3. GateOf(d, s, m, g, a) <=>
        /\ g.name = d[s[a].tag].name /\ g.type = d[s[a].tag].type /\ g.input = d[s[a].tag].input
        /\ g.output = Unknown
        /\ \A b \in Others(m) : a < b
        /\ g.fathers[1] = s[a].father
        /\ Others(m) = {} => g.fathers[2] = NoName
        /\ Others(m) # {} => \E b \in Others(m) : g.fathers[2] = s[b].father
  BY DEF GateOf, Others
<1>. QED BY <1>1, <1>2, <1>3

LEMMA LoadKeeps ==
  ASSUME NEW d, NEW s, Loads(d, s), NEW m \in DOMAIN s, NEW t, Loaded(d, s, m - 1, t)
  PROVE  Loaded(d, s, m, Load(s[m].father, d[s[m].tag], t, s[m].level))
<1>. DEFINE k == s[m].level
            tag == d[s[m].tag]
            fa == s[m].father
            same == {x \in DOMAIN t[k] : t[k][x].name = tag.name}
            u == Load(fa, tag, t, k)
            New == [name |-> tag.name, type |-> tag.type, fathers |-> <<fa, NoName>>,
                    input |-> tag.input, output |-> Unknown]
<1>1. /\ m \in Nat \ {0} /\ m - 1 \in Nat /\ 1 .. m = (1 .. m - 1) \cup {m} /\ m \notin 1 .. m - 1
      /\ 1 .. m \subseteq DOMAIN s
      /\ k \in 1 .. MaxLevels /\ tag \in Tag /\ fa \in Names \cup {NoName}
  BY DEF Loads
<1>2. /\ t \in [1 .. MaxLevels -> Seq(Gate)] /\ t[k] \in Seq(Gate)
      /\ \A q \in 1 .. MaxLevels : \A x \in DOMAIN t[q] :
           \E a \in 1 .. m - 1 : s[a].level = q /\ GateOf(d, s, m - 1, t[q][x], a)
      /\ \A a \in 1 .. m - 1 : \E x \in DOMAIN t[s[a].level] : t[s[a].level][x].name = d[s[a].tag].name
      /\ \A q \in 1 .. MaxLevels : \A x, y \in DOMAIN t[q] : t[q][x].name = t[q][y].name => x = y
  BY <1>1 DEF Loaded
<1>. HIDE DEF k, tag, fa
<1>3. \A a \in 1 .. m - 1 : /\ s[a].level \in 1 .. MaxLevels
                            /\ d[s[a].tag].name = tag.name => s[a].level = k
  BY <1>1 DEF Loads, tag, k
\* A gate with another name is as it was.
<1>4. ASSUME NEW q \in 1 .. MaxLevels, NEW x \in DOMAIN t[q], t[q][x].name # tag.name
      PROVE  \E a \in 1 .. m : s[a].level = q /\ GateOf(d, s, m, t[q][x], a)
  <2>1. PICK a \in 1 .. m - 1 : s[a].level = q /\ GateOf(d, s, m - 1, t[q][x], a)
    BY <1>2
  <2>2. d[s[m].tag].name # d[s[a].tag].name
    BY <1>4, <2>1 DEF GateOf, tag
  <2>. QED BY <1>1, <2>1, <2>2, GateOfStays
<1>5. ASSUME NEW q \in 1 .. MaxLevels, NEW x \in DOMAIN t[q], q # k PROVE t[q][x].name # tag.name
  <2>1. PICK a \in 1 .. m - 1 : s[a].level = q /\ GateOf(d, s, m - 1, t[q][x], a)
    BY <1>2
  <2>. QED BY <1>3, <1>5, <2>1 DEF GateOf
<1>6. CASE same # {}
  <2>. DEFINE x == CHOOSE x \in same : TRUE
              g == t[k][x]
              h == [g EXCEPT !.fathers = [@ EXCEPT ![2] = fa]]
  <2>1. x \in DOMAIN t[k] /\ g.name = tag.name /\ g \in Gate
    BY <1>2, <1>6
  <2>2. u = [t EXCEPT ![k] = [@ EXCEPT ![x] = h]]
    BY <1>6 DEF Load
  <2>. HIDE DEF x, u
  <2>3. /\ h \in Gate /\ h.name = g.name /\ h.type = g.type /\ h.input = g.input
        /\ h.output = g.output /\ h.fathers[1] = g.fathers[1] /\ h.fathers[2] = fa
    <3>1. g.fathers \in (Names \cup {NoName}) \X (Names \cup {NoName})
      BY <2>1 DEF Gate
    <3>2. LET f == [g.fathers EXCEPT ![2] = fa] IN
          f \in (Names \cup {NoName}) \X (Names \cup {NoName}) /\ f[1] = g.fathers[1] /\ f[2] = fa
      BY <1>1, <3>1
    <3>. HIDE DEF g
    <3>. QED BY <2>1, <3>2 DEF Gate
  <2>. HIDE DEF h
  <2>4. /\ u[k] = [t[k] EXCEPT ![x] = h] /\ \A q \in 1 .. MaxLevels : q # k => u[q] = t[q]
        /\ u[k] \in Seq(Gate) /\ DOMAIN u[k] = DOMAIN t[k] /\ u[k][x] = h
        /\ \A y \in DOMAIN t[k] : y # x => u[k][y] = t[k][y]
    BY <1>1, <1>2, <2>1, <2>2, <2>3
  <2>5. u \in [1 .. MaxLevels -> Seq(Gate)]
    BY <1>1, <1>2, <2>2, <2>4
  <2>6. \A q \in 1 .. MaxLevels : /\ DOMAIN u[q] = DOMAIN t[q]
                                  /\ \A y \in DOMAIN t[q] : u[q][y].name = t[q][y].name
    BY <2>1, <2>3, <2>4
  <2>7. \E a \in 1 .. m : s[a].level = k /\ GateOf(d, s, m, h, a)
    <3>1. PICK a \in 1 .. m - 1 : s[a].level = k /\ GateOf(d, s, m - 1, g, a)
      BY <1>1, <1>2, <2>1
    <3>. DEFINE Others(z) == {b \in 1 .. z : b # a /\ d[s[b].tag].name = d[s[a].tag].name}
    <3>2. /\ g.name = d[s[a].tag].name /\ g.type = d[s[a].tag].type
          /\ g.input = d[s[a].tag].input /\ g.output = Unknown
          /\ \A b \in Others(m - 1) : a < b
          /\ g.fathers[1] = s[a].father
      BY <3>1 DEF GateOf
    <3>3. Others(m) = Others(m - 1) \cup {m} /\ a < m /\ a \in 1 .. m
      <4>1. d[s[m].tag].name = d[s[a].tag].name
        BY <2>1, <3>2 DEF tag
      <4>2. m \in 1 .. m /\ a \in Int /\ a <= m - 1 /\ m # a
        BY <1>1
      <4>. QED BY <1>1, <4>1, <4>2
    <3>4. /\ \A b \in Others(m) : a < b
          /\ Others(m) # {} /\ \E b \in Others(m) : h.fathers[2] = s[b].father
      BY <2>3, <3>2, <3>3 DEF fa
    <3>5. GateOf(d, s, m, h, a)
      <4>. HIDE DEF g
      <4>. QED BY <2>3, <3>2, <3>4 DEF GateOf
    <3>. QED BY <3>1, <3>3, <3>5
  <2>8. ASSUME NEW q \in 1 .. MaxLevels, NEW y \in DOMAIN u[q]
        PROVE  \E a \in 1 .. m : s[a].level = q /\ GateOf(d, s, m, u[q][y], a)
    <3>1. CASE q = k /\ y = x
      BY <2>4, <2>7, <3>1
    <3>2. CASE ~ (q = k /\ y = x)
      <4>1. u[q][y] = t[q][y] /\ y \in DOMAIN t[q]
        BY <2>4, <2>6, <3>2
      <4>2. t[q][y].name # tag.name
        BY <1>1, <1>2, <1>5, <2>1, <3>2, <4>1
      <4>. QED BY <1>4, <4>1, <4>2
    <3>. QED BY <3>1, <3>2
  <2>9. ASSUME NEW a \in 1 .. m PROVE \E y \in DOMAIN u[s[a].level] : u[s[a].level][y].name = d[s[a].tag].name
    <3>1. CASE a = m
      <4>1. u[k][x].name = tag.name /\ x \in DOMAIN u[k]
        BY <1>1, <2>1, <2>6
      <4>. QED BY <3>1, <4>1 DEF k, tag
    <3>2. CASE a \in 1 .. m - 1
      BY <1>2, <1>3, <2>6, <3>2
    <3>. QED BY <1>1, <3>1, <3>2
  <2>10. \A q \in 1 .. MaxLevels : \A y, z \in DOMAIN u[q] : u[q][y].name = u[q][z].name => y = z
    BY <1>2, <2>6
  <2>11. Loaded(d, s, m, u)
    BY <2>5, <2>8, <2>9, <2>10 DEF Loaded
  <2>. QED BY <2>11 DEF u, k, tag, fa
<1>7. CASE same = {}
  <2>1. u = [t EXCEPT ![k] = Append(@, New)]
    BY <1>7 DEF Load
  <2>. HIDE DEF u
  <2>2. New \in Gate /\ New.name = tag.name
    <3>1. /\ tag.name \in Names /\ tag.type \in Types /\ tag.input \in Word \X Word /\ Unknown \in Word
          /\ <<fa, NoName>> \in (Names \cup {NoName}) \X (Names \cup {NoName})
      BY <1>1 DEF Tag, Word, Unknown
    <3>. QED BY <3>1 DEF Gate
  <2>. DEFINE l == Len(t[k])
  <2>3. /\ l \in Nat /\ DOMAIN t[k] = 1 .. l /\ u[k] \in Seq(Gate) /\ DOMAIN u[k] = 1 .. l + 1
        /\ u[k][l + 1] = New /\ \A y \in DOMAIN t[k] : u[k][y] = t[k][y] /\ y # l + 1
        /\ \A q \in 1 .. MaxLevels : q # k => u[q] = t[q]
    <3>. HIDE DEF New
    <3>1. u[k] = Append(t[k], New) /\ \A q \in 1 .. MaxLevels : q # k => u[q] = t[q]
      BY <1>1, <1>2, <2>1
    <3>. QED BY <1>2, <2>2, <3>1
  <2>4. u \in [1 .. MaxLevels -> Seq(Gate)]
    <3>. HIDE DEF New
    <3>. QED BY <1>1, <1>2, <2>1, <2>3
  <2>5. \A b \in 1 .. m - 1 : d[s[b].tag].name # tag.name
    BY <1>2, <1>3, <1>7
  <2>6. s[m].level = k /\ GateOf(d, s, m, New, m)
    <3>1. {b \in 1 .. m : b # m /\ d[s[b].tag].name = d[s[m].tag].name} = {}
      BY <1>1, <2>5 DEF tag
    <3>. QED BY <3>1 DEF GateOf, k, tag, fa
  <2>. HIDE DEF New, l
  <2>7. ASSUME NEW q \in 1 .. MaxLevels, NEW y \in DOMAIN u[q]
        PROVE  \E a \in 1 .. m : s[a].level = q /\ GateOf(d, s, m, u[q][y], a)
    <3>1. CASE q = k /\ y = l + 1
      BY <1>1, <2>3, <2>6, <3>1
    <3>2. CASE ~ (q = k /\ y = l + 1)
      <4>1. u[q][y] = t[q][y] /\ y \in DOMAIN t[q]
        BY <2>3, <3>2
      <4>2. t[q][y].name # tag.name
        BY <1>5, <1>7, <4>1
      <4>. QED BY <1>4, <4>1, <4>2
    <3>. QED BY <3>1, <3>2
  <2>8. ASSUME NEW a \in 1 .. m PROVE \E y \in DOMAIN u[s[a].level] : u[s[a].level][y].name = d[s[a].tag].name
    <3>1. CASE a = m
      <4>1. u[k][l + 1].name = tag.name /\ l + 1 \in DOMAIN u[k]
        BY <2>2, <2>3
      <4>. QED BY <3>1, <4>1 DEF k, tag
    <3>2. CASE a \in 1 .. m - 1
      <4>1. PICK x \in DOMAIN t[s[a].level] : t[s[a].level][x].name = d[s[a].tag].name
        BY <1>2, <3>2
      <4>2. x \in DOMAIN u[s[a].level] /\ u[s[a].level][x] = t[s[a].level][x]
        BY <1>3, <2>3, <3>2
      <4>. QED BY <4>1, <4>2
    <3>. QED BY <1>1, <3>1, <3>2
  <2>9. ASSUME NEW q \in 1 .. MaxLevels, NEW y \in DOMAIN u[q], NEW z \in DOMAIN u[q],
               u[q][y].name = u[q][z].name
        PROVE  y = z
    <3>1. CASE q # k
      BY <1>2, <2>3, <2>9, <3>1
    <3>2. CASE q = k
      <4>1. \A v \in DOMAIN u[k] : v # l + 1 => /\ v \in DOMAIN t[k] /\ u[k][v] = t[k][v]
                                               /\ u[k][v].name # tag.name
        BY <1>7, <2>3
      <4>2. u[k][l + 1].name = tag.name
        BY <2>2, <2>3
      <4>. QED BY <1>1, <1>2, <2>9, <3>2, <4>1, <4>2
    <3>. QED BY <3>1, <3>2
  <2>10. Loaded(d, s, m, u)
    BY <2>4, <2>7, <2>8, <2>9 DEF Loaded
  <2>. QED BY <2>10 DEF u, k, tag, fa
<1>. QED BY <1>6, <1>7

LEMMA TableIsLoaded ==
  ASSUME NEW d, NEW s, Loads(d, s)
  PROVE  Loaded(d, s, Len(s), Table(d, s))
<1>1. Len(s) \in Nat /\ DOMAIN s = 1 .. Len(s)
  BY DEF Loads
<1>2. PICK t : /\ Table(d, s) = t[Len(s)] /\ t[0] = EmptyTable
               /\ \A m \in 1 .. Len(s) : t[m] = Load(s[m].father, d[s[m].tag], t[m - 1], s[m].level)
  BY <1>1, TableUnfolds
<1>. DEFINE Good == {m \in Nat : m <= Len(s) => Loaded(d, s, m, t[m])}
<1>3. 0 \in Good
  <2>1. EmptyTable \in [1 .. MaxLevels -> Seq(Gate)] /\ \A k \in 1 .. MaxLevels : DOMAIN EmptyTable[k] = {}
    BY DEF EmptyTable
  <2>2. 1 .. 0 = {}
    OBVIOUS
  <2>. QED BY <1>2, <2>1, <2>2 DEF Loaded
<1>4. ASSUME NEW m \in Nat, m \in Good PROVE m + 1 \in Good
  <2>1. CASE m + 1 <= Len(s)
    <3>1. m + 1 \in DOMAIN s /\ (m + 1) - 1 = m /\ Loaded(d, s, m, t[m])
      BY <1>1, <1>4, <2>1
    <3>2. Loaded(d, s, m + 1, Load(s[m + 1].father, d[s[m + 1].tag], t[m], s[m + 1].level))
      BY <3>1, LoadKeeps
    <3>. QED BY <1>1, <1>2, <3>1, <3>2
  <2>. QED BY <2>1
<1>. HIDE DEF Good
<1>5. Len(s) \in Good
  BY <1>1, <1>3, <1>4, SetInduction
<1>. QED BY <1>1, <1>2, <1>5 DEF Good

-----------------------------------------------------------------------------
(***************************************************************************)
(* The tags of a gate.                                                     *)
(***************************************************************************)
LEMMA CountOfPair ==
  ASSUME NEW p, NEW q, p # q, NEW S \in SUBSET {p, q}
  PROVE  Cardinality(S) = (IF p \in S THEN 1 ELSE 0) + (IF q \in S THEN 1 ELSE 0)
<1>1. CASE S = {}
  BY <1>1, FS_EmptySet
<1>2. CASE S = {p}
  BY <1>2, FS_Singleton
<1>3. CASE S = {q}
  BY <1>3, FS_Singleton
<1>4. CASE S = {p, q}
  <2>1. IsFiniteSet({p}) /\ Cardinality({p}) = 1
    BY FS_Singleton
  <2>2. S = {p} \cup {q} /\ q \notin {p}
    BY <1>4
  <2>3. Cardinality(S) = 2
    BY <2>1, <2>2, FS_AddElement
  <2>. QED BY <1>4, <2>3
<1>. QED BY <1>1, <1>2, <1>3, <1>4

\* Either a gate has one tag, inside no other, and both its inputs, or all its tags
\* are inside another, one for every input it is not given.
LEMMA SignalsOfGate ==
  ASSUME NEW d, WellFormed(d), NEW n, Tagged(d, n) # {}
  PROVE  LET p == First(d, n) IN
         /\ p \in DOMAIN d /\ d[p].name = n /\ \A q \in Tagged(d, n) : p <= q
         /\ \A q \in Tagged(d, n) : Depth(d, q) = Depth(d, p)
         /\ Father(d, p) = 0 => /\ Tagged(d, n) = {p} /\ Feeding(d, n) = {}
                                /\ Cardinality(Given(d[p])) = 2
         /\ Father(d, p) # 0 => /\ Feeding(d, n) = Tagged(d, n)
                                /\ Cardinality(Given(d[p])) + Cardinality(Tagged(d, n)) = 2
<1>. DEFINE p == First(d, n)
<1>1. p \in Tagged(d, n) /\ \A q \in Tagged(d, n) : p <= q
  <2>1. Tagged(d, n) \in SUBSET Nat
    BY DocumentFacts DEF Tagged
  <2>2. \E x \in Tagged(d, n) : \A q \in Tagged(d, n) : x <= q
    BY <2>1, LeastNat
  <2>. QED BY <2>2 DEF First
<1>. HIDE DEF p
<1>2. p \in DOMAIN d /\ d[p].name = n
  BY <1>1 DEF Tagged
<1>3. \A q \in Tagged(d, n) : q \in DOMAIN d /\ d[q].name = n
  BY DEF Tagged
<1>4. Cardinality(Given(d[p])) + Cardinality(Feeding(d, n)) = 2
  BY <1>2 DEF WellFormed, p
<1>5. \A q \in Tagged(d, n) : Depth(d, q) = Depth(d, p)
  BY <1>2, <1>3 DEF WellFormed
<1>6. Cardinality(Given(d[p])) \in Nat
  <2>1. Given(d[p]) \in SUBSET {1, 2}
    BY DEF Given
  <2>. QED BY <2>1, CountOfTwo
<1>7. ASSUME Father(d, p) = 0
      PROVE  Tagged(d, n) = {p} /\ Feeding(d, n) = {} /\ Cardinality(Given(d[p])) = 2
  <2>1. Tagged(d, n) = {p}
    BY <1>1, <1>2, <1>3, <1>7 DEF WellFormed
  <2>2. Feeding(d, n) = {}
    BY <1>7, <2>1 DEF Feeding
  <2>. QED BY <1>4, <1>6, <2>1, <2>2, FS_EmptySet
<1>8. ASSUME Father(d, p) # 0 PROVE Feeding(d, n) = Tagged(d, n)
  <2>1. \A q \in Tagged(d, n) : Father(d, q) # 0
    <3>. SUFFICES ASSUME NEW q \in Tagged(d, n), Father(d, q) = 0 PROVE FALSE
      OBVIOUS
    <3>1. q = p
      BY <1>2, <1>3 DEF WellFormed
    <3>. QED BY <1>8, <3>1
  <2>. QED BY <2>1 DEF Feeding
<1>9. ASSUME Father(d, p) # 0 PROVE Cardinality(Given(d[p])) + Cardinality(Tagged(d, n)) = 2
  BY <1>4, <1>8, <1>9
<1>. QED BY <1>1, <1>2, <1>5, <1>7, <1>8, <1>9 DEF p

LEMMA AtMostTwo ==
  ASSUME NEW d, WellFormed(d), NEW n, NEW p \in Tagged(d, n), NEW q \in Tagged(d, n), p # q
  PROVE  Tagged(d, n) = {p, q}
<1>. SUFFICES ASSUME NEW r \in Tagged(d, n), r # p, r # q PROVE FALSE
  OBVIOUS
<1>. DEFINE first == First(d, n)
<1>1. Father(d, first) # 0
  BY SignalsOfGate
<1>2. Cardinality(Given(d[first])) + Cardinality(Tagged(d, n)) = 2
  BY <1>1, SignalsOfGate
<1>3. Cardinality(Given(d[first])) \in Nat
  <2>1. Given(d[first]) \in SUBSET {1, 2}
    BY DEF Given
  <2>. QED BY <2>1, CountOfTwo
<1>4. Len(d) \in Nat /\ DOMAIN d = 1 .. Len(d)
  BY DocumentFacts
<1>5. IsFiniteSet(Tagged(d, n)) /\ Cardinality(Tagged(d, n)) \in Nat
  <2>1. IsFiniteSet(1 .. Len(d))
    BY <1>4, FS_Interval
  <2>2. Tagged(d, n) \subseteq 1 .. Len(d)
    BY <1>4 DEF Tagged
  <2>. QED BY <2>1, <2>2, FS_Subset, FS_CardinalityType
<1>6. IsFiniteSet({p, q}) /\ Cardinality({p, q}) = 2
  <2>1. IsFiniteSet({p}) /\ Cardinality({p}) = 1 /\ q \notin {p} /\ {p, q} = {p} \cup {q}
    BY FS_Singleton
  <2>. QED BY <2>1, FS_AddElement
<1>7. Cardinality({p, q} \cup {r}) = 3
  <2>1. r \notin {p, q}
    OBVIOUS
  <2>. QED BY <1>6, <2>1, FS_AddElement
<1>8. {p, q} \cup {r} \subseteq Tagged(d, n)
  OBVIOUS
<1>9. Cardinality({p, q} \cup {r}) <= Cardinality(Tagged(d, n))
  BY <1>5, <1>8, FS_Subset
<1>. QED BY <1>2, <1>3, <1>5, <1>7, <1>9

-----------------------------------------------------------------------------
(***************************************************************************)
(* What parseCircuit makes of a document.                                  *)
(***************************************************************************)
LEMMA ParseLoads ==
  ASSUME NEW d, WellFormed(d)
  PROVE  /\ Walk(d, ParseGatesTags(d), 1, Len(d)) /\ Loads(d, ParseGatesTags(d))
         /\ Loaded(d, ParseGatesTags(d), Len(ParseGatesTags(d)), Table(d, ParseGatesTags(d)))
<1>. DEFINE s == ParseGatesTags(d)
<1>1. Walk(d, s, 1, Len(d))
  BY ParseWalks
<1>. HIDE DEF s
<1>2. Len(s) \in Nat /\ DOMAIN s = 1 .. Len(s)
  BY <1>1 DEF Walk
<1>3. ASSUME NEW a \in DOMAIN s
      PROVE  /\ s[a].tag \in DOMAIN d /\ d[s[a].tag] \in Tag /\ s[a].level = Depth(d, s[a].tag)
             /\ s[a].level \in 1 .. MaxLevels /\ s[a].father \in Names \cup {NoName}
  <2>1. RightLoad(d, s[a])
    BY <1>1 DEF Walk
  <2>2. s[a].tag \in DOMAIN d
    BY <2>1 DEF RightLoad
  <2>3. Depth(d, s[a].tag) \in 1 .. MaxLevels
    BY <2>2, DepthFits
  <2>. QED BY <2>1, <2>2, <2>3, DocumentFacts DEF RightLoad
<1>4. \A a, b \in DOMAIN s : d[s[a].tag].name = d[s[b].tag].name => s[a].level = s[b].level
  BY <1>3 DEF WellFormed
<1>5. Loads(d, s)
  BY <1>2, <1>3, <1>4 DEF Loads
<1>6. Loaded(d, s, Len(s), Table(d, s))
  BY <1>5, TableIsLoaded
<1>. QED BY <1>1, <1>5, <1>6 DEF s

\* The gate of a table that a document says: it is at the depth of its tags, its
\* first tag p is the one that counts, and it has the fathers of its tags p and q,
\* of which there is only one when p = q.
Says(d, k, g, p, q) ==
  /\ p = First(d, g.name) /\ Tagged(d, g.name) = {p, q} /\ Depth(d, p) = k /\ Depth(d, q) = k
  /\ g.type = d[p].type /\ g.input = d[p].input /\ g.output = Unknown
  /\ g.fathers[1] = NameAt(d, Father(d, p))
  /\ g.fathers[2] = IF q = p THEN NoName ELSE NameAt(d, Father(d, q))

LEMMA GateSays ==
  ASSUME NEW d, WellFormed(d), NEW s, Walk(d, s, 1, Len(d)), Len(s) \in Nat,
         NEW g, NEW a \in 1 .. Len(s), GateOf(d, s, Len(s), g, a)
  PROVE  \E q : Says(d, s[a].level, g, s[a].tag, q)
<1>. DEFINE p == s[a].tag
            n == d[p].name
            Others == {b \in 1 .. Len(s) : b # a /\ d[s[b].tag].name = n}
<1>1. DOMAIN s = 1 .. Len(s) /\ DOMAIN d = 1 .. Len(d)
  BY DocumentFacts DEF Walk
<1>2. \A b \in 1 .. Len(s) : RightLoad(d, s[b])
  BY <1>1 DEF Walk
<1>3. \A r \in DOMAIN d : \E b \in 1 .. Len(s) : s[b].tag = r
  BY <1>1 DEF Walk
<1>4. /\ g.name = n /\ g.type = d[p].type /\ g.input = d[p].input /\ g.output = Unknown
      /\ \A b \in Others : a < b
      /\ g.fathers[1] = s[a].father
      /\ Others = {} => g.fathers[2] = NoName
      /\ Others # {} => \E b \in Others : g.fathers[2] = s[b].father
  BY DEF GateOf
<1>5. p \in Tagged(d, n) /\ s[a].level = Depth(d, p) /\ s[a].father = NameAt(d, Father(d, p))
  BY <1>2 DEF RightLoad, Tagged
<1>6. ASSUME NEW b \in Others
      PROVE  /\ s[b].tag \in Tagged(d, n) /\ p < s[b].tag /\ Depth(d, s[b].tag) = Depth(d, p)
             /\ s[b].father = NameAt(d, Father(d, s[b].tag))
  <2>1. RightLoad(d, s[b]) /\ d[s[b].tag].name = n
    BY <1>2
  <2>2. s[b].tag \in Tagged(d, n) /\ s[b].father = NameAt(d, Father(d, s[b].tag))
    BY <2>1 DEF RightLoad, Tagged
  <2>3. Depth(d, s[b].tag) = Depth(d, p)
    BY <1>5, <2>2 DEF WellFormed, Tagged
  <2>4. p < s[b].tag \/ (s[b].tag < p /\ p <= d[s[b].tag].last)
    BY <1>1, <1>4 DEF Walk
  <2>5. ~ (s[b].tag < p /\ p <= d[s[b].tag].last)
    <3>. SUFFICES ASSUME s[b].tag < p, p <= d[s[b].tag].last PROVE FALSE
      OBVIOUS
    <3>1. p \in DOMAIN d /\ s[b].tag \in DOMAIN d /\ p \in Nat /\ s[b].tag \in Nat
      BY <1>1, <1>5, <2>2, DocumentFacts DEF Tagged
    <3>2. s[b].tag \in 1 .. p - 1
      BY <1>1, <3>1
    <3>3. s[b].tag \in Around(d, p)
      BY <3>2 DEF Around
    <3>4. Depth(d, s[b].tag) < Depth(d, p) /\ Depth(d, p) \in Nat
      BY <3>1, <3>3, AroundFacts
    <3>. QED BY <2>3, <3>4
  <2>. QED BY <2>2, <2>3, <2>4, <2>5
<1>7. ASSUME NEW r \in Tagged(d, n), r # p PROVE \E b \in Others : s[b].tag = r
  <2>1. PICK b \in 1 .. Len(s) : s[b].tag = r
    BY <1>3 DEF Tagged
  <2>2. b # a /\ d[s[b].tag].name = n
    BY <1>7, <2>1 DEF Tagged
  <2>. QED BY <2>1, <2>2
<1>8. p = First(d, n)
  <2>1. \A r \in Tagged(d, n) : r # p => p < r
    BY <1>6, <1>7
  <2>2. /\ First(d, n) \in DOMAIN d /\ d[First(d, n)].name = n
        /\ \A r \in Tagged(d, n) : First(d, n) <= r
    BY <1>5, SignalsOfGate
  <2>3. First(d, n) \in Tagged(d, n) /\ p \in Nat /\ First(d, n) \in Nat
    BY <1>1, <1>5, <2>2, DocumentFacts DEF Tagged
  <2>. QED BY <1>5, <2>1, <2>2, <2>3
<1>. HIDE DEF p
<1>9. CASE Others = {}
  <2>1. Tagged(d, n) = {p, p}
    BY <1>5, <1>7, <1>9
  <2>2. Says(d, s[a].level, g, p, p)
    BY <1>4, <1>5, <1>8, <1>9, <2>1 DEF Says
  <2>. QED BY <2>2 DEF p
<1>10. CASE Others # {}
  <2>1. PICK b \in Others : g.fathers[2] = s[b].father
    BY <1>4, <1>10
  <2>. DEFINE q == s[b].tag
  <2>2. q \in Tagged(d, n) /\ p # q /\ Depth(d, q) = Depth(d, p) /\ g.fathers[2] = NameAt(d, Father(d, q))
    BY <1>1, <1>5, <1>6, <2>1, DocumentFacts DEF Tagged
  <2>. HIDE DEF q
  <2>3. Tagged(d, n) = {p, q}
    BY <1>5, <2>2, AtMostTwo
  <2>4. Says(d, s[a].level, g, p, q)
    BY <1>4, <1>5, <1>8, <2>2, <2>3 DEF Says
  <2>. QED BY <2>4 DEF p
<1>. QED BY <1>9, <1>10

\* The levels of a table are as many as the tags are deep.
LEMMA LevelsAreCounted ==
  ASSUME NEW d, WellFormed(d), NEW t, DOMAIN t = 1 .. MaxLevels,
         \A k \in 1 .. MaxLevels : t[k] # <<>> <=> \E p \in DOMAIN d : Depth(d, p) = k
  PROVE  /\ CountLevels(t) \in 1 .. MaxLevels
         /\ \A k \in 1 .. MaxLevels : k <= CountLevels(t) <=> t[k] # <<>>
<1>. DEFINE Q(n) == (\A k \in 1 .. n : t[k] # <<>>) /\ t[n + 1] = <<>>
            n == CountLevels(t)
<1>1. MaxLevels \in Nat \ {0} /\ Len(d) \in Nat \ {0} /\ DOMAIN d = 1 .. Len(d)
  BY MaxLevelsAssumption, DocumentFacts
<1>2. \A p \in DOMAIN d : Depth(d, p) \in Nat \ {0} /\ Depth(d, p) < MaxLevels
  BY AroundFacts, DepthFits
<1>3. \E m \in 0 .. MaxLevels - 1 : Q(m)
  <2>. DEFINE S == {k \in 1 .. MaxLevels : t[k] = <<>>}
  <2>1. S \in SUBSET Nat /\ MaxLevels \in S
    BY <1>1, <1>2
  <2>2. PICK k \in S : \A j \in S : k <= j
    BY <2>1, LeastNat
  <2>3. k - 1 \in 0 .. MaxLevels - 1 /\ t[(k - 1) + 1] = <<>>
    BY <1>1, <2>2
  <2>4. ASSUME NEW j \in 1 .. k - 1 PROVE t[j] # <<>>
    <3>1. j \in 1 .. MaxLevels /\ ~ (k <= j)
      BY <1>1, <2>2
    <3>2. j \notin S
      BY <2>2, <3>1
    <3>. QED BY <3>1, <3>2
  <2>. QED BY <2>3, <2>4
<1>4. n \in 0 .. MaxLevels - 1 /\ Q(n)
  BY <1>3 DEF CountLevels
<1>. HIDE DEF n
<1>5. ASSUME NEW p \in DOMAIN d PROVE Depth(d, p) <= n
  <2>. SUFFICES ASSUME Depth(d, p) > n PROVE FALSE
    BY <1>4, <1>2
  <2>. DEFINE S == {Depth(d, q) : q \in {r \in DOMAIN d : Depth(d, r) > n}}
  <2>1. S \in SUBSET Nat /\ Depth(d, p) \in S
    BY <1>2
  <2>2. PICK e \in S : \A j \in S : e <= j
    BY <2>1, LeastNat
  <2>3. PICK q \in DOMAIN d : e = Depth(d, q) /\ Depth(d, q) > n
    BY <2>2
  <2>4. Depth(d, q) = Outside(d, Father(d, q)) + 1 /\ Innermost(d, q, Father(d, q))
    BY FatherFacts
  <2>5. CASE e = n + 1
    <3>1. e \in 1 .. MaxLevels
      BY <1>1, <1>2, <2>3
    <3>2. t[e] # <<>>
      BY <2>3, <3>1
    <3>. QED BY <1>4, <2>5, <3>2
  <2>6. CASE e # n + 1
    <3>1. e > n + 1 /\ Father(d, q) # 0
      BY <1>4, <1>2, <2>3, <2>4, <2>6 DEF Outside
    <3>2. Father(d, q) \in DOMAIN d
      BY <1>1, <2>4, <3>1 DEF Innermost
    <3>3. Depth(d, Father(d, q)) = e - 1 /\ Depth(d, Father(d, q)) > n
      BY <1>4, <1>2, <2>3, <2>4, <3>1, <3>2 DEF Outside
    <3>4. e - 1 \in S /\ e \in Nat
      BY <2>1, <2>2, <3>2, <3>3
    <3>. QED BY <2>2, <3>4
  <2>. QED BY <2>5, <2>6
<1>6. 1 \in DOMAIN d
  BY <1>1
<1>7. n \in 1 .. MaxLevels
  BY <1>1, <1>4, <1>2, <1>5, <1>6
<1>8. ASSUME NEW k \in 1 .. MaxLevels PROVE k <= n <=> t[k] # <<>>
  <2>1. k <= n => t[k] # <<>>
    <3>. HIDE DEF Q
    <3>1. k <= n => k \in 1 .. n
      BY <1>7
    <3>. QED BY <1>4, <3>1 DEF Q
  <2>2. t[k] # <<>> => k <= n
    BY <1>5
  <2>. QED BY <2>1, <2>2
<1>. QED BY <1>7, <1>8 DEF n

\* The circuit of a document: its gates are what the document says, and all its
\* tags are there.
LEMMA ParsedCircuit ==
  ASSUME NEW d, WellFormed(d)
  PROVE  LET c == ParseCircuit(d) IN
         /\ c \in Circuit /\ Len(c) \in 1 .. MaxLevels /\ DOMAIN c = 1 .. Len(c)
         /\ \A k \in DOMAIN c : c[k] \in Seq(Gate) /\ c[k] # <<>>
         /\ \A k \in DOMAIN c : \A x \in DOMAIN c[k] : \E p, q : Says(d, k, c[k][x], p, q)
         /\ \A k \in DOMAIN c : \A x, y \in DOMAIN c[k] : c[k][x].name = c[k][y].name => x = y
         /\ \A p \in DOMAIN d : /\ Depth(d, p) \in DOMAIN c
                                /\ \E x \in DOMAIN c[Depth(d, p)] : c[Depth(d, p)][x].name = d[p].name
<1>. DEFINE s == ParseGatesTags(d)
            t == Table(d, s)
            n == CountLevels(t)
            c == [k \in 1 .. n |-> t[k]]
<1>1. Walk(d, s, 1, Len(d)) /\ Loads(d, s) /\ Loaded(d, s, Len(s), t)
  BY ParseLoads
<1>2. ParseCircuit(d) = c
  BY DEF ParseCircuit
<1>. HIDE DEF s, t
<1>3. /\ Len(s) \in Nat /\ DOMAIN s = 1 .. Len(s) /\ DOMAIN d = 1 .. Len(d)
      /\ t \in [1 .. MaxLevels -> Seq(Gate)] /\ DOMAIN t = 1 .. MaxLevels
      /\ \A k \in 1 .. MaxLevels : \A x \in DOMAIN t[k] :
           \E a \in 1 .. Len(s) : s[a].level = k /\ GateOf(d, s, Len(s), t[k][x], a)
      /\ \A a \in 1 .. Len(s) : \E x \in DOMAIN t[s[a].level] : t[s[a].level][x].name = d[s[a].tag].name
      /\ \A k \in 1 .. MaxLevels : \A x, y \in DOMAIN t[k] : t[k][x].name = t[k][y].name => x = y
  BY <1>1, DocumentFacts DEF Loaded, Loads
<1>4. ASSUME NEW k \in 1 .. MaxLevels, NEW x \in DOMAIN t[k]
      PROVE  \E p, q : Says(d, k, t[k][x], p, q)
  <2>1. PICK a \in 1 .. Len(s) : s[a].level = k /\ GateOf(d, s, Len(s), t[k][x], a)
    BY <1>3
  <2>2. \E q : Says(d, k, t[k][x], s[a].tag, q)
    BY <1>1, <1>3, <2>1, GateSays
  <2>. QED BY <2>2
<1>5. ASSUME NEW p \in DOMAIN d
      PROVE  /\ Depth(d, p) \in 1 .. MaxLevels
             /\ \E x \in DOMAIN t[Depth(d, p)] : t[Depth(d, p)][x].name = d[p].name
  <2>1. PICK a \in DOMAIN s : s[a].tag = p
    BY <1>1, <1>3 DEF Walk
  <2>2. s[a].level = Depth(d, p)
    BY <1>1, <2>1 DEF Walk, RightLoad
  <2>3. s[a].level \in 1 .. MaxLevels
    BY <1>1 DEF Loads
  <2>. QED BY <1>3, <2>1, <2>2, <2>3
<1>6. ASSUME NEW k \in 1 .. MaxLevels
      PROVE  t[k] # <<>> <=> \E p \in DOMAIN d : Depth(d, p) = k
  <2>1. t[k] \in Seq(Gate)
    BY <1>3
  <2>2. ASSUME t[k] # <<>> PROVE \E p \in DOMAIN d : Depth(d, p) = k
    <3>1. 1 \in DOMAIN t[k]
      BY <2>1, <2>2
    <3>2. PICK p, q : Says(d, k, t[k][1], p, q)
      BY <1>4, <3>1
    <3>3. p \in DOMAIN d /\ Depth(d, p) = k
      BY <3>2 DEF Says, Tagged
    <3>. QED BY <3>3
  <2>3. ASSUME NEW p \in DOMAIN d, Depth(d, p) = k PROVE t[k] # <<>>
    BY <1>5, <2>3
  <2>. QED BY <2>2, <2>3
<1>7. n \in 1 .. MaxLevels /\ \A k \in 1 .. MaxLevels : k <= n <=> t[k] # <<>>
  <2>1. DOMAIN t = 1 .. MaxLevels
    BY <1>3
  <2>2. \A k \in 1 .. MaxLevels : t[k] # <<>> <=> \E p \in DOMAIN d : Depth(d, p) = k
    BY <1>6
  <2>. QED BY <2>1, <2>2, LevelsAreCounted
<1>. HIDE DEF n
<1>8. /\ c \in Seq(Seq(Gate)) /\ Len(c) = n /\ DOMAIN c = 1 .. n
      /\ \A k \in 1 .. n : k \in 1 .. MaxLevels /\ c[k] = t[k] /\ k <= n
  <2>1. MaxLevels \in Nat /\ n \in Nat /\ \A k \in 1 .. n : k \in 1 .. MaxLevels
    BY <1>7, MaxLevelsAssumption
  <2>2. \A k \in 1 .. n : t[k] \in Seq(Gate)
    BY <1>3, <2>1
  <2>. QED BY <2>1, <2>2
<1>. HIDE DEF c
<1>9. \A k \in DOMAIN c : c[k] \in Seq(Gate) /\ c[k] # <<>>
  BY <1>3, <1>7, <1>8
<1>10. \A k \in DOMAIN c : \A x \in DOMAIN c[k] : \E p, q : Says(d, k, c[k][x], p, q)
  BY <1>4, <1>8
<1>11. \A k \in DOMAIN c : \A x, y \in DOMAIN c[k] : c[k][x].name = c[k][y].name => x = y
  BY <1>3, <1>8
<1>12. ASSUME NEW p \in DOMAIN d
       PROVE  /\ Depth(d, p) \in DOMAIN c
              /\ \E x \in DOMAIN c[Depth(d, p)] : c[Depth(d, p)][x].name = d[p].name
  <2>1. Depth(d, p) \in 1 .. MaxLevels /\ Depth(d, p) <= n
    BY <1>5, <1>6, <1>7
  <2>2. Depth(d, p) \in 1 .. n
    BY <1>7, <2>1
  <2>. QED BY <1>5, <1>8, <2>2
<1>. QED BY <1>2, <1>7, <1>8, <1>9, <1>10, <1>11, <1>12 DEF Circuit

-----------------------------------------------------------------------------
(***************************************************************************)
(* The circuit of a document has a meaning, and it is the document's.      *)
(***************************************************************************)
\* The fathers of a gate are gates of the level before, one for each input it is
\* not given.
LEMMA FathersOfGate ==
  ASSUME NEW d, WellFormed(d), NEW k, NEW g, NEW p, NEW q, Says(d, k, g, p, q)
  PROVE  /\ p \in DOMAIN d /\ q \in DOMAIN d /\ d[p].name = g.name /\ d[q].name = g.name
         /\ Cardinality(Given(d[p])) \in 0 .. 2
         /\ \/ /\ Father(d, p) = 0 /\ q = p /\ Feeding(d, g.name) = {} /\ k = 1
               /\ Cardinality(Given(d[p])) = 2
               /\ g.fathers[1] = NoName /\ g.fathers[2] = NoName
            \/ /\ Father(d, p) # 0 /\ Father(d, q) # 0 /\ Feeding(d, g.name) = {p, q} /\ k > 1
               /\ Father(d, p) \in DOMAIN d /\ Father(d, q) \in DOMAIN d
               /\ Depth(d, Father(d, p)) = k - 1 /\ Depth(d, Father(d, q)) = k - 1
               /\ g.fathers[1] = d[Father(d, p)].name
               /\ d[Father(d, p)].name # NoName /\ d[Father(d, q)].name # NoName
               /\ IF q = p THEN Cardinality(Given(d[p])) = 1 /\ g.fathers[2] = NoName
                  ELSE Cardinality(Given(d[p])) = 0 /\ g.fathers[2] = d[Father(d, q)].name
<1>. DEFINE n == g.name
<1>1. /\ p = First(d, n) /\ Tagged(d, n) = {p, q} /\ Depth(d, p) = k /\ Depth(d, q) = k
      /\ g.fathers[1] = NameAt(d, Father(d, p))
      /\ g.fathers[2] = IF q = p THEN NoName ELSE NameAt(d, Father(d, q))
  BY DEF Says
<1>2. p \in DOMAIN d /\ q \in DOMAIN d /\ d[p].name = n /\ d[q].name = n
  BY <1>1 DEF Tagged
<1>3. Tagged(d, n) # {}
  BY <1>1
<1>4. Cardinality(Given(d[p])) \in 0 .. 2
  <2>1. Given(d[p]) \in SUBSET {1, 2}
    BY DEF Given
  <2>. QED BY <2>1, CountOfTwo
<1>5. ASSUME NEW r \in {p, q}
      PROVE  /\ Father(d, r) \in Nat
             /\ Father(d, r) = 0 => k = 1
             /\ Father(d, r) # 0 => /\ Father(d, r) \in DOMAIN d /\ Depth(d, Father(d, r)) = k - 1
                                    /\ k > 1 /\ d[Father(d, r)].name # NoName
  <2>1. r \in DOMAIN d /\ Depth(d, r) = k
    BY <1>1, <1>2
  <2>2. Innermost(d, r, Father(d, r)) /\ k = Outside(d, Father(d, r)) + 1
    BY <2>1, FatherFacts
  <2>3. Father(d, r) \in Nat /\ (Father(d, r) # 0 => Father(d, r) \in DOMAIN d)
    BY <2>1, <2>2, DocumentFacts DEF Innermost
  <2>4. Father(d, r) = 0 => k = 1
    BY <2>2 DEF Outside
  <2>5. ASSUME Father(d, r) # 0
        PROVE  Depth(d, Father(d, r)) = k - 1 /\ k > 1 /\ d[Father(d, r)].name # NoName
    <3>1. Father(d, r) \in DOMAIN d
      BY <2>3, <2>5
    <3>2. Depth(d, Father(d, r)) \in Nat \ {0} /\ d[Father(d, r)].name \in Names
      BY <3>1, AroundFacts, DocumentFacts
    <3>3. k = Depth(d, Father(d, r)) + 1
      BY <2>2, <2>5 DEF Outside
    <3>. QED BY <3>2, <3>3, NamesAssumption
  <2>. QED BY <2>3, <2>4, <2>5
<1>6. CASE Father(d, p) = 0
  <2>1. Tagged(d, n) = {p} /\ Feeding(d, n) = {} /\ Cardinality(Given(d[p])) = 2
    BY <1>1, <1>3, <1>6, SignalsOfGate
  <2>2. q = p
    BY <1>1, <2>1
  <2>. QED BY <1>1, <1>2, <1>4, <1>5, <1>6, <2>1, <2>2 DEF NameAt
<1>7. CASE Father(d, p) # 0
  <2>1. Feeding(d, n) = {p, q} /\ Cardinality(Given(d[p])) + Cardinality({p, q}) = 2
    BY <1>1, <1>3, <1>7, SignalsOfGate
  <2>2. Father(d, q) # 0
    BY <2>1 DEF Feeding
  <2>3. q = p => Cardinality({p, q}) = 1
    BY FS_Singleton
  <2>4. q # p => Cardinality({p, q}) = 2
    <3>1. {p, q} \in SUBSET {p, q}
      OBVIOUS
    <3>. QED BY <3>1, CountOfPair
  <2>5. IF q = p THEN Cardinality(Given(d[p])) = 1 ELSE Cardinality(Given(d[p])) = 0
    BY <1>4, <2>1, <2>3, <2>4
  <2>. QED BY <1>1, <1>2, <1>4, <1>5, <1>7, <2>1, <2>2, <2>5 DEF NameAt
<1>. QED BY <1>6, <1>7

LEMMA ParseMeans ==
  ASSUME NEW d, WellFormed(d)
  PROVE  Meaningful(ParseCircuit(d))
<1>. DEFINE c == ParseCircuit(d)
<1>1. /\ DOMAIN c = 1 .. Len(c) /\ Len(c) \in Nat
      /\ \A k \in DOMAIN c : \A x \in DOMAIN c[k] : \E p, q : Says(d, k, c[k][x], p, q)
      /\ \A k \in DOMAIN c : \A x, y \in DOMAIN c[k] : c[k][x].name = c[k][y].name => x = y
      /\ \A p \in DOMAIN d : /\ Depth(d, p) \in DOMAIN c
                             /\ \E x \in DOMAIN c[Depth(d, p)] : c[Depth(d, p)][x].name = d[p].name
  BY ParsedCircuit
<1>. HIDE DEF c
<1>2. ASSUME NEW k \in DOMAIN c, NEW x \in DOMAIN c[k]
      PROVE  /\ c[k][x].output = Unknown
             /\ c[k][x].input \in {0, 1, Unknown} \X {0, 1, Unknown}
             /\ Cardinality(Missing(c[k][x])) = Cardinality(Fathers(c[k][x]))
             /\ \A s \in Fathers(c[k][x]) :
                  k > 1 /\ \E y \in DOMAIN c[k - 1] : c[k - 1][y].name = c[k][x].fathers[s]
  <2>. DEFINE g == c[k][x]
  <2>1. PICK p, q : Says(d, k, g, p, q)
    BY <1>1
  <2>. HIDE DEF g
  <2>2. /\ p \in DOMAIN d /\ g.output = Unknown /\ g.input = d[p].input
        /\ d[p].input \in {0, 1, Unknown} \X {0, 1, Unknown}
    <3>1. p \in DOMAIN d
      BY <2>1, FathersOfGate
    <3>2. g.output = Unknown /\ g.input = d[p].input
      BY <2>1 DEF Says
    <3>3. d[p] \in Tag
      BY <3>1, DocumentFacts
    <3>. QED BY <3>1, <3>2, <3>3 DEF Tag
  <2>3. /\ Cardinality(Missing(g)) = (IF 1 \in Missing(g) THEN 1 ELSE 0) + (IF 2 \in Missing(g) THEN 1 ELSE 0)
        /\ Cardinality(Given(d[p])) = (IF 1 \in Given(d[p]) THEN 1 ELSE 0) + (IF 2 \in Given(d[p]) THEN 1 ELSE 0)
        /\ Cardinality(Fathers(g)) = (IF 1 \in Fathers(g) THEN 1 ELSE 0) + (IF 2 \in Fathers(g) THEN 1 ELSE 0)
    <3>1. Missing(g) \in SUBSET {1, 2} /\ Given(d[p]) \in SUBSET {1, 2} /\ Fathers(g) \in SUBSET {1, 2}
      BY DEF Missing, Given, Fathers
    <3>. QED BY <3>1, CountOfTwo
  <2>4. Cardinality(Missing(g)) = 2 - Cardinality(Given(d[p]))
    <3>1. \A s \in {1, 2} : s \in Missing(g) <=> s \notin Given(d[p])
      BY <2>2 DEF Missing, Given
    <3>. QED BY <2>3, <3>1
  <2>5. Cardinality(Fathers(g)) = 2 - Cardinality(Given(d[p]))
    <3>1. /\ 1 \in Fathers(g) <=> g.fathers[1] # NoName
          /\ 2 \in Fathers(g) <=> g.fathers[2] # NoName
      BY DEF Fathers
    <3>. QED BY <2>1, <2>3, <3>1, FathersOfGate
  <2>6. ASSUME NEW s \in Fathers(g)
        PROVE  k > 1 /\ \E y \in DOMAIN c[k - 1] : c[k - 1][y].name = g.fathers[s]
    <3>1. s \in {1, 2} /\ g.fathers[s] # NoName
      BY DEF Fathers
    <3>2. k > 1 /\ \E r \in DOMAIN d : Depth(d, r) = k - 1 /\ g.fathers[s] = d[r].name
      BY <2>1, <3>1, FathersOfGate
    <3>. QED BY <1>1, <3>2
  <2>. QED BY <2>2, <2>4, <2>5, <2>6 DEF g
<1>. QED BY <1>1, <1>2 DEF Meaningful, c

\* The gates that are one at a depth are made of those of the depth before.
LEMMA OnesUnfold ==
  ASSUME NEW d
  PROVE  /\ OnesAt(d)[0] = {}
         /\ \A k \in 1 .. MaxLevels : OnesAt(d)[k] = OnesOf(d, k, OnesAt(d)[k - 1])
<1>. DEFINE E(t, m) == IF m = 0 THEN {} ELSE OnesOf(d, m, t[m - 1])
            Is(t, n) == t = [m \in 0 .. n |-> E(t, m)]
            Good == {n \in Nat : \E t : Is(t, n)}
<1>1. 0 \in Good
  <2>. DEFINE t == [m \in 0 .. 0 |-> {}]
  <2>1. t = [m \in 0 .. 0 |-> E(t, m)]
    OBVIOUS
  <2>. QED BY <2>1
<1>2. ASSUME NEW n \in Nat, n \in Good PROVE n + 1 \in Good
  <2>1. PICK t : Is(t, n)
    BY <1>2
  <2>. DEFINE w == [m \in 0 .. n + 1 |-> IF m = n + 1 THEN OnesOf(d, n + 1, t[n]) ELSE t[m]]
  <2>2. \A m \in 0 .. n : t[m] = E(t, m)
    BY <2>1
  <2>. HIDE DEF E
  <2>3. \A m \in 0 .. n : w[m] = t[m] /\ m \in 0 .. n + 1
    OBVIOUS
  <2>4. w[n + 1] = OnesOf(d, n + 1, t[n])
    OBVIOUS
  <2>5. w = [m \in 0 .. n + 1 |-> w[m]]
    OBVIOUS
  <2>. HIDE DEF w
  <2>6. \A m \in 0 .. n + 1 : w[m] = E(w, m)
    <3>. TAKE m \in 0 .. n + 1
    <3>1. CASE m = n + 1
      <4>1. m # 0 /\ m - 1 = n /\ w[n] = t[n]
        BY <2>3, <3>1
      <4>. QED BY <2>4, <3>1, <4>1 DEF E
    <3>2. CASE m = 0
      BY <2>2, <2>3, <3>2 DEF E
    <3>3. CASE m # n + 1 /\ m # 0
      <4>1. m \in 0 .. n /\ m - 1 \in 0 .. n
        BY <3>3
      <4>2. w[m] = t[m] /\ w[m - 1] = t[m - 1] /\ t[m] = E(t, m)
        BY <2>2, <2>3, <4>1
      <4>. QED BY <3>3, <4>2 DEF E
    <3>. QED BY <3>1, <3>2, <3>3
  <2>7. Is(w, n + 1)
    BY <2>5, <2>6
  <2>. QED BY <2>7
<1>. HIDE DEF Good
<1>3. MaxLevels \in Nat /\ MaxLevels \in Good
  BY <1>1, <1>2, SetInduction, MaxLevelsAssumption
<1>. DEFINE t == CHOOSE t : Is(t, MaxLevels)
<1>4. Is(t, MaxLevels)
  BY <1>3 DEF Good
<1>5. OnesAt(d) = t
  BY DEF OnesAt
<1>. HIDE DEF t
<1>6. \A m \in 0 .. MaxLevels : t[m] = E(t, m)
  BY <1>4
<1>. QED BY <1>3, <1>5, <1>6

\* The fathers of a gate that are one by their values are those that are in ones.
FathersMatch(g, value, ones) ==
  \A s \in Fathers(g) : value[g.fathers[s]] <=> g.fathers[s] \in ones

\* The two signals of a gate are those of its tags.
LEMMA SignalsMatch ==
  ASSUME NEW d, WellFormed(d), NEW k, NEW g, NEW p, NEW q, Says(d, k, g, p, q),
         NEW value, NEW ones, FathersMatch(g, value, ones)
  PROVE  Ones(g, value) = Cardinality({s \in {1, 2} : d[p].input[s] = 1})
                            + Cardinality({r \in Feeding(d, g.name) : d[Father(d, r)].name \in ones})
<1>. DEFINE S == {s \in {1, 2} : Signal(g, s, value)}
            F == {r \in Feeding(d, g.name) : d[Father(d, r)].name \in ones}
<1>1. Cardinality(S) = (IF 1 \in S THEN 1 ELSE 0) + (IF 2 \in S THEN 1 ELSE 0)
  <2>1. S \in SUBSET {1, 2}
    OBVIOUS
  <2>. QED BY <2>1, CountOfTwo
<1>2. /\ 1 \in S <=> g.fathers[1] # NoName /\ g.fathers[1] \in ones
      /\ 2 \in S <=> g.fathers[2] # NoName /\ g.fathers[2] \in ones
  BY DEF FathersMatch, Signal, Fathers
<1>. HIDE DEF S
<1>3. Cardinality(S) = Cardinality(F)
  <2>1. CASE Father(d, p) = 0
    <3>1. F = {} /\ 1 \notin S /\ 2 \notin S
      BY <1>2, <2>1, FathersOfGate
    <3>. QED BY <1>1, <3>1, FS_EmptySet
  <2>2. CASE Father(d, p) # 0 /\ q = p
    <3>1. /\ F = IF d[Father(d, p)].name \in ones THEN {p} ELSE {}
          /\ 1 \in S <=> d[Father(d, p)].name \in ones
          /\ 2 \notin S
      BY <1>2, <2>2, FathersOfGate
    <3>. HIDE DEF F
    <3>2. Cardinality(F) = IF 1 \in S THEN 1 ELSE 0
      BY <3>1, FS_EmptySet, FS_Singleton
    <3>. QED BY <1>1, <3>1, <3>2
  <2>3. CASE Father(d, p) # 0 /\ q # p
    <3>1. /\ F \in SUBSET {p, q}
          /\ p \in F <=> d[Father(d, p)].name \in ones
          /\ q \in F <=> d[Father(d, q)].name \in ones
          /\ 1 \in S <=> d[Father(d, p)].name \in ones
          /\ 2 \in S <=> d[Father(d, q)].name \in ones
      BY <1>2, <2>3, FathersOfGate
    <3>. HIDE DEF F
    <3>2. Cardinality(F) = (IF p \in F THEN 1 ELSE 0) + (IF q \in F THEN 1 ELSE 0)
      BY <2>3, <3>1, CountOfPair
    <3>. QED BY <1>1, <3>1, <3>2
  <2>. QED BY <2>1, <2>2, <2>3
<1>4. g.input = d[p].input
  BY DEF Says
<1>. QED BY <1>3, <1>4 DEF Ones, S

LEMMA ValuesMatch ==
  ASSUME NEW d, WellFormed(d)
  PROVE  LET c == ParseCircuit(d) IN
         \A k \in DOMAIN c : \A x \in DOMAIN c[k] :
           Value(c)[k][c[k][x].name] <=> c[k][x].name \in OnesAt(d)[k]
<1>. DEFINE c == ParseCircuit(d)
            Right(k) == \A x \in DOMAIN c[k] : Value(c)[k][c[k][x].name] <=> c[k][x].name \in OnesAt(d)[k]
            Good == {k \in Nat : k \in DOMAIN c => Right(k)}
<1>1. /\ c \in Circuit /\ Len(c) \in 1 .. MaxLevels /\ DOMAIN c = 1 .. Len(c)
      /\ \A k \in DOMAIN c : \A x \in DOMAIN c[k] : \E p, q : Says(d, k, c[k][x], p, q)
      /\ \A k \in DOMAIN c : \A x, y \in DOMAIN c[k] : c[k][x].name = c[k][y].name => x = y
  BY ParsedCircuit
<1>2. Meaningful(c)
  BY ParseMeans
<1>. HIDE DEF c
<1>3. 0 \in Good
  BY <1>1
<1>4. ASSUME NEW k \in Nat, k \in Good PROVE k + 1 \in Good
  <2>. DEFINE l == k + 1
              before == IF l = 1 THEN <<>> ELSE Value(c)[l - 1]
              ones == OnesAt(d)[l - 1]
  <2>. SUFFICES ASSUME l \in DOMAIN c, NEW x \in DOMAIN c[l]
                PROVE  Value(c)[l][c[l][x].name] <=> c[l][x].name \in OnesAt(d)[l]
    OBVIOUS
  <2>. DEFINE g == c[l][x]
  <2>1. /\ l \in 1 .. MaxLevels /\ l - 1 = k /\ l \in Nat
        /\ k # 0 => k \in DOMAIN c
    BY <1>1, MaxLevelsAssumption
  <2>2. PICK p, q : Says(d, l, g, p, q)
    BY <1>1
  <2>3. Value(c)[l] = LevelValue(c[l], before)
    BY <1>1, ValueUnfolds
  <2>4. OnesAt(d)[l] = OnesOf(d, l, ones)
    BY <2>1, OnesUnfold
  <2>5. ASSUME NEW s \in Fathers(g) PROVE before[g.fathers[s]] <=> g.fathers[s] \in ones
    <3>1. PICK y \in DOMAIN c[l - 1] : c[l - 1][y].name = g.fathers[s] /\ l > 1
      BY <1>2 DEF Meaningful
    <3>2. k \in DOMAIN c /\ Right(k) /\ l # 1 /\ l - 1 = k
      BY <1>4, <2>1, <3>1
    <3>. HIDE DEF l
    <3>. QED BY <3>1, <3>2
  <2>. HIDE DEF before, ones, g, l
  <2>6. Ones(g, before) = Cardinality({s \in {1, 2} : d[p].input[s] = 1})
                            + Cardinality({r \in Feeding(d, g.name) : d[Father(d, r)].name \in ones})
    <3>1. FathersMatch(g, before, ones)
      BY <2>5 DEF FathersMatch
    <3>. QED BY <2>2, <3>1, SignalsMatch
  <2>7. LevelValue(c[l], before)[g.name] = Combine(g.type, Ones(g, before))
    <3>. DEFINE z == CHOOSE m \in DOMAIN c[l] : c[l][m].name = g.name
    <3>1. z = x
      BY <1>1 DEF g
    <3>2. g.name \in {c[l][m].name : m \in DOMAIN c[l]}
      BY DEF g
    <3>3. LevelValue(c[l], before)[g.name] = Combine(c[l][z].type, Ones(c[l][z], before))
      <4>. DEFINE S == {c[l][m].name : m \in DOMAIN c[l]}
                  e(n) == LET m == CHOOSE m \in DOMAIN c[l] : c[l][m].name = n
                          IN  Combine(c[l][m].type, Ones(c[l][m], before))
      <4>1. LevelValue(c[l], before) = [n \in S |-> e(n)]
        BY DEF LevelValue
      <4>2. e(g.name) = Combine(c[l][z].type, Ones(c[l][z], before))
        OBVIOUS
      <4>. HIDE DEF e
      <4>. QED BY <3>2, <4>1, <4>2
    <3>. HIDE DEF z
    <3>. QED BY <3>1, <3>3 DEF g
  <2>8. g.name \in OnesOf(d, l, ones) <=>
          Combine(g.type, Cardinality({s \in {1, 2} : d[p].input[s] = 1})
                   + Cardinality({r \in Feeding(d, g.name) : d[Father(d, r)].name \in ones}))
    <3>1. p = First(d, g.name) /\ g.type = d[p].type /\ Depth(d, p) = l
      BY <2>2 DEF Says
    <3>2. g.name \in {d[r].name : r \in {z \in DOMAIN d : Depth(d, z) = l}}
      BY <2>2, <3>1, FathersOfGate
    <3>. QED BY <3>1, <3>2 DEF OnesOf
  <2>. QED BY <2>3, <2>4, <2>6, <2>7, <2>8 DEF g
<1>. HIDE DEF Good
<1>5. Nat \subseteq Good
  BY <1>3, <1>4, SetInduction
<1>6. \A k \in DOMAIN c : k \in Nat
  BY <1>1
<1>7. \A k \in DOMAIN c : Right(k)
  BY <1>5, <1>6 DEF Good
<1>. QED BY <1>7 DEF c

-----------------------------------------------------------------------------
(***************************************************************************)
(* A table of the circuit of a document, with every gate evaluated, is the *)
(* solution of the document.                                               *)
(***************************************************************************)
LEMMA OneDepth ==
  ASSUME NEW d, WellFormed(d), NEW p \in DOMAIN d
  PROVE  IsOne(d, d[p].name) <=> d[p].name \in OnesAt(d)[Depth(d, p)]
<1>1. Depth(d, p) \in 1 .. MaxLevels
  BY DepthFits
<1>2. ASSUME NEW k \in 1 .. MaxLevels, d[p].name \in OnesAt(d)[k]
      PROVE  k = Depth(d, p)
  <2>1. d[p].name \in OnesOf(d, k, OnesAt(d)[k - 1])
    BY <1>2, OnesUnfold
  <2>2. PICK r \in DOMAIN d : Depth(d, r) = k /\ d[r].name = d[p].name
    BY <2>1 DEF OnesOf
  <2>. QED BY <2>2 DEF WellFormed
<1>. QED BY <1>1, <1>2 DEF IsOne

LEMMA SolvedIsSolution ==
  ASSUME NEW d, WellFormed(d), NEW c, DOMAIN c = DOMAIN ParseCircuit(d),
         \A k \in DOMAIN c : /\ DOMAIN c[k] = DOMAIN ParseCircuit(d)[k]
                             /\ \A m \in DOMAIN c[k] : RightGate(ParseCircuit(d), k, m, c[k][m])
  PROVE  Solution(d, c)
<1>. DEFINE b == ParseCircuit(d)
<1>1. /\ \A k \in DOMAIN b : \A x \in DOMAIN b[k] : \E p, q : Says(d, k, b[k][x], p, q)
      /\ \A k \in DOMAIN b : \A x, y \in DOMAIN b[k] : b[k][x].name = b[k][y].name => x = y
      /\ \A p \in DOMAIN d : /\ Depth(d, p) \in DOMAIN b
                             /\ \E x \in DOMAIN b[Depth(d, p)] : b[Depth(d, p)][x].name = d[p].name
  BY ParsedCircuit
<1>2. \A k \in DOMAIN b : \A x \in DOMAIN b[k] :
        Value(b)[k][b[k][x].name] <=> b[k][x].name \in OnesAt(d)[k]
  BY ValuesMatch
<1>3. /\ DOMAIN c = DOMAIN b
      /\ \A k \in DOMAIN b : /\ DOMAIN c[k] = DOMAIN b[k]
                             /\ \A m \in DOMAIN b[k] : RightGate(b, k, m, c[k][m])
  OBVIOUS
<1>. HIDE DEF b
<1>4. ASSUME NEW k \in DOMAIN c, NEW m \in DOMAIN c[k]
      PROVE  /\ k \in DOMAIN b /\ m \in DOMAIN b[k] /\ c[k][m].name = b[k][m].name
             /\ Tagged(d, c[k][m].name) # {}
             /\ \A p \in DOMAIN d : d[p].name = c[k][m].name => Depth(d, p) = k
             /\ c[k][m].output = IF c[k][m].name \in OnesAt(d)[k] THEN 1 ELSE 0
  <2>1. k \in DOMAIN b /\ m \in DOMAIN b[k] /\ RightGate(b, k, m, c[k][m])
    BY <1>3
  <2>2. c[k][m].name = b[k][m].name
    BY <2>1 DEF RightGate
  <2>3. c[k][m].output = IF c[k][m].name \in OnesAt(d)[k] THEN 1 ELSE 0
    <3>1. c[k][m].output = BitOf(Value(b)[k][b[k][m].name])
      BY <2>1 DEF RightGate
    <3>2. Value(b)[k][b[k][m].name] <=> b[k][m].name \in OnesAt(d)[k]
      BY <1>2, <2>1
    <3>. QED BY <2>2, <3>1, <3>2 DEF BitOf
  <2>4. PICK p, q : Says(d, k, b[k][m], p, q)
    BY <1>1, <2>1
  <2>5. Tagged(d, c[k][m].name) = {p, q} /\ Depth(d, p) = k /\ Depth(d, q) = k
    BY <2>2, <2>4 DEF Says
  <2>6. ASSUME NEW r \in DOMAIN d, d[r].name = c[k][m].name PROVE Depth(d, r) = k
    <3>1. r \in Tagged(d, c[k][m].name)
      BY <2>6 DEF Tagged
    <3>. QED BY <2>5, <3>1
  <2>. QED BY <2>1, <2>2, <2>3, <2>5, <2>6
<1>. DEFINE All == UNION {{k} \X DOMAIN c[k] : k \in DOMAIN c}
            Places(n) == {p \in All : c[p[1]][p[2]].name = n}
<1>5. ASSUME NEW p \in DOMAIN d
      PROVE  /\ Cardinality(Places(d[p].name)) = 1
             /\ \A q \in Places(d[p].name) :
                  c[q[1]][q[2]].output = IF IsOne(d, d[p].name) THEN 1 ELSE 0
  <2>. DEFINE k == Depth(d, p)
              n == d[p].name
  <2>1. PICK x \in DOMAIN b[k] : b[k][x].name = n
    BY <1>1
  <2>2. k \in DOMAIN c /\ x \in DOMAIN c[k]
    BY <1>1, <1>3
  <2>3. c[k][x].name = n
    BY <1>4, <2>1, <2>2
  <2>. HIDE DEF k, n
  <2>4. \A q : q \in All <=> \E j \in DOMAIN c : \E y \in DOMAIN c[j] : q = <<j, y>>
    <3>. TAKE q
    <3>1. q \in All <=> \E j \in DOMAIN c : q \in {j} \X DOMAIN c[j]
      OBVIOUS
    <3>2. \A j \in DOMAIN c : q \in {j} \X DOMAIN c[j] <=> \E y \in DOMAIN c[j] : q = <<j, y>>
      OBVIOUS
    <3>. HIDE DEF All
    <3>. QED BY <3>1, <3>2
  <2>5. <<k, x>> \in Places(n)
    <3>1. <<k, x>> \in All
      BY <2>2, <2>4
    <3>. HIDE DEF All
    <3>. QED BY <2>3, <3>1
  <2>6. ASSUME NEW q \in Places(n) PROVE q = <<k, x>>
    <3>1. PICK j \in DOMAIN c : \E y \in DOMAIN c[j] : q = <<j, y>>
      BY <2>4, <2>6
    <3>2. PICK y \in DOMAIN c[j] : q = <<j, y>>
      BY <3>1
    <3>3. c[j][y].name = n
      BY <2>6, <3>2
    <3>4. j = k
      BY <1>4, <3>3 DEF k, n
    <3>5. y \in DOMAIN b[k] /\ b[k][y].name = n
      BY <1>4, <3>3, <3>4
    <3>6. y = x
      BY <1>1, <2>1, <3>5 DEF k
    <3>. QED BY <3>2, <3>4, <3>6
  <2>. HIDE DEF Places
  <2>7. Places(n) = {<<k, x>>}
    BY <2>5, <2>6
  <2>8. Cardinality(Places(n)) = 1
    BY <2>7, FS_Singleton
  <2>9. c[k][x].output = IF IsOne(d, n) THEN 1 ELSE 0
    <3>1. c[k][x].output = IF n \in OnesAt(d)[k] THEN 1 ELSE 0
      BY <1>4, <2>2, <2>3
    <3>2. IsOne(d, n) <=> n \in OnesAt(d)[k]
      BY OneDepth DEF k, n
    <3>. QED BY <3>1, <3>2
  <2>10. ASSUME NEW q \in Places(n)
         PROVE  c[q[1]][q[2]].output = IF IsOne(d, n) THEN 1 ELSE 0
    <3>1. q = <<k, x>>
      BY <2>7
    <3>. QED BY <2>9, <3>1
  <2>. QED BY <2>8, <2>10 DEF n
<1>. HIDE DEF Places
<1>6. \A k \in DOMAIN c : \A m \in DOMAIN c[k] : Tagged(d, c[k][m].name) # {}
  BY <1>4
<1>. QED BY <1>5, <1>6 DEF Solution, Places

-----------------------------------------------------------------------------
(***************************************************************************)
(* The evaluation of the circuit of a file, level after level.             *)
(***************************************************************************)
\* The circuit is that of the document, with the levels that have been solved
\* evaluated and the others as they were parsed.
PartlySolved(b, c, n) ==
  /\ DOMAIN c = DOMAIN b /\ Len(c) = Len(b) /\ n \in 0 .. Len(b)
  /\ \A k \in DOMAIN b :
       /\ c[k] \in Seq(Gate) /\ DOMAIN c[k] = DOMAIN b[k]
       /\ IF k <= n THEN \A m \in DOMAIN b[k] : RightGate(b, k, m, c[k][m]) ELSE c[k] = b[k]

XmlInv ==
  /\ document \in Documents
  /\ IF circuit = <<>> THEN solved = 0 ELSE PartlySolved(ParseCircuit(document), circuit, solved)

LEMMA LevelIsSolved ==
  ASSUME NEW d, WellFormed(d), NEW c, NEW n,
         PartlySolved(ParseCircuit(d), c, n), n < Len(c)
  PROVE  PartlySolved(ParseCircuit(d),
                      [c EXCEPT ![n + 1] = EvaluateLevel(IF n = 0 THEN <<>> ELSE c[n], @, n # 0)],
                      n + 1)
<1>. DEFINE b == ParseCircuit(d)
            k == n + 1
            prev == IF n = 0 THEN <<>> ELSE c[n]
            e == EvaluateLevel(prev, b[k], k # 1)
            next == [c EXCEPT ![n + 1] = EvaluateLevel(prev, @, n # 0)]
<1>1. /\ b \in Circuit /\ Len(b) \in Nat /\ DOMAIN b = 1 .. Len(b)
      /\ \A j \in DOMAIN b : b[j] \in Seq(Gate)
  BY ParsedCircuit, MaxLevelsAssumption
<1>2. Meaningful(b)
  BY ParseMeans
<1>3. /\ DOMAIN c = DOMAIN b /\ Len(c) = Len(b) /\ n \in 0 .. Len(b)
      /\ \A j \in DOMAIN b :
           /\ c[j] \in Seq(Gate) /\ DOMAIN c[j] = DOMAIN b[j]
           /\ IF j <= n THEN \A m \in DOMAIN b[j] : RightGate(b, j, m, c[j][m]) ELSE c[j] = b[j]
  BY DEF PartlySolved
<1>. HIDE DEF b
<1>4. k \in DOMAIN b /\ n \in Nat /\ (k # 1 <=> n # 0) /\ k - 1 = n /\ ~ (k <= n)
  BY <1>1, <1>3
<1>5. c[k] = b[k] /\ b[k] \in Seq(Gate)
  BY <1>1, <1>3, <1>4
<1>6. /\ prev \in Seq(Gate)
      /\ k # 1 => /\ DOMAIN prev = DOMAIN b[k - 1]
                  /\ \A m \in DOMAIN prev : RightGate(b, k - 1, m, prev[m])
  <2>1. CASE n = 0
    BY <1>4, <2>1
  <2>2. CASE n # 0
    <3>1. n \in DOMAIN b /\ n <= n
      BY <1>1, <1>3, <1>4, <2>2
    <3>. QED BY <1>3, <1>4, <2>2, <3>1
  <2>. QED BY <2>1, <2>2
<1>. HIDE DEF prev
<1>7. \A m \in DOMAIN b[k] : RightGate(b, k, m, e[m])
  <2>. HIDE DEF k
  <2>. QED BY <1>1, <1>2, <1>4, <1>6, EvaluateMeans
<1>8. e \in Seq(Gate) /\ Len(e) = Len(b[k])
  BY <1>5, <1>6, EvaluateGives
<1>9. DOMAIN e = DOMAIN b[k]
  <2>. HIDE DEF e, k
  <2>. QED BY <1>5, <1>8
<1>10. /\ DOMAIN next = DOMAIN b /\ next[k] = e
       /\ \A j \in DOMAIN b : j # k => next[j] = c[j]
  <2>1. (n # 0) = (k # 1)
    BY <1>4
  <2>. HIDE DEF k
  <2>. QED BY <1>3, <1>4, <1>5, <2>1 DEF k
<1>11. Len(next) = Len(b)
  BY <1>1, <1>10
<1>. HIDE DEF next, e
<1>12. ASSUME NEW j \in DOMAIN b
       PROVE  /\ next[j] \in Seq(Gate) /\ DOMAIN next[j] = DOMAIN b[j]
              /\ IF j <= k THEN \A m \in DOMAIN b[j] : RightGate(b, j, m, next[j][m])
                 ELSE next[j] = b[j]
  <2>1. CASE j = k
    <3>1. k <= k
      BY <1>4
    <3>. HIDE DEF k
    <3>. QED BY <1>7, <1>8, <1>9, <1>10, <2>1, <3>1
  <2>2. CASE j # k
    <3>1. j <= k <=> j <= n
      BY <1>1, <1>4, <2>2
    <3>. HIDE DEF k
    <3>. QED BY <1>3, <1>10, <2>2, <3>1
  <2>. QED BY <2>1, <2>2
<1>13. k \in 0 .. Len(b)
  BY <1>1, <1>4
<1>. QED BY <1>10, <1>11, <1>12, <1>13 DEF PartlySolved, next, prev, b

LEMMA XmlAlways == XmlSpec => []XmlInv
<1>1. XmlInit => XmlInv
  BY DEF XmlInit, XmlInv
<1>2. ASSUME XmlInv, [XmlNext]_xmlVars PROVE XmlInv'
  <2>1. document \in Documents /\ WellFormed(document)
    BY <1>2, DocumentsAssumption DEF XmlInv
  <2>2. CASE ParseXmlGate
    <3>. DEFINE b == ParseCircuit(document)
    <3>1. /\ b \in Circuit /\ Len(b) \in Nat \ {0} /\ DOMAIN b = 1 .. Len(b)
          /\ \A k \in DOMAIN b : b[k] \in Seq(Gate)
      BY <2>1, ParsedCircuit, MaxLevelsAssumption
    <3>2. circuit' = b /\ document' = document /\ solved' = solved /\ solved = 0
      BY <1>2, <2>2 DEF ParseXmlGate, XmlInv
    <3>3. ParseCircuit(document)' = b
      BY <3>2
    <3>. HIDE DEF b
    <3>4. PartlySolved(b, b, 0) /\ b # <<>>
      BY <3>1 DEF PartlySolved
    <3>. QED BY <2>1, <3>2, <3>3, <3>4 DEF XmlInv
  <2>3. CASE SolveLevel
    <3>. DEFINE b == ParseCircuit(document)
    <3>1. circuit # <<>>
      <4>1. CASE circuit = <<>>
        BY <1>2, <2>3, <4>1 DEF XmlInv, SolveLevel
      <4>. QED BY <4>1
    <3>2. PartlySolved(b, circuit, solved) /\ solved < Len(circuit)
      BY <1>2, <2>3, <3>1 DEF XmlInv, SolveLevel
    <3>3. PartlySolved(b, circuit', solved')
      BY <2>1, <2>3, <3>2, LevelIsSolved DEF SolveLevel
    <3>4. document' = document /\ ParseCircuit(document)' = b
      BY <2>3 DEF SolveLevel
    <3>5. Len(b) \in Nat \ {0} /\ DOMAIN b = 1 .. Len(b)
      BY <2>1, ParsedCircuit, MaxLevelsAssumption
    <3>. HIDE DEF b
    <3>6. circuit' # <<>>
      <4>1. DOMAIN circuit' = 1 .. Len(b)
        BY <3>3, <3>5 DEF PartlySolved
      <4>. QED BY <3>5, <4>1
    <3>. QED BY <2>1, <3>3, <3>4, <3>6 DEF XmlInv
  <2>4. CASE XmlEnded
    BY <1>2, <2>4 DEF XmlEnded, xmlVars, XmlInv
  <2>5. CASE UNCHANGED xmlVars
    BY <1>2, <2>5 DEF xmlVars, XmlInv
  <2>. QED BY <1>2, <2>2, <2>3, <2>4, <2>5 DEF XmlNext
<1>. QED BY <1>1, <1>2, PTL DEF XmlSpec

(* A table that parseCircuit has made of any file, evaluated level after level,
   is the solution of the file: each gate is in it once, and its output is the
   value the nesting of the tags gives it, however many tags the file has, however
   deep they are and in whatever order they come. *)
THEOREM FilesMeanWhatTheySay == XmlSpec => []MeaningIsKept
<1>1. ASSUME XmlInv, circuit # <<>>, solved = Len(circuit)
      PROVE  Solution(document, circuit)
  <2>. DEFINE b == ParseCircuit(document)
  <2>1. WellFormed(document) /\ PartlySolved(b, circuit, solved)
    BY <1>1, DocumentsAssumption DEF XmlInv
  <2>2. Len(b) \in Nat /\ DOMAIN b = 1 .. Len(b)
    BY <2>1, ParsedCircuit, MaxLevelsAssumption
  <2>. HIDE DEF b
  <2>3. /\ DOMAIN circuit = DOMAIN b /\ solved = Len(b)
        /\ \A k \in DOMAIN b : /\ k <= solved /\ DOMAIN circuit[k] = DOMAIN b[k]
                               /\ \A m \in DOMAIN b[k] : RightGate(b, k, m, circuit[k][m])
    <3>1. DOMAIN circuit = DOMAIN b /\ solved = Len(b)
      BY <1>1, <2>1 DEF PartlySolved
    <3>2. \A k \in DOMAIN b : k <= solved
      BY <2>2, <3>1
    <3>. QED BY <2>1, <3>1, <3>2 DEF PartlySolved
  <2>. QED BY <2>1, <2>3, SolvedIsSolution DEF b
<1>2. XmlInv => MeaningIsKept
  BY <1>1 DEF MeaningIsKept
<1>. QED BY <1>2, XmlAlways, PTL

(* What gates takes for granted of the circuits it is given is what parseCircuit
   makes of every file: at least one level and no empty one, each name once in a
   level, fathers that are in the level before, and a father for each input that
   is not given. *)
THEOREM FilesHaveAMeaning ==
  \A d \in Documents : /\ ParseCircuit(d) \in Circuit /\ ParseCircuit(d) # <<>>
                       /\ \A k \in DOMAIN ParseCircuit(d) : ParseCircuit(d)[k] # <<>>
                       /\ Meaningful(ParseCircuit(d))
<1>. TAKE d \in Documents
<1>1. WellFormed(d)
  BY DocumentsAssumption
<1>2. Meaningful(ParseCircuit(d))
  BY <1>1, ParseMeans
<1>. DEFINE c == ParseCircuit(d)
<1>3. /\ c \in Circuit /\ Len(c) \in Nat \ {0} /\ DOMAIN c = 1 .. Len(c)
      /\ \A k \in DOMAIN c : c[k] # <<>>
  BY <1>1, ParsedCircuit, MaxLevelsAssumption
<1>. HIDE DEF c
<1>4. c # <<>>
  BY <1>3
<1>. QED BY <1>2, <1>3, <1>4 DEF c

(* From the files to the results: while no child dies and none is slow, what
   gates writes of a file is its solution, for every batch of files and every
   order in which children evaluate their levels, answer and are read. *)
THEOREM FilesAreSolved ==
  ASSUME NEW docs \in [Files -> Documents]
  PROVE  Spec /\ (\A f \in Files : table[f] = ParseCircuit(docs[f]))
           => [](faults = 0 => \A f \in Files : \A s \in DOMAIN saved[f] :
                   Solution(docs[f], saved[f][s]))
<1>. DEFINE b == [f \in Files |-> ParseCircuit(docs[f])]
            Right == faults = 0 => \A f \in Files : \A s \in DOMAIN saved[f] : Solution(docs[f], saved[f][s])
<1>. DEFINE Kept == b \in Batches /\ GatesInv(b)
<1>1. Init /\ (\A f \in Files : table[f] = ParseCircuit(docs[f])) => Kept
  <2>. SUFFICES ASSUME Init, \A f \in Files : table[f] = ParseCircuit(docs[f]) PROVE Kept
    OBVIOUS
  <2>1. table \in [Files -> Circuit] /\ table \in Batches
    BY BatchesAssumption DEF Init
  <2>2. table = b
    BY <2>1
  <2>. HIDE DEF b
  <2>. QED BY <2>1, <2>2, GatesInit
<1>. HIDE DEF b
<1>2. ASSUME b \in Batches, GatesInv(b), [Next]_vars PROVE GatesInv(b)'
  BY <1>2, GatesInductive
<1>3. ASSUME GatesInv(b), faults = 0, NEW f \in Files, NEW s \in DOMAIN saved[f]
      PROVE  Solution(docs[f], saved[f][s])
  <2>. DEFINE c == saved[f][s]
  <2>1. b[f] = ParseCircuit(docs[f]) /\ docs[f] \in Documents
    BY DEF b
  <2>2. Savings(b)
    BY <1>3 DEF GatesInv
  <2>3. /\ DOMAIN c = DOMAIN b[f]
        /\ \A k \in DOMAIN b[f] : /\ DOMAIN c[k] = DOMAIN b[f][k]
                                  /\ \A m \in DOMAIN b[f][k] : RightGate(b[f], k, m, c[k][m])
    BY <1>3, <2>2 DEF Savings
  <2>4. WellFormed(docs[f])
    BY <2>1, DocumentsAssumption
  <2>. HIDE DEF c
  <2>5. Solution(docs[f], c)
    BY <2>1, <2>3, <2>4, SolvedIsSolution
  <2>. QED BY <2>5 DEF c
<1>4. Kept => Right
  BY <1>3
<1>5. Kept /\ [Next]_vars => Kept'
  BY <1>2
<1>. HIDE DEF Kept
<1>. QED BY <1>1, <1>4, <1>5, PTL DEF Spec
=============================================================================
