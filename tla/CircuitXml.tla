----------------------------- MODULE CircuitXml -----------------------------
(***************************************************************************)
(* How pipe makes a table of levels out of the tags of a file (pipe.c).    *)
(*                                                                         *)
(* A tag is a gate, and the tags inside it are gates it feeds.  A gate     *)
(* that is fed by two others appears inside both: the second time it is    *)
(* found in its level and only gets its second father.  A document is the  *)
(* sequence of its tags in the order of the text, each with its attributes *)
(* and the place of the last tag inside it, its own if there is none.      *)
(***************************************************************************)
EXTENDS CircuitMeaning

CONSTANTS
  Documents,  \* the <gates> of the files that may be dropped in pipeDir
  MaxLevels   \* _MAX_GATES_LEVELS_: the rows a table has room for, and the gates of one

VARIABLES document,  \* the file
          circuit,   \* the table of its circuit
          solved     \* how many of its levels have been evaluated

xmlVars == <<document, circuit, solved>>

-----------------------------------------------------------------------------
(***************************************************************************)
(* The nesting of the tags, and the format of the files: a gate is always  *)
(* at the same depth, and its first tag and the tags it is inside of have  *)
(* two signals for it.                                                     *)
(***************************************************************************)
Tag == [name : Names, type : Types, last : Nat,
        input : {0, 1, Unknown} \X {0, 1, Unknown}]

\* The tags that tag p is inside of, how deep it is, and the innermost.
Around(d, p) == {q \in 1 .. p - 1 : p <= d[q].last}
Depth(d, p) == Cardinality(Around(d, p)) + 1
Father(d, p) == IF Around(d, p) = {} THEN 0
                ELSE CHOOSE q \in Around(d, p) : \A r \in Around(d, p) : r <= q

\* The tags of a gate, and the first of them.
Tagged(d, n) == {p \in DOMAIN d : d[p].name = n}
First(d, n) == CHOOSE p \in Tagged(d, n) : \A q \in Tagged(d, n) : p <= q

Feeding(d, n) == {p \in Tagged(d, n) : Father(d, p) # 0}
Given(tag) == {s \in {1, 2} : tag.input[s] # Unknown}

Nested(d) ==
  \A p \in DOMAIN d : /\ d[p].last \in p .. Len(d)
                      /\ \A q \in p .. d[p].last : d[q].last <= d[p].last

\* The rows of the table, and the gates of a row that parseCircuit sets up, are
\* MaxLevels; countLevels needs a row that is empty to stop at.
Fits(d) ==
  \A p \in DOMAIN d :
    /\ Depth(d, p) < MaxLevels
    /\ Cardinality({d[q].name : q \in {r \in DOMAIN d : Depth(d, r) = Depth(d, p)}}) <= MaxLevels

WellFormed(d) ==
  /\ d \in Seq(Tag) /\ d # <<>> /\ Nested(d) /\ Fits(d)
  /\ \A p, q \in DOMAIN d : d[p].name = d[q].name =>
       /\ Depth(d, p) = Depth(d, q)
       /\ Father(d, p) = 0 => p = q
  /\ \A p \in DOMAIN d : Cardinality(Given(d[First(d, d[p].name)]))
                           + Cardinality(Feeding(d, d[p].name)) = 2

ASSUME MaxLevelsAssumption == MaxLevels \in Nat \ {0}
ASSUME NamesAssumption == NoName \notin Names
ASSUME DocumentsAssumption == \A d \in Documents : WellFormed(d)

-----------------------------------------------------------------------------
\* Mutant: the second father replaces the first.
LoadOneFather(father, tag, t, k) ==
  LET same == {m \in DOMAIN t[k] : t[k][m].name = tag.name}
  IN  IF same # {}
      THEN [t EXCEPT ![k][CHOOSE m \in same : TRUE].fathers[1] = father]
      ELSE [t EXCEPT ![k] = Append(@, [name |-> tag.name, type |-> tag.type,
                                       fathers |-> <<father, NoName>>,
                                       input |-> tag.input, output |-> Unknown])]

\* checkGateIsLoaded, and a second father for a gate of level k that is
\* there already or a new gate for one that is not.
Load(father, tag, t, k) ==
  LET same == {m \in DOMAIN t[k] : t[k][m].name = tag.name}
  IN  IF same # {}
      THEN [t EXCEPT ![k][CHOOSE m \in same : TRUE].fathers[2] = father]
      ELSE [t EXCEPT ![k] = Append(@, [name |-> tag.name, type |-> tag.type,
                                       fathers |-> <<father, NoName>>,
                                       input |-> tag.input, output |-> Unknown])]

\* A call of parseGatesTags: the tags from one to another, with the name of the
\* tag they are inside of and their level.
Calls(d) == [father : Names \cup {NoName}, from : 1 .. Len(d) + 1, to : 0 .. Len(d), level : Nat]

\* The loads of the tags, in their order: those inside a tag, the tag, those
\* after it.
ParseGatesTags(d) ==
  LET loads[c \in Calls(d)] ==
        IF c.from > c.to THEN <<>>
        ELSE LET tag == d[c.from]
             IN  loads[[father |-> tag.name, from |-> c.from + 1, to |-> tag.last,
                        level |-> c.level + 1]]
                   \o <<[tag |-> c.from, father |-> c.father, level |-> c.level]>>
                   \o loads[[c EXCEPT !.from = tag.last + 1]]
  IN  loads[[father |-> NoName, from |-> 1, to |-> Len(d), level |-> 1]]

\* The table after those loads.
Table(d, loads) ==
  LET t[m \in 0 .. Len(loads)] ==
        IF m = 0 THEN [k \in 1 .. MaxLevels |-> <<>>]
        ELSE Load(loads[m].father, d[loads[m].tag], t[m - 1], loads[m].level)
  IN  t[Len(loads)]

\* The levels before the first empty one.
CountLevels(t) ==
  CHOOSE n \in 0 .. MaxLevels - 1 : (\A k \in 1 .. n : t[k] # <<>>) /\ t[n + 1] = <<>>

ParseCircuit(d) ==
  LET t == Table(d, ParseGatesTags(d)) IN [k \in 1 .. CountLevels(t) |-> t[k]]

-----------------------------------------------------------------------------
XmlInit == document \in Documents /\ circuit = <<>> /\ solved = 0

ParseXmlGate ==
  /\ circuit = <<>>
  /\ circuit' = ParseCircuit(document)
  /\ UNCHANGED <<document, solved>>

\* What a round of Gates does for one file.
SolveLevel ==
  /\ solved < Len(circuit)
  /\ circuit' = [circuit EXCEPT ![solved + 1] =
                   EvaluateLevel(IF solved = 0 THEN <<>> ELSE circuit[solved], @, solved # 0)]
  /\ solved' = solved + 1
  /\ UNCHANGED document

XmlEnded == circuit # <<>> /\ solved = Len(circuit) /\ UNCHANGED xmlVars

XmlNext == ParseXmlGate \/ SolveLevel \/ XmlEnded

XmlSpec == XmlInit /\ [][XmlNext]_xmlVars

-----------------------------------------------------------------------------
(***************************************************************************)
(* The value of a gate in the file itself, where it has the inputs of its  *)
(* first tag and one more signal for each tag it is inside of.             *)
(***************************************************************************)
\* The gates at a depth that are one, by those of the depth before.
OnesOf(d, k, before) ==
  {n \in {d[p].name : p \in {q \in DOMAIN d : Depth(d, q) = k}} :
     LET tag == d[First(d, n)]
     IN  Combine(tag.type, Cardinality({s \in {1, 2} : tag.input[s] = 1})
                   + Cardinality({p \in Feeding(d, n) : d[Father(d, p)].name \in before}))}

OnesAt(d) ==
  LET ones[k \in 0 .. MaxLevels] == IF k = 0 THEN {} ELSE OnesOf(d, k, ones[k - 1])
  IN  ones

IsOne(d, n) == \E k \in 1 .. MaxLevels : n \in OnesAt(d)[k]

\* Whether c is the table of d solved: each gate of d is there once, and nothing
\* else is, with the value that the nesting of the tags gives it.
Solution(d, c) ==
  LET Places(n) == {p \in UNION {{k} \X DOMAIN c[k] : k \in DOMAIN c} : c[p[1]][p[2]].name = n}
  IN  /\ \A k \in DOMAIN c : \A m \in DOMAIN c[k] : Tagged(d, c[k][m].name) # {}
      /\ \A p \in DOMAIN d :
           LET n == d[p].name
           IN  /\ Cardinality(Places(n)) = 1
               /\ \A q \in Places(n) : c[q[1]][q[2]].output = IF IsOne(d, n) THEN 1 ELSE 0

(* Once every level has been evaluated each gate of the file is in the table
   once, and nothing else is, with the value that the nesting of the tags gives
   it: neither the order in which they are parsed, nor which father comes first,
   nor an input beside a father makes a difference. *)
MeaningIsKept == circuit # <<>> /\ solved = Len(circuit) => Solution(document, circuit)
=============================================================================
