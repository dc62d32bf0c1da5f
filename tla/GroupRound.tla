------------------------------ MODULE GroupRound ------------------------------
(***************************************************************************)
(* How a grouph builds its group, without its threads: while the group is  *)
(* not whole it asks for one of the countries its restrictions leave, or   *)
(* says there is none.  These are Ask, NoCandidate, Die and ReadAnswer of  *)
(* Fifa for one group, whose head is country 0.                            *)
(***************************************************************************)
EXTENDS Conditions, Sequences

VARIABLES table,    \* its copy of the table
          used,     \* the "used" flags of that copy
          drawn,    \* the countries of its group after the head
          request,  \* the country it asked for last
          state     \* "draw", "ask", or how it ended

rvars == <<table, used, drawn, request, state>>

Init ==
  /\ used \subseteq DOMAIN table
  /\ drawn = <<>>
  /\ request = -1
  /\ state = "draw"

Ask ==
  /\ state = "draw"
  /\ ~ Dies(table, 0, used)
  /\ request' \in Candidates(table, 0, used)
  /\ state' = "ask"
  /\ UNCHANGED <<table, used, drawn>>

NoCandidate ==
  /\ state = "draw"
  /\ ~ Dies(table, 0, used)
  /\ Candidates(table, 0, used) = {}
  /\ state' = "none"
  /\ UNCHANGED <<table, used, drawn, request>>

Die ==
  /\ state = "draw"
  /\ Dies(table, 0, used)
  /\ state' = "crash"
  /\ UNCHANGED <<table, used, drawn, request>>

ReadAnswer(response) ==
  /\ state = "ask"
  /\ used' = used \cup {request}
  /\ drawn' = IF response THEN Append(drawn, request) ELSE drawn
  /\ state' = IF Len(drawn') = 3 THEN "whole" ELSE "draw"
  /\ UNCHANGED <<table, request>>

Next == Ask \/ NoCandidate \/ Die \/ \E response \in BOOLEAN : ReadAnswer(response)

Spec == Init /\ [][Next]_rvars
=============================================================================
