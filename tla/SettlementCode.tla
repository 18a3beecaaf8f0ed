--------------------------- MODULE SettlementCode ---------------------------
(***************************************************************************)
(* The code of a new settlement: getSettlementCode draws one, and looks    *)
(* whether a settlement has it already. getEvseStationCode does the same   *)
(* for the code of a new station. A code is drawn from 36^6; what matters  *)
(* is which ones are taken.                                                *)
(***************************************************************************)
EXTENDS Naturals, FiniteSets

CONSTANTS
  Callers,   \* the runs and requests that make a settlement
  Codes,     \* the codes there are
  MaxTaken   \* bound: codes taken in a behaviour; fewer than there are

NoCode == "none"

VARIABLES
  taken,  \* codes of the settlements in the table
  pc,     \* each caller: "idle", "draw", "check" or "save"
  code,   \* the variable of the function
  inner   \* the variable of the loop's body

vars == <<taken, pc, code, inner>>

\* The table may hold settlements of earlier days.
Init ==
  /\ taken \in {s \in SUBSET Codes : Cardinality(s) <= MaxTaken}
  /\ pc = [g \in Callers |-> "idle"]
  /\ code = [g \in Callers |-> NoCode] /\ inner = [g \in Callers |-> NoCode]

Busy == {g \in Callers : pc[g] # "idle"}
Begin(g) ==
  /\ pc[g] = "idle" /\ Cardinality(taken) + Cardinality(Busy) < MaxTaken
  /\ pc' = [pc EXCEPT ![g] = "draw"]
  /\ UNCHANGED <<taken, code, inner>>

Draw(g, c) ==
  /\ pc[g] = "draw"
  /\ code' = [code EXCEPT ![g] = c]
  /\ pc' = [pc EXCEPT ![g] = "check"]
  /\ UNCHANGED <<taken, inner>>

\* While the code is taken, the loop draws another one, into a variable of its own.
Redraw(g, c) ==
  /\ pc[g] = "check" /\ code[g] \in taken
  /\ inner' = [inner EXCEPT ![g] = c]
  /\ UNCHANGED <<taken, pc, code>>

Return(g) ==
  /\ pc[g] = "check" /\ code[g] \notin taken
  /\ pc' = [pc EXCEPT ![g] = "save"]
  /\ inner' = [inner EXCEPT ![g] = NoCode]
  /\ UNCHANGED <<taken, code>>

\* No index makes the column unique.
Save(g) ==
  /\ pc[g] = "save"
  /\ taken' = taken \cup {code[g]}
  /\ pc' = [pc EXCEPT ![g] = "idle"]
  /\ code' = [code EXCEPT ![g] = NoCode]
  /\ UNCHANGED inner

Acts(g) == \/ Begin(g) \/ Return(g) \/ Save(g) \/ \E c \in Codes : Draw(g, c) \/ Redraw(g, c)
Next == \E g \in Callers : Acts(g)

\* Queries return, and a random draw yields each code again and again.
Spec ==
  /\ Init /\ [][Next]_vars
  /\ \A g \in Callers : WF_vars(Acts(g)) /\ \A c \in Codes : SF_vars(Redraw(g, c))

\* helpers/index.js:106 (and :132 for stations): "Loop until a unique code is
\* generated": a caller that draws codes comes to one that is not taken.
UniqueCodeGenerated == \A g \in Callers : (pc[g] = "check") ~> (pc[g] # "check")
=============================================================================
