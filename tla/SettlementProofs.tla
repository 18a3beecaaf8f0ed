-------------------------- MODULE SettlementProofs --------------------------
(***************************************************************************)
(* The safety properties of Settlement, and its types, for any number of   *)
(* sessions, partners, runs, requests and failures. A sum is never         *)
(* computed: that a settlement is worth its rows follows from its run and  *)
(* the table holding the same amounts for the same rows.                   *)
(***************************************************************************)
EXTENDS Settlement, TLAPS

IsRun(r) == r = [rows |-> r.rows, amount |-> r.amount, settlement |-> r.settlement]
RowType == [there : BOOLEAN, amount : Amounts \cup {0}, settlement : Numbers \cup {0},
            settled : BOOLEAN, paid : SUBSET (Partners \cup {Nobody})]

\* What everyone is at, and what a generator knows there.
Shape ==
  /\ made \in 0..MaxSettlements
  /\ net \in [Sessions -> Amounts \cup {0}] /\ revenue \in [Sessions -> RowType]
  /\ pc \in [Generators \cup Admins -> Labels]
  /\ run = [g \in Generators |-> run[g]]
  /\ form \in [Admins -> [settlement : Numbers \cup {0}, partner : Partners \cup {Nobody}]]
  /\ counted \in [Numbers -> SUBSET Sessions]
  /\ \A g \in Generators :
       /\ IsRun(run[g]) /\ run[g].rows \subseteq Sessions /\ run[g].settlement \in 0..made
       /\ pc[g] \in {"idle", "read", "dates"} => run[g].rows = {} /\ run[g].settlement = 0
       /\ pc[g] = "save" => run[g].settlement = 0
       /\ pc[g] \in {"partners", "mark"} => run[g].settlement # 0

\* A number belongs to one generator, and who shares a session contends for it.
Apart ==
  \A g, h \in Generators : g # h =>
    /\ run[g].settlement # 0 => run[g].settlement # run[h].settlement
    /\ run[g].rows \cap run[h].rows \subseteq contended

\* A session that was counted carries a number, or the one who counted it holds it.
Tracked ==
  \A q \in 1..made : \A t \in counted[q] :
    \/ q \in spoiled \/ revenue[t].settlement # 0
    \/ \E g \in Generators : run[g].settlement = q /\ t \in run[g].rows

\* Whoever holds a session alone is the only one who may have counted it.
Unpaid ==
  \A g \in Generators : \A t \in run[g].rows \ contended : \A q \in (1..made) \ spoiled :
    t \in counted[q] => run[g].settlement = q

PaidInv == Shape /\ Apart /\ Tracked /\ Unpaid /\ PaidOnce

USE SettlementAssumption DEF Numbers, At

\* A record of a generator keeps its form when a field is set.
LEMMA RunFields ==
  ASSUME NEW r, IsRun(r)
  PROVE  \A n : LET u == [r EXCEPT !.settlement = n]
                IN  IsRun(u) /\ u.rows = r.rows /\ u.settlement = n
<1> DEFINE u == [rows |-> r.rows, amount |-> r.amount, settlement |-> r.settlement]
<1>1. r = u
  BY DEF IsRun
<1> HIDE DEF u
<1>2. ASSUME NEW n PROVE LET v == [r EXCEPT !.settlement = n]
                         IN  IsRun(v) /\ v.rows = r.rows /\ v.settlement = n
  <2>1. [r EXCEPT !.settlement = n] = [rows |-> r.rows, amount |-> r.amount, settlement |-> n]
    BY <1>1 DEF u
  <2> QED
    BY <2>1 DEF IsRun
<1> QED
  BY <1>2

\* A move of one generator leaves the others where they are.
LEMMA Moves ==
  ASSUME Shape, NEW g \in Generators, NEW label, NEW r, Go(g, label, r)
  PROVE  /\ run'[g] = r /\ pc'[g] = label
         /\ \A h \in Generators \ {g} : run'[h] = run[h] /\ pc'[h] = pc[h]
         /\ run' = [h \in Generators |-> run'[h]]
         /\ label \in Labels => pc' \in [Generators \cup Admins -> Labels]
<1>1. pc \in [Generators \cup Admins -> Labels]
  BY DEF Shape
<1>2. run = [h \in Generators |-> run[h]]
  BY DEF Shape
<1>3. run' = [run EXCEPT ![g] = r] /\ pc' = [pc EXCEPT ![g] = label]
  BY DEF Go
<1>4. run'[g] = r /\ \A h \in Generators \ {g} : run'[h] = run[h]
  BY <1>2, <1>3
<1>5. run' = [h \in Generators |-> run'[h]]
  BY <1>2, <1>3
<1> QED
  BY <1>1, <1>3, <1>4, <1>5

\* The history only grows, and a session two generators hold is contended.
LEMMA HistoryGrows ==
  ASSUME NoteHistory
  PROVE  /\ contended \subseteq contended' /\ spoiled \subseteq spoiled'
         /\ \A g, h \in Generators : g # h =>
              run'[g].rows \cap run'[h].rows \cap Sessions \subseteq contended'
<1>1. contended \subseteq contended' /\ spoiled \subseteq spoiled'
  BY DEF NoteHistory
<1>2. ASSUME NEW g \in Generators, NEW h \in Generators, g # h,
             NEW t \in run'[g].rows \cap run'[h].rows \cap Sessions
      PROVE  t \in contended'
  BY <1>2 DEF NoteHistory
<1> QED
  BY <1>1, <1>2

\* What a settlement was summed up from is noted when it is made.
LEMMA CountedSame ==
  ASSUME Shape, NoteHistory, made' = made PROVE counted' = counted
BY DEF NoteHistory, Shape

\* What was summed up is sessions.
LEMMA CountedTyped ==
  ASSUME Shape, NoteHistory, \A g \in Generators : run'[g].rows \subseteq Sessions
  PROVE  counted' \in [Numbers -> SUBSET Sessions]
<1> DEFINE fresh(s) == UNION {run'[g].rows : g \in {h \in Generators : run'[h].settlement = s}}
<1>1. ASSUME NEW s \in Numbers PROVE fresh(s) \subseteq Sessions /\ counted[s] \subseteq Sessions
  BY DEF Shape
<1>2. counted' = [s \in Numbers |-> IF made' = s /\ made # s THEN fresh(s) ELSE counted[s]]
  BY DEF NoteHistory
<1> HIDE DEF fresh
<1> QED
  BY <1>1, <1>2

------------------------------------------------------------------------------
(* The shape *)

\* A step of one generator, the rows keeping their types.
LEMMA ShapeMoves ==
  ASSUME Shape, NoteHistory, NEW g \in Generators, NEW label \in Labels, NEW r, Go(g, label, r),
         IsRun(r), r.rows \subseteq Sessions, r.settlement \in 0..made',
         made' \in made..MaxSettlements, UNCHANGED <<net, form>>,
         revenue' \in [Sessions -> RowType],
         label \in {"idle", "read", "dates"} => r.rows = {} /\ r.settlement = 0,
         label = "save" => r.settlement = 0,
         label \in {"partners", "mark"} => r.settlement # 0
  PROVE  Shape'
<1>1. /\ made' \in 0..MaxSettlements /\ net' \in [Sessions -> Amounts \cup {0}]
      /\ form' \in [Admins -> [settlement : Numbers \cup {0}, partner : Partners \cup {Nobody}]]
  BY DEF Shape
<1>2. /\ pc' \in [Generators \cup Admins -> Labels] /\ run' = [h \in Generators |-> run'[h]]
      /\ run'[g] = r /\ pc'[g] = label
      /\ \A h \in Generators \ {g} : run'[h] = run[h] /\ pc'[h] = pc[h]
  BY Moves
<1>3. ASSUME NEW h \in Generators
      PROVE  /\ IsRun(run[h])' /\ run'[h].rows \subseteq Sessions
             /\ run'[h].settlement \in 0..made'
             /\ pc'[h] \in {"idle", "read", "dates"} => run'[h].rows = {} /\ run'[h].settlement = 0
             /\ pc'[h] = "save" => run'[h].settlement = 0
             /\ pc'[h] \in {"partners", "mark"} => run'[h].settlement # 0
  <2>1. CASE h = g
    BY <1>2, <2>1 DEF IsRun
  <2>2. CASE h # g
    <3>1. run'[h] = run[h] /\ pc'[h] = pc[h]
      BY <1>2, <2>2
    <3>2. 0..made \subseteq 0..made'
      BY DEF Shape
    <3> QED
      BY <3>1, <3>2 DEF Shape, IsRun
  <2> QED
    BY <2>1, <2>2
<1>4. counted' \in [Numbers -> SUBSET Sessions]
  BY <1>3, CountedTyped
<1> QED
  BY <1>1, <1>2, <1>3, <1>4 DEF Shape

\* A step of someone else, no generator moving.
LEMMA ShapeStays ==
  ASSUME Shape, NoteHistory, UNCHANGED <<run, made>>, \A g \in Generators : pc'[g] = pc[g],
         pc' \in [Generators \cup Admins -> Labels], net' \in [Sessions -> Amounts \cup {0}],
         form' \in [Admins -> [settlement : Numbers \cup {0}, partner : Partners \cup {Nobody}]],
         revenue' \in [Sessions -> RowType]
  PROVE  Shape'
<1>1. counted' \in [Numbers -> SUBSET Sessions]
  BY CountedTyped DEF Shape
<1>2. ASSUME NEW g \in Generators
      PROVE  /\ IsRun(run[g])' /\ run'[g].rows \subseteq Sessions
             /\ run'[g].settlement \in 0..made'
             /\ pc'[g] \in {"idle", "read", "dates"} => run'[g].rows = {} /\ run'[g].settlement = 0
             /\ pc'[g] = "save" => run'[g].settlement = 0
             /\ pc'[g] \in {"partners", "mark"} => run'[g].settlement # 0
  BY DEF Shape, IsRun
<1> QED
  BY <1>1, <1>2 DEF Shape

\* A row keeps its type, and its settlement, when its other fields are set.
LEMMA RowFields ==
  ASSUME NEW r \in RowType
  PROVE  /\ \A a \in Amounts \cup {0} :
              Synced(r, a) \in RowType /\ Synced(r, a).settlement = r.settlement
         /\ \A p \in SUBSET (Partners \cup {Nobody}) :
              LET u == [r EXCEPT !.paid = p] IN u \in RowType /\ u.settlement = r.settlement
         /\ \A p \in SUBSET (Partners \cup {Nobody}) :
              LET u == [r EXCEPT !.settled = TRUE, !.paid = p]
              IN  u \in RowType /\ u.settlement = r.settlement
         /\ \A s \in Numbers :
              LET u == [r EXCEPT !.settlement = s] IN u \in RowType /\ u.settlement = s
BY DEF RowType, Synced

------------------------------------------------------------------------------
(* The invariant *)

\* What a step that makes no settlement does to a generator: it may take sessions
\* without a number, keep what it has, or let go of sessions that have a number by
\* then, or that it has not counted; a failure spoils its settlement.
Fair(g) ==
  /\ run'[g].settlement = run[g].settlement \/ (run'[g].settlement = 0 /\ run'[g].rows = {})
  /\ \A t \in run'[g].rows \ run[g].rows :
       run[g].settlement = 0 /\ revenue[t].settlement = 0 /\ revenue'[t].settlement = 0
  /\ \A t \in run[g].rows \ run'[g].rows :
       \/ run[g].settlement = 0 \/ run[g].settlement \in spoiled' \/ revenue'[t].settlement # 0

\* Steps that are fair to every generator keep the invariant.
LEMMA FairSteps ==
  ASSUME PaidInv, Shape', NoteHistory, made' = made, \A g \in Generators : Fair(g),
         \A t \in Sessions : revenue[t].settlement # 0 => revenue'[t].settlement # 0
  PROVE  PaidInv'
<1>1. counted' = counted /\ contended \subseteq contended' /\ spoiled \subseteq spoiled'
  BY CountedSame, HistoryGrows DEF PaidInv
<1>2. ASSUME NEW g \in Generators, NEW h \in Generators, g # h
      PROVE  run'[g].rows \cap run'[h].rows \subseteq contended'
  BY <1>2, HistoryGrows DEF Shape
<1>3. Apart'
  <2>1. ASSUME NEW g \in Generators, NEW h \in Generators, g # h, run'[g].settlement # 0
        PROVE  run'[g].settlement # run'[h].settlement
    <3>1. run[g].settlement = run'[g].settlement
      BY <2>1 DEF Fair
    <3>2. run[g].settlement # run[h].settlement
      BY <2>1, <3>1 DEF PaidInv, Apart
    <3> QED
      BY <2>1, <3>1, <3>2 DEF Fair
  <2> QED
    BY <1>2, <2>1 DEF Apart
<1>4. Tracked'
  <2> SUFFICES ASSUME NEW q \in 1..made, NEW t \in counted[q],
                      q \notin spoiled', revenue'[t].settlement = 0
               PROVE  \E g \in Generators : run'[g].settlement = q /\ t \in run'[g].rows
    BY <1>1 DEF Tracked
  <2>1. t \in Sessions /\ q \in Nat \ {0}
    BY DEF PaidInv, Shape
  <2>2. PICK g \in Generators : run[g].settlement = q /\ t \in run[g].rows
    BY <1>1, <2>1 DEF PaidInv, Tracked
  <2>3. t \in run'[g].rows
    BY <2>1, <2>2 DEF Fair
  <2>4. run'[g].settlement = q
    BY <2>2, <2>3 DEF Fair
  <2> QED
    BY <2>3, <2>4
<1>5. Unpaid'
  <2> SUFFICES ASSUME NEW g \in Generators, NEW t \in run'[g].rows, t \notin contended',
                      NEW q \in 1..made, q \notin spoiled', t \in counted[q]
               PROVE  run'[g].settlement = q
    BY <1>1 DEF Unpaid
  <2>1. CASE t \in run[g].rows
    <3>1. run[g].settlement = q
      BY <1>1, <2>1 DEF PaidInv, Unpaid
    <3> QED
      BY <3>1 DEF Fair
  <2>2. CASE t \notin run[g].rows
    <3>1. run[g].settlement = 0 /\ revenue[t].settlement = 0 /\ revenue'[t].settlement = 0
      BY <2>2 DEF Fair
    <3>2. PICK h \in Generators : run[h].settlement = q /\ t \in run[h].rows
      BY <1>1, <3>1 DEF PaidInv, Tracked
    <3>3. q \in Nat \ {0}
      BY DEF PaidInv, Shape
    <3>4. g # h
      BY <3>1, <3>2, <3>3
    <3>5. t \in run'[h].rows
      BY <3>1, <3>2, <3>3 DEF Fair
    <3> QED
      BY <1>2, <3>4, <3>5
  <2> QED
    BY <2>1, <2>2
<1>6. PaidOnce'
  BY <1>1 DEF PaidInv, PaidOnce
<1> QED
  BY <1>3, <1>4, <1>5, <1>6 DEF PaidInv

\* A settlement that is made now is summed up from what its generator holds.
LEMMA SettlesOnce ==
  ASSUME PaidInv, Shape', NoteHistory, NEW g \in Generators, SaveSettlement(g)
  PROVE  PaidInv'
<1>1. /\ made' = made + 1 /\ made \in Nat /\ made + 1 \in Numbers /\ revenue' = revenue
      /\ pc[g] = "save" /\ Go(g, "partners", [run[g] EXCEPT !.settlement = made + 1])
  BY DEF SaveSettlement, PaidInv, Shape
<1>2. /\ run'[g].settlement = made + 1 /\ run'[g].rows = run[g].rows /\ run[g].settlement = 0
      /\ \A h \in Generators \ {g} : run'[h] = run[h] /\ run[h].settlement \in 0..made
  <2>1. IsRun(run[g]) /\ run[g].settlement = 0
        /\ \A h \in Generators : run[h].settlement \in 0..made
    BY <1>1 DEF PaidInv, Shape
  <2>2. LET u == [run[g] EXCEPT !.settlement = made + 1]
        IN  u.rows = run[g].rows /\ u.settlement = made + 1
    BY <2>1, RunFields
  <2>3. run'[g] = [run[g] EXCEPT !.settlement = made + 1]
        /\ \A h \in Generators \ {g} : run'[h] = run[h]
    BY <1>1, Moves DEF PaidInv
  <2> QED
    BY <2>1, <2>2, <2>3
<1>3. contended \subseteq contended' /\ spoiled \subseteq spoiled'
  BY HistoryGrows
<1>4. ASSUME NEW h \in Generators, NEW i \in Generators, h # i
      PROVE  run'[h].rows \cap run'[i].rows \subseteq contended'
  BY <1>4, HistoryGrows DEF Shape
<1>5. \A q \in 1..made : counted'[q] = counted[q]
  BY <1>1 DEF NoteHistory
<1>6. counted'[made + 1] = run[g].rows
  <2>1. {h \in Generators : run'[h].settlement = made + 1} = {g}
    BY <1>1, <1>2
  <2>2. counted'[made + 1] = UNION {run'[h].rows : h \in {i \in Generators : run'[i].settlement = made + 1}}
    BY <1>1 DEF NoteHistory
  <2>3. UNION {run'[h].rows : h \in {g}} = run'[g].rows
    OBVIOUS
  <2> QED
    BY <1>2, <2>1, <2>2, <2>3
<1>7. \A q \in 1..made' : q \in 1..made \/ q = made + 1
  BY <1>1
\* Nobody counted before what the generator holds alone.
<1>8. ASSUME NEW t \in run[g].rows, t \notin contended', NEW q \in 1..made, t \in counted[q]
      PROVE  q \in spoiled'
  BY <1>1, <1>2, <1>3, <1>8 DEF PaidInv, Unpaid
<1>9. Apart'
  <2>1. ASSUME NEW h \in Generators, NEW i \in Generators, h # i, run'[h].settlement # 0
        PROVE  run'[h].settlement # run'[i].settlement
    <3>1. CASE h = g
      BY <1>1, <1>2, <2>1, <3>1
    <3>2. CASE i = g
      BY <1>1, <1>2, <2>1, <3>2
    <3>3. CASE h # g /\ i # g
      BY <1>2, <2>1, <3>3 DEF PaidInv, Apart
    <3> QED
      BY <3>1, <3>2, <3>3
  <2> QED
    BY <1>4, <2>1 DEF Apart
<1>10. Tracked'
  <2>1. ASSUME NEW q \in 1..made, NEW t \in counted[q]
        PROVE  \/ q \in spoiled' \/ revenue'[t].settlement # 0
               \/ \E h \in Generators : run'[h].settlement = q /\ t \in run'[h].rows
    <3>1. CASE \E h \in Generators : run[h].settlement = q /\ t \in run[h].rows
      <4>1. PICK h \in Generators : run[h].settlement = q /\ t \in run[h].rows
        BY <3>1
      <4>2. h # g
        BY <1>2, <4>1
      <4> QED
        BY <1>2, <4>1, <4>2
    <3> QED
      BY <1>1, <1>3, <3>1 DEF PaidInv, Tracked
  <2> QED
    BY <1>2, <1>5, <1>6, <1>7, <2>1 DEF Tracked
<1>11. Unpaid'
  <2> SUFFICES ASSUME NEW h \in Generators, NEW t \in run'[h].rows, t \notin contended',
                      NEW q \in 1..made', q \notin spoiled', t \in counted'[q]
               PROVE  run'[h].settlement = q
    BY DEF Unpaid
  <2>1. CASE h = g
    BY <1>2, <1>5, <1>7, <1>8, <2>1
  <2>2. CASE h # g /\ q = made + 1
    BY <1>2, <1>4, <1>6, <2>2
  <2>3. CASE h # g /\ q \in 1..made
    BY <1>2, <1>3, <1>5, <2>3 DEF PaidInv, Unpaid
  <2> QED
    BY <1>7, <2>1, <2>2, <2>3
<1>12. PaidOnce'
  <2> SUFFICES ASSUME NEW s \in 1..made', NEW q \in 1..made', s # q,
                      s \notin spoiled', q \notin spoiled',
                      NEW t \in counted'[s] \cap counted'[q], t \notin contended'
               PROVE  FALSE
    BY DEF PaidOnce
  <2>1. CASE s \in 1..made /\ q \in 1..made
    BY <1>3, <1>5, <2>1 DEF PaidInv, PaidOnce
  <2>2. CASE s = made + 1 /\ q \in 1..made
    BY <1>5, <1>6, <1>8, <2>2
  <2>3. CASE q = made + 1 /\ s \in 1..made
    BY <1>5, <1>6, <1>8, <2>3
  <2> QED
    BY <1>7, <2>1, <2>2, <2>3
<1> QED
  BY <1>9, <1>10, <1>11, <1>12 DEF PaidInv

------------------------------------------------------------------------------
(* The steps *)

\* A generator that stays where it is, in a step that is not its own.
LEMMA OthersFair ==
  ASSUME Shape, NEW h \in Generators, run'[h] = run[h] PROVE Fair(h)
BY DEF Fair

\* Steps that no generator takes.
LEMMA RevenueSteps ==
  ASSUME PaidInv, NoteHistory, NEW t \in Sessions,
         Sync(t) \/ Ages(t) \/ \E n \in Amounts : Calculates(t, n)
  PROVE  PaidInv'
<1>1. revenue \in [Sessions -> RowType] /\ net \in [Sessions -> Amounts \cup {0}]
  BY DEF PaidInv, Shape
<1>2. CASE Sync(t)
  <2>1. revenue' = [revenue EXCEPT ![t] = Synced(@, net[t])] /\ UNCHANGED <<net, made, pc, run, form>>
    BY <1>2 DEF Sync
  <2>2. Synced(revenue[t], net[t]) \in RowType
        /\ Synced(revenue[t], net[t]).settlement = revenue[t].settlement
    BY <1>1, RowFields
  <2>3. revenue' \in [Sessions -> RowType]
        /\ \A u \in Sessions : revenue'[u].settlement = revenue[u].settlement
    BY <1>1, <2>1, <2>2
  <2>4. Shape'
    BY <2>1, <2>3, ShapeStays DEF PaidInv, Shape
  <2> QED
    BY <2>1, <2>3, <2>4, OthersFair, FairSteps DEF PaidInv
<1>3. CASE Ages(t)
  <2>1. UNCHANGED <<net, revenue, made, pc, run, form>>
    BY <1>3 DEF Ages, books
  <2>2. Shape'
    BY <1>1, <2>1, ShapeStays DEF PaidInv, Shape
  <2> QED
    BY <2>1, <2>2, OthersFair, FairSteps DEF PaidInv
<1>4. ASSUME NEW n \in Amounts, Calculates(t, n) PROVE PaidInv'
  <2>1. UNCHANGED <<revenue, made, pc, run, form>> /\ net' = [net EXCEPT ![t] = n]
    BY <1>4 DEF Calculates, books
  <2>2. net' \in [Sessions -> Amounts \cup {0}]
    BY <1>1, <2>1
  <2>3. Shape'
    BY <1>1, <2>1, <2>2, ShapeStays DEF PaidInv, Shape
  <2> QED
    BY <2>1, <2>3, OthersFair, FairSteps DEF PaidInv
<1> QED
  BY <1>2, <1>3, <1>4

\* A request moves no generator, and gives no session a number.
LEMMA RequestSteps ==
  ASSUME PaidInv, NoteHistory, NEW a \in Admins, Administers(a)
  PROVE  PaidInv'
<1>1. /\ revenue \in [Sessions -> RowType] /\ pc \in [Generators \cup Admins -> Labels]
      /\ form \in [Admins -> [settlement : Numbers \cup {0}, partner : Partners \cup {Nobody}]]
      /\ made \in 0..MaxSettlements /\ net \in [Sessions -> Amounts \cup {0}]
  BY DEF PaidInv, Shape
<1>2. UNCHANGED <<net, run, made>>
  BY DEF Administers, Complete, Flag, Look, Settle, Pend, SettleRows, Reject, Decides, source, books
<1>3. pc' \in [Generators \cup Admins -> Labels] /\ \A g \in Generators : pc'[g] = pc[g]
  <2>1. pc' = pc \/ \E label \in Labels : pc' = [pc EXCEPT ![a] = label]
    BY DEF Administers, Complete, Flag, Look, Settle, Pend, SettleRows, Reject, Decides, Fills, Labels
  <2>2. a \notin Generators
    OBVIOUS
  <2> QED
    BY <1>1, <2>1, <2>2
<1>4. form' \in [Admins -> [settlement : Numbers \cup {0}, partner : Partners \cup {Nobody}]]
  <2>1. \/ form' = form
        \/ \E f \in [settlement : Numbers \cup {0}, partner : Partners \cup {Nobody}] :
             form' = [form EXCEPT ![a] = f]
    <3>1. CASE Complete(a)
      <4>1. PICK s \in 1..made, p \in Partners :
              form' = [form EXCEPT ![a] = [settlement |-> s, partner |-> p]]
        BY <3>1 DEF Complete, Fills
      <4>2. s \in Numbers
        BY <1>1, <4>1
      <4> QED
        BY <4>1, <4>2
    <3>2. CASE Pend(a) \/ SettleRows(a)
      BY <3>2 DEF Pend, SettleRows, Fills, NoForm
    <3>3. CASE Flag(a) \/ Look(a) \/ Settle(a)
      BY <1>1, <3>3 DEF Flag, Look, Settle, Fills
    <3> QED
      BY <3>1, <3>2, <3>3 DEF Administers, Reject
  <2> QED
    BY <1>1, <2>1
<1>5. revenue' \in [Sessions -> RowType]
      /\ \A t \in Sessions : revenue'[t].settlement = revenue[t].settlement
  <2>1. CASE Flag(a)
    <3>1. revenue' = [t \in Sessions |->
            IF t \in OfSettlement(form[a].settlement)
            THEN [revenue[t] EXCEPT !.paid = revenue[t].paid \cup {form[a].partner}] ELSE revenue[t]]
      BY <2>1 DEF Flag
    <3>2. ASSUME NEW t \in Sessions
          PROVE  revenue[t].paid \cup {form[a].partner} \in SUBSET (Partners \cup {Nobody})
      BY <1>1 DEF RowType
    <3> QED
      BY <1>1, <3>1, <3>2, RowFields
  <2>2. CASE SettleRows(a)
    <3>1. revenue' = [t \in Sessions |->
            IF t \in OfSettlement(form[a].settlement)
            THEN [revenue[t] EXCEPT !.settled = TRUE, !.paid = Partners] ELSE revenue[t]]
      BY <2>2 DEF SettleRows
    <3> QED
      BY <1>1, <3>1, RowFields
  <2>3. CASE ~Flag(a) /\ ~SettleRows(a)
    BY <1>1, <2>3 DEF Administers, Complete, Look, Settle, Pend, Reject, Decides, books
  <2> QED
    BY <2>1, <2>2, <2>3
<1>6. Shape'
  BY <1>1, <1>2, <1>3, <1>4, <1>5, ShapeStays DEF PaidInv
<1> QED
  BY <1>2, <1>5, <1>6, OthersFair, FairSteps DEF PaidInv

\* A generator's own steps but the one that makes a settlement.
LEMMA GeneratorSteps ==
  ASSUME PaidInv, NoteHistory, NEW g \in Generators, Generates(g), ~SaveSettlement(g)
  PROVE  PaidInv'
<1>1. /\ revenue \in [Sessions -> RowType] /\ made \in 0..MaxSettlements
      /\ IsRun(run[g]) /\ run[g].rows \subseteq Sessions /\ run[g].settlement \in 0..made
      /\ pc[g] \in {"idle", "read", "dates"} => run[g].rows = {} /\ run[g].settlement = 0
      /\ pc[g] \in {"partners", "mark"} => run[g].settlement # 0
      /\ made \in made..MaxSettlements /\ 0 \in 0..made
  BY DEF PaidInv, Shape
<1>2. UNCHANGED <<net, form, made>>
  BY DEF Generates, Starts, ReadRevenue, SavePartners, MarkRevenue, UpdateDates, source, books
<1>3. IsRun(NoRun) /\ NoRun.rows = {} /\ NoRun.settlement = 0
  BY DEF IsRun, NoRun
\* Leaving for the dates, or being done.
<1>4. ASSUME NEW label \in {"idle", "read", "dates"}, Go(g, label, NoRun),
             revenue' \in [Sessions -> RowType],
             \A t \in Sessions : revenue[t].settlement # 0 => revenue'[t].settlement # 0,
             \A t \in run[g].rows : revenue'[t].settlement # 0
      PROVE  PaidInv'
  <2>1. label \in Labels
    BY DEF Labels
  <2>2. Shape'
    BY <1>1, <1>2, <1>3, <1>4, <2>1, ShapeMoves DEF PaidInv
  <2>3. run'[g] = NoRun /\ \A h \in Generators \ {g} : run'[h] = run[h]
    BY <1>4, Moves DEF PaidInv
  <2>4. Fair(g)
    BY <1>3, <1>4, <2>3 DEF Fair
  <2>5. \A h \in Generators : Fair(h)
    BY <2>3, <2>4, OthersFair DEF PaidInv
  <2> QED
    BY <1>2, <1>4, <2>2, <2>5, FairSteps
<1>5. CASE Starts(g) \/ UpdateDates(g)
  <2>1. /\ UNCHANGED revenue /\ run[g].rows = {}
        /\ \E label \in {"idle", "read", "dates"} : Go(g, label, NoRun)
    BY <1>1, <1>5 DEF Starts, UpdateDates, books
  <2> QED
    BY <1>1, <1>4, <2>1
<1>6. CASE ReadRevenue(g)
  <2> DEFINE amount == SumOf(Worth(Unsettled(g)))
             r == [rows |-> Unsettled(g), amount |-> amount, settlement |-> 0]
  <2>1. UNCHANGED revenue /\ pc[g] = "read" /\ (Go(g, "save", r) \/ Leaves(g))
    BY <1>6 DEF ReadRevenue, books
  <2>2. CASE Leaves(g)
    <3>1. \E label \in {"idle", "dates"} : Go(g, label, NoRun)
      BY <2>2 DEF Leaves
    <3> QED
      BY <1>1, <1>4, <2>1, <3>1
  <2>3. CASE Go(g, "save", r)
    <3>1. IsRun(r) /\ r.rows = Unsettled(g) /\ r.settlement = 0
      BY DEF IsRun
    <3>2. \A t \in Unsettled(g) : t \in Sessions /\ revenue[t].settlement = 0
      BY DEF Unsettled, EveryAged
    <3> HIDE DEF r
    <3>3. "save" \in Labels
      BY DEF Labels
    <3>4. Shape'
      BY <1>1, <1>2, <2>1, <2>3, <3>1, <3>2, <3>3, ShapeMoves DEF PaidInv
    <3>5. run'[g] = r /\ \A h \in Generators \ {g} : run'[h] = run[h]
      BY <2>3, Moves DEF PaidInv
    <3>6. Fair(g)
      BY <1>1, <2>1, <3>1, <3>2, <3>5 DEF Fair
    <3>7. \A h \in Generators : Fair(h)
      BY <3>5, <3>6, OthersFair DEF PaidInv
    <3> QED
      BY <1>2, <2>1, <3>4, <3>7, FairSteps
  <2> QED
    BY <2>1, <2>2, <2>3
<1>7. CASE SavePartners(g)
  <2>1. UNCHANGED revenue /\ pc[g] = "partners" /\ Go(g, "mark", run[g])
    BY <1>7 DEF SavePartners
  <2>2. "mark" \in Labels
    BY DEF Labels
  <2>3. Shape'
    BY <1>1, <1>2, <2>1, <2>2, ShapeMoves DEF PaidInv
  <2>4. \A h \in Generators : run'[h] = run[h]
    BY <2>1, Moves DEF PaidInv
  <2> QED
    BY <1>2, <2>1, <2>3, <2>4, OthersFair, FairSteps DEF PaidInv
<1>8. CASE MarkRevenue(g)
  <2>1. /\ pc[g] = "mark" /\ \E label \in {"idle", "dates"} : Go(g, label, NoRun)
        /\ revenue' = [t \in Sessions |-> IF t \in run[g].rows
                                          THEN [revenue[t] EXCEPT !.settlement = run[g].settlement]
                                          ELSE revenue[t]]
    BY <1>8 DEF MarkRevenue, Marks, Leaves
  <2>2. run[g].settlement \in Numbers /\ run[g].settlement # 0
    BY <1>1, <2>1
  <2>3. /\ revenue' \in [Sessions -> RowType]
        /\ \A t \in Sessions : revenue[t].settlement # 0 => revenue'[t].settlement # 0
        /\ \A t \in run[g].rows : revenue'[t].settlement # 0
    <3>1. ASSUME NEW t \in Sessions
          PROVE  /\ revenue'[t] \in RowType
                 /\ revenue[t].settlement # 0 => revenue'[t].settlement # 0
                 /\ t \in run[g].rows => revenue'[t].settlement # 0
      <4>1. CASE t \in run[g].rows
        <5>1. revenue'[t] = [revenue[t] EXCEPT !.settlement = run[g].settlement]
          BY <2>1, <4>1
        <5>2. revenue[t] \in RowType /\ run[g].settlement \in Numbers
          BY <1>1, <2>2
        <5>3. LET u == [revenue[t] EXCEPT !.settlement = run[g].settlement]
              IN  u \in RowType /\ u.settlement = run[g].settlement
          BY <5>2, RowFields
        <5> QED
          BY <2>2, <5>1, <5>3
      <4>2. CASE t \notin run[g].rows
        <5>1. revenue'[t] = revenue[t]
          BY <2>1, <4>2
        <5> QED
          BY <1>1, <4>2, <5>1
      <4> QED
        BY <4>1, <4>2
    <3>2. revenue' = [t \in Sessions |-> revenue'[t]]
      BY <2>1
    <3> QED
      BY <1>1, <3>1, <3>2
  <2> QED
    BY <1>4, <2>1, <2>3
<1> QED
  BY <1>5, <1>6, <1>7, <1>8 DEF Generates

\* A failure lets go of everything, and spoils what was under way.
LEMMA FailSteps ==
  ASSUME PaidInv, fails \in Nat, NoteHistory, NEW x \in Generators \cup Admins, Fail(x)
  PROVE  PaidInv'
<1>1. /\ pc \in [Generators \cup Admins -> Labels] /\ revenue \in [Sessions -> RowType]
      /\ made \in 0..MaxSettlements /\ fails' = fails + 1
      /\ form \in [Admins -> [settlement : Numbers \cup {0}, partner : Partners \cup {Nobody}]]
      /\ run' = [g \in Generators |-> IF g = x THEN NoRun ELSE run[g]]
      /\ pc' = [pc EXCEPT ![x] = "idle"]
      /\ form' = [a \in Admins |-> IF a = x THEN NoForm ELSE form[a]]
      /\ UNCHANGED <<net, revenue, made>>
  BY DEF PaidInv, Shape, Fail, source, books
<1>2. IsRun(NoRun) /\ NoRun.rows = {} /\ NoRun.settlement = 0
  BY DEF IsRun, NoRun
<1>3. NoForm \in [settlement : Numbers \cup {0}, partner : Partners \cup {Nobody}]
  BY DEF NoForm
<1>4. "idle" \in Labels
  BY DEF Labels
<1>5. Shape'
  <2>1. pc' \in [Generators \cup Admins -> Labels]
    BY <1>1, <1>4
  <2>2. form' \in [Admins -> [settlement : Numbers \cup {0}, partner : Partners \cup {Nobody}]]
    BY <1>1, <1>3
  <2>3. ASSUME NEW g \in Generators
        PROVE  /\ IsRun(run[g])' /\ run'[g].rows \subseteq Sessions
               /\ run'[g].settlement \in 0..made'
               /\ pc'[g] \in {"idle", "read", "dates"} => run'[g].rows = {} /\ run'[g].settlement = 0
               /\ pc'[g] = "save" => run'[g].settlement = 0
               /\ pc'[g] \in {"partners", "mark"} => run'[g].settlement # 0
    <3>1. CASE g = x
      BY <1>1, <1>2, <3>1 DEF IsRun
    <3>2. CASE g # x
      <4>1. run'[g] = run[g] /\ pc'[g] = pc[g]
        BY <1>1, <3>2
      <4> QED
        BY <1>1, <4>1 DEF PaidInv, Shape, IsRun
    <3> QED
      BY <3>1, <3>2
  <2>4. counted' \in [Numbers -> SUBSET Sessions]
    BY <2>3, CountedTyped DEF PaidInv
  <2>5. run' = [g \in Generators |-> run'[g]]
    BY <1>1
  <2> QED
    BY <1>1, <2>1, <2>2, <2>3, <2>4, <2>5 DEF PaidInv, Shape
<1>6. ASSUME NEW g \in Generators PROVE Fair(g)
  <2>1. CASE g # x
    <3>1. run'[g] = run[g]
      BY <1>1, <2>1
    <3> QED
      BY <3>1, OthersFair DEF PaidInv
  <2>2. CASE g = x /\ run[g].settlement # 0
    <3>1. run'[g] = NoRun
      BY <1>1, <2>2
    <3>2. run[g].settlement \in Numbers
      BY <1>1, <2>2 DEF PaidInv, Shape
    <3>3. g \in Concerns(run[g].settlement)
      BY <2>2 DEF Concerns
    <3>4. \A s \in Numbers : g \in Concerns(s)' => run'[g].settlement = s
      BY <2>2 DEF Concerns
    <3>5. \A s \in Numbers : g \notin Concerns(s)'
      BY <1>2, <3>1, <3>4
    <3>6. fails' # fails
      BY <1>1
    <3> QED
      BY <1>2, <3>1, <3>2, <3>3, <3>5, <3>6 DEF Fair, NoteHistory
  <2>3. CASE g = x /\ run[g].settlement = 0
    BY <1>1, <1>2, <2>3 DEF Fair
  <2> QED
    BY <2>1, <2>2, <2>3
<1> QED
  BY <1>1, <1>5, <1>6, FairSteps

------------------------------------------------------------------------------
(* The theorem *)

\* Nothing was counted at first.
LEMMA PaidInit == Init => PaidInv
<1> SUFFICES ASSUME Init PROVE PaidInv
  OBVIOUS
<1>1. IsRun(NoRun) /\ NoRun.rows = {} /\ NoRun.settlement = 0 /\ NoRow \in RowType
      /\ NoForm \in [settlement : Numbers \cup {0}, partner : Partners \cup {Nobody}]
      /\ "idle" \in Labels
  BY DEF IsRun, NoRun, NoRow, RowType, NoForm, Labels
<1>2. /\ made = 0 /\ net = [t \in Sessions |-> 0] /\ revenue = [t \in Sessions |-> NoRow]
      /\ pc = [x \in Generators \cup Admins |-> "idle"] /\ run = [g \in Generators |-> NoRun]
      /\ form = [a \in Admins |-> NoForm] /\ counted = [s \in Numbers |-> {}]
  BY DEF Init
<1>3. \A g \in Generators : run[g] = NoRun /\ pc[g] = "idle"
  BY <1>2
<1>4. Shape
  <2>1. \A g \in Generators : IsRun(run[g])
    BY <1>1, <1>3
  <2> QED
    BY <1>1, <1>2, <1>3, <2>1 DEF Shape
<1> QED
  BY <1>1, <1>2, <1>3, <1>4 DEF PaidInv, Apart, Tracked, Unpaid, PaidOnce

\* Every step keeps the invariant.
LEMMA PaidNext == PaidInv /\ fails \in Nat /\ [Next]_vars => PaidInv'
<1> SUFFICES ASSUME PaidInv, fails \in Nat, [Next]_vars PROVE PaidInv'
  OBVIOUS
<1>1. CASE UNCHANGED vars
  BY <1>1 DEF vars, source, books, PaidInv, Shape, IsRun, Apart, Tracked, Unpaid, PaidOnce
<1>2. CASE Next
  <2>1. NoteHistory /\ Step
    BY <1>2 DEF Next
  <2>2. ASSUME NEW t \in Sessions, Sync(t) \/ Ages(t) \/ \E n \in Amounts : Calculates(t, n)
        PROVE  PaidInv'
    BY <2>1, <2>2, RevenueSteps
  <2>3. CASE FallsDue
    <3>1. UNCHANGED <<net, revenue, made, pc, run, form>>
      BY <2>3 DEF FallsDue, source, books
    <3>2. Shape'
      BY <2>1, <3>1, ShapeStays DEF PaidInv, Shape
    <3> QED
      BY <2>1, <3>1, <3>2, OthersFair, FairSteps DEF PaidInv
  <2>4. ASSUME NEW g \in Generators, Generates(g) PROVE PaidInv'
    <3>1. CASE SaveSettlement(g)
      <4>1. /\ made' = made + 1 /\ made < MaxSettlements /\ UNCHANGED <<revenue, net, form>>
            /\ Go(g, "partners", [run[g] EXCEPT !.settlement = made + 1])
        BY <3>1 DEF SaveSettlement, source
      <4>2. /\ made \in 0..MaxSettlements /\ IsRun(run[g]) /\ run[g].rows \subseteq Sessions
            /\ revenue \in [Sessions -> RowType]
        BY DEF PaidInv, Shape
      <4>3. LET u == [run[g] EXCEPT !.settlement = made + 1]
            IN  IsRun(u) /\ u.rows = run[g].rows /\ u.settlement = made + 1
        BY <4>2, RunFields
      <4>4. "partners" \in Labels /\ made' \in made..MaxSettlements /\ made + 1 \in 0..made'
            /\ made + 1 # 0
        BY <4>1, <4>2 DEF Labels
      <4>5. Shape'
        BY <2>1, <4>1, <4>2, <4>3, <4>4, ShapeMoves DEF PaidInv
      <4> QED
        BY <2>1, <3>1, <4>5, SettlesOnce
    <3> QED
      BY <2>1, <2>4, <3>1, GeneratorSteps
  <2>5. ASSUME NEW a \in Admins, Administers(a) PROVE PaidInv'
    BY <2>1, <2>5, RequestSteps
  <2>6. ASSUME NEW x \in Generators \cup Admins, Fail(x) PROVE PaidInv'
    BY <2>1, <2>6, FailSteps
  <2> QED
    BY <2>1, <2>2, <2>3, <2>4, <2>5, <2>6 DEF Step
<1> QED
  BY <1>1, <1>2

\* Failures are counted.
LEMMA FailsInit == Init => fails \in Nat
BY DEF Init

\* They stay so.
LEMMA FailsNext == fails \in Nat /\ [Next]_vars => (fails \in Nat)'
<1> SUFFICES ASSUME fails \in Nat, [Next]_vars PROVE fails' \in Nat
  OBVIOUS
<1>1. ASSUME NEW t \in Sessions, Sync(t) \/ Ages(t) \/ \E n \in Amounts : Calculates(t, n)
      PROVE  fails' = fails
  BY <1>1 DEF Sync, Ages, Calculates
<1>2. ASSUME NEW g \in Generators, Generates(g) PROVE fails' = fails
  BY <1>2 DEF Generates, Starts, ReadRevenue, SaveSettlement, SavePartners, MarkRevenue,
              UpdateDates
<1>3. ASSUME NEW a \in Admins, Administers(a) PROVE fails' = fails
  BY <1>3 DEF Administers, Complete, Flag, Look, Settle, Pend, SettleRows, Reject, Decides
<1>4. ASSUME NEW x \in Generators \cup Admins, Fail(x) PROVE fails' = fails + 1
  BY <1>4 DEF Fail
<1> QED
  BY <1>1, <1>2, <1>3, <1>4 DEF vars, Next, Step, FallsDue

\* No two settlements are summed up from the same session, unless two generators held it
\* at the same time or the run or request that made one of them failed half-way: the
\* read of unsettled revenue (sync-settlements.cron.js:127, settlement.service.js:214)
\* and its mark by the ids that were read (:314, :342) are enough otherwise.
THEOREM PaidOnceHolds == Spec => []PaidOnce
<1>1. PaidInv => PaidOnce
  BY DEF PaidInv
<1> QED
  BY PaidInit, PaidNext, FailsInit, FailsNext, <1>1, PTL DEF Spec

------------------------------------------------------------------------------
(* The types *)

Rows == [there : BOOLEAN, amount : Amounts \cup {0}, settlement : Numbers \cup {0},
         settled : BOOLEAN, paid : SUBSET Partners]
Settlements == [amount : Sums \cup {0}, status : {"none", "Pending", "Settled", "Rejected"}]
Runs == [rows : SUBSET Sessions, amount : Sums \cup {0}, settlement : Numbers \cup {0}]
Forms == [settlement : Numbers \cup {0}, partner : Partners \cup {Nobody}]

\* The partner whose share is flagged is one: nobody is not.
Typed == TypeOK /\ \A a \in Admins : pc[a] = "flag" => form[a].partner \in Partners

\* The parts of TypeOK, by name.
Types ==
  /\ net \in [Sessions -> Amounts \cup {0}] /\ calcs \in 0..MaxCalcs
  /\ age \in [Sessions -> 0..2] /\ queue \subseteq Sessions
  /\ revenue \in [Sessions -> Rows] /\ settlements \in [Numbers -> Settlements]
  /\ made \in 0..MaxSettlements /\ noted \in 0..MaxTransfers
  /\ transfers \in [Numbers -> [Partners -> {"none", "Pending", "Completed"}]]
  /\ due \in BOOLEAN /\ pc \in [Generators \cup Admins -> Labels]
  /\ run \in [Generators -> Runs] /\ form \in [Admins -> Forms]
  /\ fails \in 0..MaxFails
Noted ==
  /\ counted \in [Numbers -> SUBSET Sessions]
  /\ contended \subseteq Sessions /\ crossed \subseteq Numbers /\ spoiled \subseteq Numbers
  /\ recalculated \subseteq Sessions

\* Together they are it.
LEMMA TypeOKIs == TypeOK <=> Types /\ Noted
BY DEF TypeOK, Types, Noted, Rows, Settlements, Runs, Forms

\* The history keeps its types, whatever the step was.
LEMMA NotedStays ==
  ASSUME Noted, NoteHistory, run' \in [Generators -> Runs]
  PROVE  Noted'
<1> DEFINE fresh(s) == UNION {run'[g].rows : g \in {h \in Generators : run'[h].settlement = s}}
<1>1. \A s \in Numbers : fresh(s) \subseteq Sessions /\ counted[s] \subseteq Sessions
  BY DEF Noted, Runs
<1>2. counted' = [s \in Numbers |-> IF made' = s /\ made # s THEN fresh(s) ELSE counted[s]]
  BY DEF NoteHistory
<1>3. counted' \in [Numbers -> SUBSET Sessions]
  <2> HIDE DEF fresh
  <2> QED
    BY <1>1, <1>2
<1>4. contended' \subseteq Sessions /\ crossed' \subseteq Numbers /\ recalculated' \subseteq Sessions
  BY DEF Noted, NoteHistory
<1>5. spoiled' \subseteq Numbers
  BY DEF Noted, NoteHistory
<1> QED
  BY <1>3, <1>4, <1>5 DEF Noted

\* A generator's move, to a place of its own.
LEMMA GoTyped ==
  ASSUME Typed, NEW g \in Generators, NEW label \in Labels \ {"flag"}, NEW r \in Runs,
         Go(g, label, r)
  PROVE  /\ pc' \in [Generators \cup Admins -> Labels] /\ run' \in [Generators -> Runs]
         /\ form' = form => \A a \in Admins : pc'[a] = "flag" => form'[a].partner \in Partners
<1>1. pc \in [Generators \cup Admins -> Labels] /\ run \in [Generators -> Runs]
  BY TypeOKIs DEF Typed, Types
<1> QED
  BY <1>1 DEF Go, Typed

\* A request's move.
LEMMA FillsTyped ==
  ASSUME Typed, NEW a \in Admins, NEW label \in Labels, NEW f \in Forms, Fills(a, label, f),
         label = "flag" => f.partner \in Partners
  PROVE  /\ pc' \in [Generators \cup Admins -> Labels] /\ form' \in [Admins -> Forms]
         /\ \A b \in Admins : pc'[b] = "flag" => form'[b].partner \in Partners
<1>1. pc \in [Generators \cup Admins -> Labels] /\ form \in [Admins -> Forms]
  BY TypeOKIs DEF Typed, Types
<1> QED
  BY <1>1 DEF Fills, Typed

\* A row keeps its type.
LEMMA RowTyped ==
  ASSUME NEW r \in Rows
  PROVE  /\ \A n \in Amounts \cup {0} : Synced(r, n) \in Rows
         /\ \A s \in Numbers \cup {0} : [r EXCEPT !.settlement = s] \in Rows
         /\ \A p \in Partners : [r EXCEPT !.paid = @ \cup {p}] \in Rows
         /\ [r EXCEPT !.settled = TRUE, !.paid = Partners] \in Rows
BY DEF Rows, Synced

\* Steps of revenue and of time.
LEMMA RevenueTyped ==
  ASSUME Typed,
         \/ FallsDue
         \/ \E t \in Sessions : Sync(t) \/ Ages(t) \/ \E n \in Amounts : Calculates(t, n)
  PROVE  Types' /\ \A a \in Admins : pc'[a] = "flag" => form'[a].partner \in Partners
<1> USE TypeOKIs DEF Typed, Types, source, books
<1>1. CASE FallsDue
  BY <1>1 DEF FallsDue
<1>2. ASSUME NEW t \in Sessions, Sync(t)
      PROVE  Types' /\ \A a \in Admins : pc'[a] = "flag" => form'[a].partner \in Partners
  <2>1. Synced(revenue[t], net[t]) \in Rows
    BY RowTyped
  <2> QED
    BY <1>2, <2>1 DEF Sync
<1>3. ASSUME NEW t \in Sessions, Ages(t)
      PROVE  Types' /\ \A a \in Admins : pc'[a] = "flag" => form'[a].partner \in Partners
  <2>1. age[t] + 1 \in 0..2
    BY <1>3 DEF Ages
  <2>2. age' \in [Sessions -> 0..2]
    BY <1>3, <2>1 DEF Ages
  <2> QED
    BY <1>3, <2>2 DEF Ages
<1>4. ASSUME NEW t \in Sessions, NEW n \in Amounts, Calculates(t, n)
      PROVE  Types' /\ \A a \in Admins : pc'[a] = "flag" => form'[a].partner \in Partners
  BY <1>4 DEF Calculates
<1> QED
  BY <1>1, <1>2, <1>3, <1>4

\* A sum of amounts is one of Sums.
LEMMA SumTyped ==
  ASSUME NEW rows \in SUBSET Sessions, NEW amounts \in [rows -> Amounts \cup {0}]
  PROVE  SumOf(amounts) \in Sums
BY DEF Sums

\* Steps of a generator.
LEMMA GeneratesTyped ==
  ASSUME Typed, NEW g \in Generators, Generates(g)
  PROVE  Types' /\ \A a \in Admins : pc'[a] = "flag" => form'[a].partner \in Partners
<1> DEFINE Goal == Types' /\ \A a \in Admins : pc'[a] = "flag" => form'[a].partner \in Partners
<1> USE TypeOKIs DEF Typed, Types, source, books
<1>1. NoRun \in Runs /\ run[g] \in Runs
  BY DEF NoRun, Runs
<1>2. {"read", "save", "partners", "mark", "dates", "idle"} \subseteq Labels \ {"flag"}
  BY DEF Labels
<1>3. Leaves(g) => /\ pc' \in [Generators \cup Admins -> Labels] /\ run' \in [Generators -> Runs]
                   /\ form' = form => \A a \in Admins : pc'[a] = "flag" => form'[a].partner \in Partners
  <2>1. (IF g \in Crons THEN "dates" ELSE "idle") \in Labels \ {"flag"}
    BY <1>2
  <2> QED
    BY <1>1, <2>1, GoTyped DEF Leaves
<1>4. CASE Starts(g)
  BY <1>1, <1>2, <1>4, GoTyped DEF Starts
<1>5. CASE ReadRevenue(g)
  <2>1. UNCHANGED <<source, books, due, form, fails>>
    BY <1>5 DEF ReadRevenue
  <2>2. CASE Leaves(g)
    BY <1>3, <2>1, <2>2
  <2>3. CASE ~Leaves(g)
    <3>1. Unsettled(g) \in SUBSET Sessions
      BY DEF Unsettled, EveryAged
    <3>2. Worth(Unsettled(g)) \in [Unsettled(g) -> Amounts \cup {0}]
      BY <3>1 DEF Worth, Rows
    <3>3. SumOf(Worth(Unsettled(g))) \in Sums
      BY <3>1, <3>2, SumTyped
    <3>4. [rows |-> Unsettled(g), amount |-> SumOf(Worth(Unsettled(g))), settlement |-> 0] \in Runs
      BY <3>1, <3>3 DEF Runs
    <3>5. Go(g, "save", [rows |-> Unsettled(g), amount |-> SumOf(Worth(Unsettled(g))), settlement |-> 0])
      BY <1>5, <2>3 DEF ReadRevenue
    <3> QED
      BY <1>2, <2>1, <3>4, <3>5, GoTyped
  <2> QED
    BY <2>2, <2>3
<1>6. CASE SaveSettlement(g)
  <2>1. /\ made < MaxSettlements /\ made' = made + 1 /\ made + 1 \in Numbers
        /\ settlements' = [settlements EXCEPT ![made + 1] =
                             [amount |-> run[g].amount, status |-> "Pending"]]
        /\ Go(g, "partners", [run[g] EXCEPT !.settlement = made + 1])
        /\ UNCHANGED <<source, revenue, transfers, noted, due, form, fails>>
    BY <1>6 DEF SaveSettlement
  <2>2. [amount |-> run[g].amount, status |-> "Pending"] \in Settlements
        /\ [run[g] EXCEPT !.settlement = made + 1] \in Runs
    BY <1>1, <2>1 DEF Settlements, Runs
  <2>3. settlements' \in [Numbers -> Settlements] /\ made' \in 0..MaxSettlements
    BY <2>1, <2>2
  <2>4. /\ pc' \in [Generators \cup Admins -> Labels] /\ run' \in [Generators -> Runs]
        /\ form' = form => \A a \in Admins : pc'[a] = "flag" => form'[a].partner \in Partners
    BY <1>2, <2>1, <2>2, GoTyped
  <2> QED
    BY <2>1, <2>3, <2>4
<1>7. CASE SavePartners(g)
  BY <1>1, <1>2, <1>7, GoTyped DEF SavePartners
<1>8. CASE MarkRevenue(g)
  <2>1. run[g].settlement \in Numbers \cup {0}
    BY <1>1 DEF Runs
  <2>2. \A t \in Sessions : revenue[t] \in Rows /\ [revenue[t] EXCEPT !.settlement = run[g].settlement] \in Rows
    BY <2>1, RowTyped
  <2>3. revenue' \in [Sessions -> Rows]
    BY <1>8, <2>2 DEF MarkRevenue
  <2> QED
    BY <1>3, <1>8, <2>3 DEF MarkRevenue
<1>9. CASE UpdateDates(g)
  BY <1>1, <1>2, <1>9, GoTyped DEF UpdateDates
<1> QED
  BY <1>4, <1>5, <1>6, <1>7, <1>8, <1>9 DEF Generates

\* Steps of a request.
LEMMA AdministersTyped ==
  ASSUME Typed, NEW a \in Admins, Administers(a)
  PROVE  Types' /\ \A b \in Admins : pc'[b] = "flag" => form'[b].partner \in Partners
<1> USE TypeOKIs DEF Typed, Types, source, books
<1>1. NoForm \in Forms /\ form[a] \in Forms
  BY DEF NoForm, Forms
<1>2. {"flag", "look", "settle", "pend", "settleRows", "idle"} \subseteq Labels
  BY DEF Labels
<1>3. CASE Complete(a)
  <2>1. PICK s \in 1..made, p \in Partners :
          /\ transfers' = [transfers EXCEPT ![s][p] = "Completed"]
          /\ Fills(a, "flag", [settlement |-> s, partner |-> p])
    BY <1>3 DEF Complete
  <2>2. s \in Numbers /\ [settlement |-> s, partner |-> p] \in Forms
    BY DEF Forms
  <2>3. transfers' \in [Numbers -> [Partners -> {"none", "Pending", "Completed"}]]
    BY <2>1, <2>2
  <2>4. noted' \in 0..MaxTransfers
    BY <1>3 DEF Complete
  <2>5. /\ pc' \in [Generators \cup Admins -> Labels] /\ form' \in [Admins -> Forms]
        /\ \A b \in Admins : pc'[b] = "flag" => form'[b].partner \in Partners
    BY <1>2, <2>1, <2>2, FillsTyped
  <2> QED
    BY <1>3, <2>3, <2>4, <2>5 DEF Complete
<1>4. CASE Flag(a)
  <2>1. form[a].partner \in Partners /\ Fills(a, "look", form[a])
    BY <1>4 DEF Flag
  <2>2. \A t \in Sessions : revenue[t] \in Rows /\ [revenue[t] EXCEPT !.paid = @ \cup {form[a].partner}] \in Rows
    BY <2>1, RowTyped
  <2>3. revenue' \in [Sessions -> Rows]
    BY <1>4, <2>2 DEF Flag
  <2>4. /\ pc' \in [Generators \cup Admins -> Labels] /\ form' \in [Admins -> Forms]
        /\ \A b \in Admins : pc'[b] = "flag" => form'[b].partner \in Partners
    BY <1>1, <1>2, <2>1, FillsTyped
  <2> QED
    BY <1>4, <2>3, <2>4 DEF Flag
<1>5. CASE Look(a)
  <2>1. Fills(a, IF AllCompleted(form[a].settlement) THEN "settle" ELSE "pend", form[a])
    BY <1>5 DEF Look
  <2>2. (IF AllCompleted(form[a].settlement) THEN "settle" ELSE "pend") \in Labels \ {"flag"}
    BY <1>2
  <2>3. /\ pc' \in [Generators \cup Admins -> Labels] /\ form' \in [Admins -> Forms]
        /\ \A b \in Admins : pc'[b] = "flag" => form'[b].partner \in Partners
    BY <1>1, <2>1, <2>2, FillsTyped
  <2> QED
    BY <1>5, <2>3 DEF Look
<1>6. ASSUME NEW status \in {"Pending", "Settled", "Rejected"}, NEW s
      PROVE  [settlements EXCEPT ![s].status = status] \in [Numbers -> Settlements]
  BY <1>6 DEF Settlements
<1>7. CASE Settle(a) \/ Pend(a)
  <2>1. settlements' \in [Numbers -> Settlements]
    <3>1. PICK status \in {"Pending", "Settled"} :
            settlements' = [settlements EXCEPT ![form[a].settlement].status = status]
      BY <1>7 DEF Settle, Pend, Decides, SettledStatus
    <3>2. status \in {"Pending", "Settled", "Rejected"}
      OBVIOUS
    <3>3. [settlements EXCEPT ![form[a].settlement].status = status] \in [Numbers -> Settlements]
      BY <1>6, <3>2
    <3> QED
      BY <3>1, <3>3
  <2>2. Fills(a, "settleRows", form[a]) \/ Fills(a, "idle", NoForm)
    BY <1>7 DEF Settle, Pend
  <2>3. /\ pc' \in [Generators \cup Admins -> Labels] /\ form' \in [Admins -> Forms]
        /\ \A b \in Admins : pc'[b] = "flag" => form'[b].partner \in Partners
    BY <1>1, <1>2, <2>2, FillsTyped
  <2> QED
    BY <1>7, <2>1, <2>3 DEF Settle, Pend, Decides
<1>8. CASE SettleRows(a)
  <2>1. \A t \in Sessions : revenue[t] \in Rows /\ [revenue[t] EXCEPT !.settled = TRUE, !.paid = Partners] \in Rows
    BY RowTyped
  <2>2. revenue' \in [Sessions -> Rows]
    BY <1>8, <2>1 DEF SettleRows
  <2>3. /\ pc' \in [Generators \cup Admins -> Labels] /\ form' \in [Admins -> Forms]
        /\ \A b \in Admins : pc'[b] = "flag" => form'[b].partner \in Partners
    BY <1>1, <1>2, <1>8, FillsTyped DEF SettleRows
  <2> QED
    BY <1>8, <2>2, <2>3 DEF SettleRows
<1>9. CASE Reject(a)
  BY <1>6, <1>9 DEF Reject
<1> QED
  BY <1>3, <1>4, <1>5, <1>7, <1>8, <1>9 DEF Administers

\* A failure ends a run or a request.
LEMMA FailTyped ==
  ASSUME Typed, NEW x \in Generators \cup Admins, Fail(x)
  PROVE  Types' /\ \A a \in Admins : pc'[a] = "flag" => form'[a].partner \in Partners
<1> USE TypeOKIs DEF Typed, Types, source, books
<1>1. NoRun \in Runs /\ NoForm \in Forms /\ "idle" \in Labels
  BY DEF NoRun, Runs, NoForm, Forms, Labels
<1>2. pc' \in [Generators \cup Admins -> Labels] /\ run' \in [Generators -> Runs]
      /\ form' \in [Admins -> Forms] /\ fails' \in 0..MaxFails
  BY <1>1 DEF Fail
<1>3. \A a \in Admins : pc'[a] = "flag" => form'[a].partner \in Partners
  BY DEF Fail
<1> QED
  BY <1>2, <1>3 DEF Fail

\* The types hold at first,
LEMMA TypedInit == Init => Typed
<1> SUFFICES ASSUME Init PROVE Typed
  OBVIOUS
<1>1. /\ NoRow \in Rows /\ NoSettlement \in Settlements /\ NoRun \in Runs /\ NoForm \in Forms
      /\ "idle" \in Labels
  BY DEF NoRow, Rows, NoSettlement, Settlements, NoRun, Runs, NoForm, Forms, Labels
<1>2. Types /\ Noted
  BY <1>1 DEF Init, Types, Noted
<1> QED
  BY <1>2, TypeOKIs DEF Typed, Init

\* and every step keeps them.
LEMMA TypedNext == Typed /\ [Next]_vars => Typed'
<1> SUFFICES ASSUME Typed, [Next]_vars PROVE Typed'
  OBVIOUS
<1>1. CASE UNCHANGED vars
  BY <1>1 DEF Typed, TypeOK, vars, source, books
<1>2. CASE Next
  <2>1. Types' /\ \A a \in Admins : pc'[a] = "flag" => form'[a].partner \in Partners
    BY <1>2, RevenueTyped, GeneratesTyped, AdministersTyped, FailTyped DEF Next, Step
  <2>2. Noted'
    BY <1>2, <2>1, NotedStays, TypeOKIs DEF Typed, Types, Next
  <2>3. TypeOK'
    BY <2>1, <2>2 DEF TypeOK, Types, Noted, Rows, Settlements, Runs, Forms
  <2> QED
    BY <2>1, <2>3 DEF Typed
<1> QED
  BY <1>1, <1>2

\* Rows, settlements, transfers, runs and requests keep their types: what a settlement is
\* worth is a sum of some sessions' amounts, and a session is paid to partners only.
THEOREM TypeCorrect == Spec => []TypeOK
<1>1. Typed => TypeOK
  BY DEF Typed
<1> QED
  BY TypedInit, TypedNext, <1>1, PTL DEF Spec

------------------------------------------------------------------------------
(* What is booked as paid was transferred *)

\* A request that is under way is about a settlement that was made.
Forming ==
  \A a \in Admins :
    /\ pc[a] = "idle" => form[a].settlement = 0
    /\ pc[a] # "idle" => form[a].settlement \in 1..made

\* Nothing is transferred for a settlement before its partners are saved.
Fresh ==
  /\ \A s \in Numbers \ (1..made) : \A p \in Partners : transfers[s][p] = "none"
  /\ \A g \in Generators : pc[g] = "partners" =>
       \A p \in Partners : transfers[run[g].settlement][p] = "none"

\* What a request noted or found is still so.
Looked ==
  \A a \in Admins :
    /\ pc[a] = "flag" => transfers[form[a].settlement][form[a].partner] = "Completed"
    /\ pc[a] \in {"settle", "settleRows"} => Transferred(form[a].settlement)

\* A session that one generator holds has no settlement yet.
Owing == \A g \in Generators : \A t \in run[g].rows \ contended : revenue[t].settlement = 0

TransferInv == PaidInv /\ Typed /\ Forming /\ Fresh /\ Looked /\ Owing /\ PaidIsTransferred

\* What a step does to a request.
Moving(b) ==
  \/ pc'[b] = pc[b] /\ form'[b] = form[b]
  \/ pc'[b] = "idle" /\ form'[b] = NoForm
  \/ /\ pc'[b] = "flag" /\ form'[b].settlement \in 1..made /\ form'[b].partner \in Partners
     /\ transfers'[form'[b].settlement][form'[b].partner] = "Completed"
  \/ pc[b] = "flag" /\ pc'[b] = "look" /\ form'[b] = form[b]
  \/ /\ pc[b] = "look" /\ form'[b] = form[b] /\ transfers' = transfers
     /\ \/ pc'[b] = "settle" /\ Transferred(form[b].settlement)
        \/ pc'[b] = "pend" /\ ~Transferred(form[b].settlement)
  \/ pc[b] = "settle" /\ pc'[b] = "settleRows" /\ form'[b] = form[b]

\* Generators move no request.
LEMMA GeneratorsApart ==
  ASSUME Typed, NEW g \in Generators, NEW label, NEW r, Go(g, label, r)
  PROVE  \A b \in Admins : pc'[b] = pc[b]
<1>1. pc \in [Generators \cup Admins -> Labels]
  BY DEF Typed, TypeOK
<1> QED
  BY <1>1 DEF Go

\* Nor does any step of theirs.
LEMMA GeneratesApart ==
  ASSUME Typed, NEW g \in Generators, Generates(g)
  PROVE  /\ \A b \in Admins : pc'[b] = pc[b]
         /\ form' = form /\ noted' = noted
<1>1. PICK label, r : Go(g, label, r)
  BY DEF Generates, Starts, ReadRevenue, SaveSettlement, SavePartners, MarkRevenue, UpdateDates, Leaves
<1> QED
  BY <1>1, GeneratorsApart DEF Generates, Starts, ReadRevenue, SaveSettlement, SavePartners, MarkRevenue,
    UpdateDates, books

\* The moves of all requests.
LEMMA RequestsMove ==
  ASSUME Typed, Step, NEW b \in Admins
  PROVE  Moving(b)
<1>1. /\ pc \in [Generators \cup Admins -> Labels] /\ made \in 0..MaxSettlements
      /\ transfers \in [Numbers -> [Partners -> {"none", "Pending", "Completed"}]]
      /\ form \in [Admins -> [settlement : Numbers \cup {0}, partner : Partners \cup {Nobody}]]
  BY DEF Typed, TypeOK
<1>2. ASSUME NEW t \in Sessions, Sync(t) \/ Ages(t) \/ \E n \in Amounts : Calculates(t, n)
      PROVE  Moving(b)
  BY <1>2 DEF Sync, Ages, Calculates, Moving
<1>3. CASE FallsDue
  BY <1>3 DEF FallsDue, Moving
<1>4. ASSUME NEW g \in Generators, Generates(g) PROVE Moving(b)
  BY <1>4, GeneratesApart DEF Moving
<1>5. ASSUME NEW x \in Generators \cup Admins, Fail(x) PROVE Moving(b)
  BY <1>1, <1>5 DEF Fail, Moving
<1>6. ASSUME NEW a \in Admins, Administers(a) PROVE Moving(b)
  <2>1. CASE a # b
    <3>1. \/ UNCHANGED <<pc, form>>
          \/ \E label, f : pc' = [pc EXCEPT ![a] = label] /\ form' = [form EXCEPT ![a] = f]
      BY <1>6 DEF Administers, Complete, Flag, Look, Settle, Pend, SettleRows, Reject, Fills
    <3>2. pc'[b] = pc[b] /\ form'[b] = form[b]
      BY <1>1, <2>1, <3>1
    <3> QED
      BY <3>2 DEF Moving
  <2>2. CASE a = b
    <3>1. CASE Complete(a)
      <4>1. PICK s \in 1..made, p \in Partners :
              /\ transfers' = [transfers EXCEPT ![s][p] = "Completed"]
              /\ Fills(a, "flag", [settlement |-> s, partner |-> p])
        BY <3>1 DEF Complete
      <4>2. s \in Numbers
        BY <1>1
      <4>3. pc'[a] = "flag" /\ form'[a] = [settlement |-> s, partner |-> p]
        BY <1>1, <4>1 DEF Fills
      <4>4. transfers'[s][p] = "Completed"
        BY <1>1, <4>1, <4>2
      <4> QED
        BY <2>2, <4>3, <4>4 DEF Moving
    <3>2. CASE Flag(a) \/ Settle(a) \/ Pend(a) \/ SettleRows(a)
      BY <1>1, <2>2, <3>2 DEF Flag, Settle, Pend, SettleRows, Fills, Moving
    <3>3. CASE Look(a)
      <4>1. transfers' = transfers /\ pc[a] = "look"
            /\ Fills(a, IF AllCompleted(form[a].settlement) THEN "settle" ELSE "pend", form[a])
        BY <3>3 DEF Look, books
      <4>2. AllCompleted(form[a].settlement) <=> Transferred(form[a].settlement)
        BY DEF AllCompleted, Transferred
      <4> QED
        BY <1>1, <2>2, <4>1, <4>2 DEF Fills, Moving
    <3>4. CASE Reject(a)
      BY <3>4 DEF Reject, Moving
    <3> QED
      BY <1>6, <3>1, <3>2, <3>3, <3>4 DEF Administers
  <2> QED
    BY <2>1, <2>2
<1> QED
  BY <1>2, <1>3, <1>4, <1>5, <1>6 DEF Step

\* What was transferred stays so: the partners of a settlement are saved before anything is.
LEMMA TransfersGrow ==
  ASSUME TransferInv, Step
  PROVE  /\ \A s \in Numbers, p \in Partners :
              transfers[s][p] = "Completed" => transfers'[s][p] = "Completed"
         /\ \A s \in Numbers : Transferred(s) => Transferred(s)'
<1>1. /\ transfers \in [Numbers -> [Partners -> {"none", "Pending", "Completed"}]]
      /\ made \in 0..MaxSettlements
  BY DEF TransferInv, Typed, TypeOK
<1>2. CASE transfers' = transfers
  BY <1>2 DEF Transferred
<1>3. ASSUME NEW g \in Generators, SavePartners(g)
      PROVE  \A s \in Numbers, p \in Partners :
               transfers[s][p] = "Completed" => transfers'[s][p] = "Completed"
  <2>1. transfers' = [transfers EXCEPT ![run[g].settlement] = [p \in Partners |-> "Pending"]]
        /\ pc[g] = "partners"
    BY <1>3 DEF SavePartners
  <2>2. \A p \in Partners : transfers[run[g].settlement][p] = "none"
    BY <2>1 DEF TransferInv, Fresh
  <2> QED
    BY <1>1, <2>1, <2>2
<1>4. ASSUME NEW a \in Admins, Complete(a)
      PROVE  \A s \in Numbers, p \in Partners :
               transfers[s][p] = "Completed" => transfers'[s][p] = "Completed"
  BY <1>1, <1>4 DEF Complete
<1>5. \/ transfers' = transfers
      \/ \E g \in Generators : SavePartners(g)
      \/ \E a \in Admins : Complete(a)
  BY DEF Step, Sync, Ages, Calculates, FallsDue, Generates, Starts, ReadRevenue, SaveSettlement,
    MarkRevenue, UpdateDates, Administers, Flag, Look, Settle, Pend, SettleRows, Reject, Decides, Fail, books
<1> QED
  BY <1>2, <1>3, <1>4, <1>5 DEF Transferred

\* Settlements are made one by one.
LEMMA MadeGrows ==
  ASSUME Typed, Step
  PROVE  /\ made \in 0..MaxSettlements
         /\ \/ made' = made
            \/ made' = made + 1 /\ \E g \in Generators : SaveSettlement(g)
<1>1. made \in 0..MaxSettlements
  BY DEF Typed, TypeOK
<1>2. ASSUME NEW g \in Generators, Generates(g)
      PROVE  made' = made \/ (made' = made + 1 /\ SaveSettlement(g))
  BY <1>2 DEF Generates, Starts, ReadRevenue, SaveSettlement, SavePartners, MarkRevenue, UpdateDates, books
<1>3. (\E g \in Generators : Generates(g)) \/ made' = made
  BY DEF Step, Sync, Ages, Calculates, FallsDue, Administers, Complete, Flag, Look, Settle, Pend,
    SettleRows, Reject, Decides, Fail, books
<1> QED
  BY <1>1, <1>2, <1>3

\* Requests are about settlements that were made, and what they found stays so.
LEMMA FormingStays ==
  ASSUME TransferInv, Step
  PROVE  Forming' /\ Looked'
<1>1. \A b \in Admins : Moving(b)
  BY RequestsMove DEF TransferInv
<1>2. made \in 0..MaxSettlements /\ (made' = made \/ made' = made + 1)
  BY MadeGrows DEF TransferInv
<1>3. /\ form \in [Admins -> [settlement : Numbers \cup {0}, partner : Partners \cup {Nobody}]]
      /\ \A b \in Admins : pc[b] = "flag" => form[b].partner \in Partners
  BY DEF TransferInv, Typed, TypeOK
<1>4. NoForm.settlement = 0
  BY DEF NoForm
<1>5. Forming'
  <2> SUFFICES ASSUME NEW b \in Admins
               PROVE  /\ pc'[b] = "idle" => form'[b].settlement = 0
                      /\ pc'[b] # "idle" => form'[b].settlement \in 1..made'
    BY DEF Forming
  <2>1. /\ pc[b] = "idle" => form[b].settlement = 0
        /\ pc[b] # "idle" => form[b].settlement \in 1..made
    BY DEF TransferInv, Forming
  <2>2. 1..made \subseteq 1..made'
    BY <1>2
  <2> QED
    BY <1>1, <1>4, <2>1, <2>2 DEF Moving
<1>6. Looked'
  <2> SUFFICES ASSUME NEW b \in Admins
               PROVE  /\ pc'[b] = "flag" =>
                           transfers'[form'[b].settlement][form'[b].partner] = "Completed"
                      /\ pc'[b] \in {"settle", "settleRows"} => Transferred(form[b].settlement)'
    BY DEF Looked
  <2>1. pc[b] # "idle" => form[b].settlement \in Numbers
    BY <1>2 DEF TransferInv, Forming
  <2>2. CASE pc'[b] = "flag"
    <3>1. CASE pc'[b] = pc[b] /\ form'[b] = form[b]
      <4>1. transfers[form[b].settlement][form[b].partner] = "Completed"
        BY <2>2, <3>1 DEF TransferInv, Looked
      <4> QED
        BY <1>3, <2>1, <2>2, <3>1, <4>1, TransfersGrow
    <3>2. CASE ~(pc'[b] = pc[b] /\ form'[b] = form[b])
      BY <1>1, <2>2, <3>2 DEF Moving
    <3> QED
      BY <3>1, <3>2
  <2>3. CASE pc'[b] \in {"settle", "settleRows"}
    <3>1. form'[b] = form[b] /\ Transferred(form[b].settlement) /\ pc[b] # "idle"
      BY <1>1, <2>3 DEF Moving, TransferInv, Looked
    <3>2. \A s \in Numbers : Transferred(s) => Transferred(s)'
      BY TransfersGrow
    <3>3. \A p \in Partners : transfers'[form[b].settlement][p] = "Completed"
      BY <2>1, <3>1, <3>2 DEF Transferred
    <3> QED
      BY <2>3, <3>1, <3>3 DEF Transferred
  <2> QED
    BY <2>2, <2>3
<1> QED
  BY <1>5, <1>6
\* What a step does to a generator.
Working(g) ==
  \/ pc'[g] = pc[g] /\ run'[g] = run[g]
  \/ pc'[g] # "partners" /\ run'[g].rows = {}
  \/ pc'[g] = "save" /\ run'[g].rows = Unsettled(g) /\ revenue' = revenue
  \/ /\ SaveSettlement(g) /\ run'[g].rows = run[g].rows
     /\ run'[g].settlement = made + 1
  \/ pc'[g] = "mark" /\ run'[g] = run[g]

\* A generator's own step.
LEMMA OwnStep ==
  ASSUME TransferInv, NEW g \in Generators, Generates(g)
  PROVE  Working(g) /\ \A h \in Generators \ {g} : pc'[h] = pc[h] /\ run'[h] = run[h]
<1>1. /\ Shape /\ IsRun(run[g]) /\ NoRun.rows = {}
  BY DEF TransferInv, PaidInv, Shape, NoRun
<1>2. ASSUME NEW label \in Labels, NEW r, Go(g, label, r)
      PROVE  /\ run'[g] = r /\ pc'[g] = label
             /\ \A h \in Generators \ {g} : pc'[h] = pc[h] /\ run'[h] = run[h]
  BY <1>1, <1>2, Moves
<1>3. {"read", "save", "partners", "mark", "dates", "idle"} \subseteq Labels
  BY DEF Labels
<1>4. CASE Starts(g)
  BY <1>1, <1>2, <1>3, <1>4 DEF Starts, Working
<1>5. CASE Leaves(g)
  <2>1. (IF g \in Crons THEN "dates" ELSE "idle") \in Labels
    BY <1>3
  <2>2. /\ run'[g] = NoRun /\ pc'[g] # "partners"
        /\ \A h \in Generators \ {g} : pc'[h] = pc[h] /\ run'[h] = run[h]
    BY <1>2, <1>5, <2>1 DEF Leaves
  <2> QED
    BY <1>1, <2>2 DEF Working
<1>6. CASE ReadRevenue(g) /\ ~Leaves(g)
  <2>1. PICK amount : Go(g, "save", [rows |-> Unsettled(g), amount |-> amount, settlement |-> 0])
    BY <1>6 DEF ReadRevenue
  <2>2. revenue' = revenue
    BY <1>6 DEF ReadRevenue, books
  <2> QED
    BY <1>2, <1>3, <2>1, <2>2 DEF Working
<1>7. CASE SaveSettlement(g)
  <2>1. Go(g, "partners", [run[g] EXCEPT !.settlement = made + 1])
    BY <1>7 DEF SaveSettlement
  <2>2. LET u == [run[g] EXCEPT !.settlement = made + 1]
        IN  u.rows = run[g].rows /\ u.settlement = made + 1
    BY <1>1, RunFields
  <2> QED
    BY <1>2, <1>3, <1>7, <2>1, <2>2 DEF Working
<1>8. CASE SavePartners(g)
  BY <1>2, <1>3, <1>8 DEF SavePartners, Working
<1>9. CASE UpdateDates(g)
  BY <1>1, <1>2, <1>3, <1>9 DEF UpdateDates, Working
<1> QED
  BY <1>4, <1>5, <1>6, <1>7, <1>8, <1>9 DEF Generates, MarkRevenue

\* The moves of all generators.
LEMMA GeneratorsMove ==
  ASSUME TransferInv, Step, NEW g \in Generators
  PROVE  Working(g)
<1>1. /\ pc \in [Generators \cup Admins -> Labels] /\ NoRun.rows = {}
  BY DEF TransferInv, Typed, TypeOK, NoRun
<1>2. ASSUME NEW h \in Generators, Generates(h) PROVE Working(g)
  BY <1>2, OwnStep DEF Working
<1>3. ASSUME NEW x \in Generators \cup Admins, Fail(x) PROVE Working(g)
  BY <1>1, <1>3 DEF Fail, Working
<1>4. ASSUME NEW a \in Admins, Administers(a) PROVE Working(g)
  <2>1. run' = run /\ (pc' = pc \/ \E label : pc' = [pc EXCEPT ![a] = label])
    BY <1>4 DEF Administers, Complete, Flag, Look, Settle, Pend, SettleRows, Reject, Decides, Fills
  <2>2. pc'[g] = pc[g]
    BY <1>1, <2>1
  <2> QED
    BY <2>1, <2>2 DEF Working
<1>5. ASSUME NEW t \in Sessions, Sync(t) \/ Ages(t) \/ \E n \in Amounts : Calculates(t, n)
      PROVE  Working(g)
  BY <1>5 DEF Sync, Ages, Calculates, Working
<1>6. CASE FallsDue
  BY <1>6 DEF FallsDue, Working
<1> QED
  BY <1>2, <1>3, <1>4, <1>5, <1>6 DEF Step

\* A settlement without partners stays untouched until they are saved.
LEMMA FreshStays ==
  ASSUME TransferInv, Step
  PROVE  Fresh'
<1>1. /\ transfers \in [Numbers -> [Partners -> {"none", "Pending", "Completed"}]]
      /\ made \in 0..MaxSettlements /\ (made' = made \/ made' = made + 1)
  BY MadeGrows DEF TransferInv, Typed, TypeOK
<1>2. \A g \in Generators : pc[g] = "partners" => run[g].settlement \in 1..made
  BY <1>1 DEF TransferInv, PaidInv, Shape
<1>3. \/ transfers' = transfers
      \/ \E g \in Generators : SavePartners(g)
      \/ \E a \in Admins : Complete(a)
  BY DEF Step, Sync, Ages, Calculates, FallsDue, Generates, Starts, ReadRevenue, SaveSettlement,
    MarkRevenue, UpdateDates, Administers, Flag, Look, Settle, Pend, SettleRows, Reject, Decides, Fail, books
<1>4. ASSUME NEW s \in Numbers, NEW p \in Partners, transfers[s][p] = "none",
             transfers'[s][p] # "none"
      PROVE  /\ s \in 1..made
             /\ \E g \in Generators : SavePartners(g) /\ s = run[g].settlement /\ pc[g] = "partners"
  <2>1. CASE \E g \in Generators : SavePartners(g)
    <3>1. PICK g \in Generators : SavePartners(g)
      BY <2>1
    <3>2. transfers' = [transfers EXCEPT ![run[g].settlement] = [q \in Partners |-> "Pending"]]
          /\ pc[g] = "partners"
      BY <3>1 DEF SavePartners
    <3>3. s = run[g].settlement
      BY <1>1, <1>4, <3>2
    <3> QED
      BY <1>2, <3>1, <3>2, <3>3
  <2>2. CASE \E a \in Admins : Complete(a)
    BY <1>1, <1>4, <2>2 DEF Complete
  <2> QED
    BY <1>3, <1>4, <2>1, <2>2
<1>5. \A s \in Numbers \ (1..made') : \A p \in Partners : transfers'[s][p] = "none"
  <2> SUFFICES ASSUME NEW s \in Numbers, s \notin 1..made', NEW p \in Partners
               PROVE  transfers'[s][p] = "none"
    OBVIOUS
  <2>1. s \notin 1..made
    BY <1>1
  <2>2. transfers[s][p] = "none"
    BY <2>1 DEF TransferInv, Fresh
  <2> QED
    BY <1>4, <2>1, <2>2
<1>6. ASSUME NEW g \in Generators, pc'[g] = "partners", NEW p \in Partners
      PROVE  transfers'[run'[g].settlement][p] = "none"
  <2>1. CASE pc[g] = "partners" /\ run'[g] = run[g]
    <3>1. run[g].settlement \in Numbers /\ run[g].settlement # 0
      BY <1>1, <1>2, <2>1
    <3>2. transfers[run[g].settlement][p] = "none"
      BY <2>1 DEF TransferInv, Fresh
    <3>3. ASSUME NEW h \in Generators, SavePartners(h) PROVE run[h].settlement # run[g].settlement
      <4>1. pc'[h] = "mark"
        BY <3>3 DEF SavePartners, Go, TransferInv, Typed, TypeOK
      <4>2. h # g
        BY <1>6, <4>1
      <4> QED
        BY <3>1, <4>2 DEF TransferInv, PaidInv, Apart
    <3> QED
      BY <1>4, <2>1, <3>1, <3>2, <3>3
  <2>2. CASE SaveSettlement(g) /\ run'[g].settlement = made + 1
    <3>1. transfers' = transfers /\ made + 1 \in Numbers \ (1..made)
      BY <1>1, <2>2 DEF SaveSettlement
    <3> QED
      BY <2>2, <3>1 DEF TransferInv, Fresh
  <2> QED
    BY <1>6, <2>1, <2>2, GeneratorsMove DEF Working
<1> QED
  BY <1>5, <1>6 DEF Fresh

\* What a step does to a session's row: it may be marked by a generator that holds it, and
\* is paid to a partner whose share was transferred.
LEMMA RowSteps ==
  ASSUME TransferInv, Step, NEW t \in Sessions
  PROVE  \/ /\ revenue'[t].settlement = revenue[t].settlement
            /\ \A p \in revenue'[t].paid \ revenue[t].paid :
                 /\ p \in Partners /\ revenue[t].settlement \in 1..made
                 /\ transfers[revenue[t].settlement][p] = "Completed"
         \/ /\ revenue'[t].paid = revenue[t].paid
            /\ \E g \in Generators : MarkRevenue(g) /\ t \in run[g].rows
<1>1. revenue \in [Sessions -> Rows] /\ net \in [Sessions -> Amounts \cup {0}]
  BY TypeOKIs DEF TransferInv, Typed, Types
<1>2. CASE revenue' = revenue
  BY <1>2
<1>3. ASSUME NEW u \in Sessions, Sync(u)
      PROVE  revenue'[t].settlement = revenue[t].settlement /\ revenue'[t].paid = revenue[t].paid
  <2>1. revenue' = [revenue EXCEPT ![u] = Synced(@, net[u])]
    BY <1>3 DEF Sync
  <2> QED
    BY <1>1, <2>1 DEF Synced, Rows
<1>4. ASSUME NEW g \in Generators, MarkRevenue(g)
      PROVE  /\ revenue'[t].paid = revenue[t].paid
             /\ t \notin run[g].rows => revenue'[t].settlement = revenue[t].settlement
  <2>1. revenue'[t] = IF t \in run[g].rows THEN [revenue[t] EXCEPT !.settlement = run[g].settlement]
                                           ELSE revenue[t]
    BY <1>4 DEF MarkRevenue, Marks
  <2> QED
    BY <1>1, <2>1 DEF Rows
<1>5. ASSUME NEW a \in Admins, Flag(a) \/ SettleRows(a)
      PROVE  /\ revenue'[t].settlement = revenue[t].settlement
             /\ \A p \in revenue'[t].paid \ revenue[t].paid :
                  /\ p \in Partners /\ revenue[t].settlement \in 1..made
                  /\ transfers[revenue[t].settlement][p] = "Completed"
  <2>1. form[a].settlement \in 1..made
    BY <1>5 DEF TransferInv, Forming, Flag, SettleRows
  <2>2. CASE revenue'[t] = revenue[t]
    BY <2>2
  <2>3. CASE Flag(a) /\ revenue'[t] # revenue[t]
    <3>1. revenue'[t] = [revenue[t] EXCEPT !.paid = @ \cup {form[a].partner}]
          /\ revenue[t].settlement = form[a].settlement /\ pc[a] = "flag"
      BY <2>3 DEF Flag, OfSettlement
    <3>2. revenue'[t].settlement = revenue[t].settlement
          /\ revenue'[t].paid = revenue[t].paid \cup {form[a].partner}
      BY <1>1, <3>1 DEF Rows
    <3>3. form[a].partner \in Partners /\ transfers[form[a].settlement][form[a].partner] = "Completed"
      BY <3>1 DEF TransferInv, Typed, Looked
    <3> QED
      BY <2>1, <3>1, <3>2, <3>3
  <2>4. CASE SettleRows(a) /\ revenue'[t] # revenue[t]
    <3>1. revenue'[t] = [revenue[t] EXCEPT !.settled = TRUE, !.paid = Partners]
          /\ revenue[t].settlement = form[a].settlement /\ pc[a] = "settleRows"
      BY <2>4 DEF SettleRows, OfSettlement
    <3>2. revenue'[t].settlement = revenue[t].settlement /\ revenue'[t].paid = Partners
      BY <1>1, <3>1 DEF Rows
    <3>3. \A p \in Partners : transfers[form[a].settlement][p] = "Completed"
      BY <3>1 DEF TransferInv, Looked, Transferred
    <3> QED
      BY <2>1, <3>1, <3>2, <3>3
  <2> QED
    BY <1>5, <2>2, <2>3, <2>4
<1>6. \/ revenue' = revenue
      \/ \E u \in Sessions : Sync(u)
      \/ \E g \in Generators : MarkRevenue(g)
      \/ \E a \in Admins : Flag(a) \/ SettleRows(a)
  BY DEF Step, Ages, Calculates, FallsDue, Generates, Starts, ReadRevenue, SaveSettlement,
    SavePartners, UpdateDates, Administers, Complete, Look, Settle, Pend, Reject, Decides, Fail, books
<1> QED
  BY <1>2, <1>3, <1>4, <1>5, <1>6

\* A session that is held alone has no settlement: whoever marks it lets go of it.
LEMMA OwingStays ==
  ASSUME TransferInv, Step, NoteHistory
  PROVE  Owing'
<1> SUFFICES ASSUME NEW g \in Generators, NEW t \in run'[g].rows, t \notin contended'
             PROVE  revenue'[t].settlement = 0
  BY DEF Owing
<1>1. t \notin contended
  BY HistoryGrows
<1>2. CASE t \in run[g].rows /\ (run'[g] = run[g] \/ run'[g].rows = run[g].rows)
  <2>1. revenue[t].settlement = 0 /\ t \in Sessions
    BY <1>1, <1>2 DEF TransferInv, Owing, PaidInv, Shape
  <2>2. ASSUME NEW h \in Generators, MarkRevenue(h), t \in run[h].rows PROVE FALSE
    <3>1. CASE h = g
      <4>1. run'[h] = NoRun
        BY <2>2, Moves DEF MarkRevenue, Leaves, Go, TransferInv, Typed, TypeOK
      <4> QED
        BY <3>1, <4>1 DEF NoRun
    <3>2. CASE h # g
      BY <1>1, <1>2, <2>2, <3>2 DEF TransferInv, PaidInv, Apart
    <3> QED
      BY <3>1, <3>2
  <2> QED
    BY <2>1, <2>2, RowSteps
<1>3. CASE run'[g].rows = Unsettled(g) /\ revenue' = revenue
  BY <1>3 DEF Unsettled
<1> QED
  BY <1>2, <1>3, GeneratorsMove DEF Working

\* What is booked as paid was transferred.
LEMMA PaidStays ==
  ASSUME TransferInv, Step, NoteHistory
  PROVE  PaidIsTransferred'
<1>1. /\ made \in 0..MaxSettlements /\ (made' = made \/ made' = made + 1)
      /\ settlements \in [Numbers -> Settlements]
      /\ revenue \in [Sessions -> Rows]
  BY MadeGrows, TypeOKIs DEF TransferInv, Typed, Types
<1>2. \A s \in Numbers : Transferred(s) => Transferred(s)'
  BY TransfersGrow
<1>3. ASSUME NEW s \in 1..made', settlements'[s].status = "Settled" PROVE Transferred(s)'
  <2>1. s \in Numbers /\ made' \in 0..MaxSettlements
    <3>1. made' = made \/ (made' = made + 1 /\ \E g \in Generators : SaveSettlement(g))
      BY MadeGrows DEF TransferInv
    <3>2. (\E g \in Generators : SaveSettlement(g)) => made < MaxSettlements
      BY DEF SaveSettlement
    <3> QED
      BY <1>1, <3>1, <3>2
  <2>2. CASE s \in 1..made /\ settlements'[s].status = settlements[s].status
    <3>1. Transferred(s)
      BY <1>3, <2>2 DEF TransferInv, PaidIsTransferred
    <3> QED
      BY <1>2, <2>1, <3>1
  <2>3. ASSUME NEW g \in Generators, SaveSettlement(g)
        PROVE  s \in 1..made /\ settlements'[s].status = settlements[s].status
    <3>1. settlements' = [settlements EXCEPT ![made + 1] =
                            [amount |-> run[g].amount, status |-> "Pending"]]
          /\ made' = made + 1
      BY <2>3 DEF SaveSettlement
    <3>2. s # made + 1
      BY <1>1, <1>3, <2>1, <3>1
    <3> QED
      BY <1>1, <2>1, <3>1, <3>2
  <2>4. ASSUME NEW a \in Admins, NEW status, NEW u \in Numbers,
               settlements' = [settlements EXCEPT ![u].status = status], status # "Settled"
        PROVE  settlements'[s].status = settlements[s].status
    BY <1>1, <1>3, <2>1, <2>4 DEF Settlements
  <2>5. ASSUME NEW a \in Admins, Settle(a), s = form[a].settlement PROVE Transferred(s)'
    <3>1. Transferred(s)
      BY <2>5 DEF TransferInv, Looked, Settle
    <3> QED
      BY <1>2, <2>1, <3>1
  <2>6. ASSUME NEW a \in Admins, Settle(a), s # form[a].settlement
        PROVE  settlements'[s].status = settlements[s].status
    BY <1>1, <2>1, <2>6 DEF Settle, Decides, Settlements
  <2>7. ASSUME NEW a \in Admins, Pend(a) PROVE settlements'[s].status = settlements[s].status
    <3>1. form[a].settlement \in Numbers
      BY <1>1, <2>7 DEF Pend, TransferInv, Forming
    <3> QED
      BY <2>4, <2>7, <3>1 DEF Pend, Decides
  <2>8. ASSUME NEW a \in Admins, Reject(a) PROVE settlements'[s].status = settlements[s].status
    <3>1. PICK u \in 1..made : settlements' = [settlements EXCEPT ![u].status = "Rejected"]
      BY <2>8 DEF Reject
    <3> QED
      BY <1>1, <2>4, <2>8, <3>1
  <2>9. \/ settlements' = settlements /\ made' = made
        \/ \E g \in Generators : SaveSettlement(g)
        \/ made' = made /\ \E a \in Admins : Settle(a) \/ Pend(a) \/ Reject(a)
    BY DEF Step, Sync, Ages, Calculates, FallsDue, Generates, Starts, ReadRevenue, SavePartners,
      MarkRevenue, UpdateDates, Administers, Complete, Flag, Look, SettleRows, Settle, Pend, Reject,
      Decides, Fail, books
  <2> QED
    BY <1>3, <2>2, <2>3, <2>5, <2>6, <2>7, <2>8, <2>9
<1>4. ASSUME NEW t \in Sessions, t \notin contended', NEW p \in revenue'[t].paid
      PROVE  revenue'[t].settlement # 0 /\ transfers'[revenue'[t].settlement][p] = "Completed"
  <2>1. t \notin contended
    BY <1>4, HistoryGrows
  <2>2. \A q \in revenue[t].paid :
          /\ q \in Partners /\ revenue[t].settlement \in Numbers
          /\ transfers[revenue[t].settlement][q] = "Completed"
    BY <1>1, <2>1 DEF TransferInv, PaidIsTransferred, Rows
  <2>3. CASE revenue'[t].settlement = revenue[t].settlement
    <3>1. p \in Partners /\ revenue[t].settlement \in Numbers
          /\ transfers[revenue[t].settlement][p] = "Completed"
      BY <1>1, <1>4, <2>2, <2>3, RowSteps
    <3> QED
      BY <2>3, <3>1, TransfersGrow
  <2>4. ASSUME NEW g \in Generators, MarkRevenue(g), t \in run[g].rows,
               revenue'[t].paid = revenue[t].paid
        PROVE  FALSE
    <3>1. revenue[t].settlement = 0
      BY <2>1, <2>4 DEF TransferInv, Owing
    <3> QED
      BY <1>4, <2>2, <2>4, <3>1
  <2> QED
    BY <2>3, <2>4, RowSteps
<1> QED
  BY <1>3, <1>4 DEF PaidIsTransferred

\* Every step keeps the invariant.
LEMMA TransferNext == TransferInv /\ fails \in Nat /\ [Next]_vars => TransferInv'
<1> SUFFICES ASSUME TransferInv, fails \in Nat, [Next]_vars PROVE TransferInv'
  OBVIOUS
<1>1. PaidInv' /\ Typed'
  BY PaidNext, TypedNext DEF TransferInv
<1>2. CASE UNCHANGED vars
  BY <1>1, <1>2 DEF vars, source, books, TransferInv, Forming, Fresh, Looked, Owing,
    PaidIsTransferred, Transferred
<1>3. CASE Next
  BY <1>1, <1>3, FormingStays, FreshStays, OwingStays, PaidStays DEF Next, TransferInv
<1> QED
  BY <1>2, <1>3

\* It holds at first.
LEMMA TransferInit == Init => TransferInv
<1> SUFFICES ASSUME Init PROVE TransferInv
  OBVIOUS
<1>1. PaidInv /\ Typed
  BY PaidInit, TypedInit
<1>2. Forming /\ Fresh /\ Looked
  BY DEF Init, Forming, Fresh, Looked, NoForm
<1>3. Owing /\ PaidIsTransferred
  BY DEF Init, Owing, PaidIsTransferred, NoRun, NoRow
<1> QED
  BY <1>1, <1>2, <1>3 DEF TransferInv

\* A settlement is Settled, and a session paid for a partner, only when its transfers are
\* noted, however many requests note them and however many runs make settlements at once;
\* but for sessions that two runs marked.
THEOREM PaidWasTransferred == Spec => []PaidIsTransferred
<1>1. TransferInv => PaidIsTransferred
  BY DEF TransferInv
<1> QED
  BY TransferInit, TransferNext, FailsInit, FailsNext, <1>1, PTL DEF Spec

------------------------------------------------------------------------------
(* What was transferred is settled *)

\* A request that is the only one about its settlement has judged it as it is.
Judged ==
  \A a \in Admins : form[a].settlement \notin crossed =>
    /\ pc[a] = "pend" => ~Transferred(form[a].settlement)
    /\ pc[a] = "settleRows" => settlements[form[a].settlement].status \in {"Settled", "Rejected"}
Crossing ==
  \A a, b \in Admins :
    a # b /\ form[a].settlement = form[b].settlement /\ form[a].settlement \in Numbers =>
      form[a].settlement \in crossed

SettledInv == TransferInv /\ Judged /\ Crossing /\ TransferredIsSettled

\* What a step does to the status of a settlement.
LEMMA StatusSteps ==
  ASSUME TransferInv, Step, NEW s \in Numbers
  PROVE  \/ settlements'[s].status = settlements[s].status
         \/ settlements'[s].status \in {"Settled", "Rejected"}
         \/ \E a \in Admins : Pend(a) /\ s = form[a].settlement
         \/ s = made + 1
<1>1. settlements \in [Numbers -> Settlements] /\ made \in 0..MaxSettlements
  BY TypeOKIs DEF TransferInv, Typed, Types
<1>2. ASSUME NEW g \in Generators, SaveSettlement(g)
      PROVE  settlements'[s].status = settlements[s].status \/ s = made + 1
  BY <1>1, <1>2 DEF SaveSettlement
<1>3. ASSUME NEW a \in Admins, Settle(a) \/ Pend(a)
      PROVE  \/ settlements'[s].status = settlements[s].status
             \/ settlements'[s].status = "Settled"
             \/ Pend(a) /\ s = form[a].settlement
  BY <1>1, <1>3 DEF Settle, Pend, Decides, SettledStatus, Settlements
<1>4. ASSUME NEW a \in Admins, Reject(a)
      PROVE  settlements'[s].status = settlements[s].status \/ settlements'[s].status = "Rejected"
  BY <1>1, <1>4 DEF Reject, Settlements
<1>5. \/ settlements' = settlements
      \/ \E g \in Generators : SaveSettlement(g)
      \/ \E a \in Admins : Settle(a) \/ Pend(a) \/ Reject(a)
  BY DEF Step, Sync, Ages, Calculates, FallsDue, Generates, Starts, ReadRevenue, SavePartners,
    MarkRevenue, UpdateDates, Administers, Complete, Flag, Look, SettleRows, Fail, books
<1> QED
  BY <1>2, <1>3, <1>4, <1>5

\* A settlement comes to be transferred by a request that is about it from then on.
LEMMA TransferSteps ==
  ASSUME TransferInv, Step, Partners # {}, NEW s \in Numbers, Transferred(s)'
  PROVE  Transferred(s) \/ \E a \in Admins : Complete(a) /\ form'[a].settlement = s
<1>1. /\ transfers \in [Numbers -> [Partners -> {"none", "Pending", "Completed"}]]
      /\ form \in [Admins -> [settlement : Numbers \cup {0}, partner : Partners \cup {Nobody}]]
      /\ made \in 0..MaxSettlements
  BY DEF TransferInv, Typed, TypeOK
<1>2. CASE transfers' = transfers
  BY <1>2 DEF Transferred
<1>3. ASSUME NEW g \in Generators, SavePartners(g) PROVE Transferred(s)
  <2>1. transfers' = [transfers EXCEPT ![run[g].settlement] = [p \in Partners |-> "Pending"]]
    BY <1>3 DEF SavePartners
  <2>2. s # run[g].settlement
    BY <1>1, <2>1 DEF Transferred
  <2> QED
    BY <1>1, <2>1, <2>2 DEF Transferred
<1>4. ASSUME NEW a \in Admins, Complete(a)
      PROVE  Transferred(s) \/ form'[a].settlement = s
  <2>1. PICK u \in 1..made, p \in Partners :
          /\ transfers' = [transfers EXCEPT ![u][p] = "Completed"]
          /\ Fills(a, "flag", [settlement |-> u, partner |-> p])
    BY <1>4 DEF Complete
  <2>2. form'[a].settlement = u
    BY <1>1, <2>1 DEF Fills
  <2>3. s # u => transfers'[s] = transfers[s]
    BY <1>1, <2>1
  <2> QED
    BY <2>2, <2>3 DEF Transferred
<1>5. \/ transfers' = transfers
      \/ \E g \in Generators : SavePartners(g)
      \/ \E a \in Admins : Complete(a)
  BY DEF Step, Sync, Ages, Calculates, FallsDue, Generates, Starts, ReadRevenue, SaveSettlement,
    MarkRevenue, UpdateDates, Administers, Flag, Look, Settle, Pend, SettleRows, Reject, Decides, Fail, books
<1> QED
  BY <1>2, <1>3, <1>4, <1>5

\* Requests about the same settlement cross.
LEMMA CrossingStays ==
  ASSUME NoteHistory PROVE Crossing' /\ crossed \subseteq crossed'
BY DEF NoteHistory, Crossing

\* A verdict stays true as long as nobody else is about the settlement.
LEMMA JudgedStays ==
  ASSUME SettledInv, Step, NoteHistory, Partners # {}
  PROVE  Judged'
<1> SUFFICES ASSUME NEW a \in Admins, form'[a].settlement \notin crossed'
             PROVE  /\ pc'[a] = "pend" => ~Transferred(form[a].settlement)'
                    /\ pc'[a] = "settleRows" =>
                         settlements'[form'[a].settlement].status \in {"Settled", "Rejected"}
  BY DEF Judged
<1>1. Moving(a) /\ made \in 0..MaxSettlements /\ (made' = made \/ made' = made + 1)
  BY RequestsMove, MadeGrows DEF SettledInv, TransferInv
<1>2. Crossing' /\ form'[a].settlement \notin crossed
  BY CrossingStays
<1>3. pc[a] # "idle" => form[a].settlement \in 1..made /\ form[a].settlement \in Numbers
  BY <1>1 DEF SettledInv, TransferInv, Forming
<1>4. CASE pc'[a] = "pend"
  <2>1. form'[a] = form[a] /\ pc[a] # "idle"
    BY <1>1, <1>4 DEF Moving
  <2>2. CASE pc[a] = "look"
    <3>1. transfers' = transfers /\ ~Transferred(form[a].settlement)
      BY <1>1, <1>4, <2>2 DEF Moving
    <3> QED
      BY <1>4, <2>1, <3>1 DEF Transferred
  <2>3. CASE pc[a] = "pend"
    <3>1. ~Transferred(form[a].settlement)
      BY <1>2, <2>1, <2>3 DEF SettledInv, Judged
    <3>2. ASSUME NEW b \in Admins, Complete(b), form'[b].settlement = form'[a].settlement
          PROVE  FALSE
      <4>1. a # b
        BY <2>3, <3>2 DEF Complete
      <4> QED
        BY <1>2, <1>3, <2>1, <3>2, <4>1 DEF Crossing
    <3>3. ASSUME Transferred(form[a].settlement)' PROVE FALSE
      <4> DEFINE s == form[a].settlement
      <4>1. s \in Numbers /\ \A p \in Partners : transfers'[s][p] = "Completed"
        BY <1>3, <2>1, <3>3 DEF Transferred
      <4>2. \A u \in Numbers : u = s => Transferred(u)'
        BY <4>1 DEF Transferred
      <4>3. Transferred(s) \/ \E b \in Admins : Complete(b) /\ form'[b].settlement = s
        <5> HIDE DEF s
        <5> QED
          BY <4>1, <4>2, TransferSteps DEF SettledInv
      <4> QED
        BY <2>1, <3>1, <3>2, <4>3
    <3> QED
      BY <1>4, <3>3
  <2> QED
    BY <1>1, <1>4, <2>2, <2>3 DEF Moving
<1>5. CASE pc'[a] = "settleRows"
  <2>1. form'[a] = form[a] /\ pc[a] \in {"settle", "settleRows"}
    BY <1>1, <1>5 DEF Moving
  <2>2. form[a].settlement \in Numbers /\ form[a].settlement # made + 1
    BY <1>1, <1>3, <2>1
  <2>3. CASE pc[a] = "settleRows"
    <3>1. settlements[form[a].settlement].status \in {"Settled", "Rejected"}
      BY <1>2, <2>1, <2>3 DEF SettledInv, Judged
    <3>2. ASSUME NEW b \in Admins, Pend(b), form[b].settlement = form[a].settlement PROVE FALSE
      <4>1. a # b
        BY <2>3, <3>2 DEF Pend
      <4> QED
        BY <1>2, <2>1, <2>2, <3>2, <4>1 DEF SettledInv, Crossing
    <3> QED
      BY <1>5, <2>1, <2>2, <3>1, <3>2, StatusSteps DEF SettledInv
  <2>4. CASE pc[a] = "settle"
    <3>1. Settle(a)
      <4>1. pc' # pc /\ pc \in [Generators \cup Admins -> Labels] /\ pc'[a] = "settleRows" /\ pc[a] = "settle"
        BY <1>5, <2>4 DEF SettledInv, TransferInv, Typed, TypeOK
      <4>2. ASSUME NEW t \in Sessions, Sync(t) \/ Ages(t) \/ \E n \in Amounts : Calculates(t, n)
            PROVE  FALSE
        BY <4>1, <4>2 DEF Sync, Ages, Calculates
      <4>3. ~FallsDue
        BY <4>1 DEF FallsDue
      <4>4. ASSUME NEW g \in Generators, Generates(g) PROVE FALSE
        BY <4>1, <4>4, GeneratesApart DEF SettledInv, TransferInv
      <4>5. ASSUME NEW x \in Generators \cup Admins, Fail(x) PROVE FALSE
        BY <4>1, <4>5 DEF Fail
      <4>6. ASSUME NEW b \in Admins, Administers(b) PROVE Settle(a)
        BY <4>1, <4>6 DEF Administers, Complete, Flag, Look, Settle, Pend, SettleRows, Reject, Fills
      <4> QED
        BY <4>2, <4>3, <4>4, <4>5, <4>6 DEF Step
    <3>2. settlements \in [Numbers -> Settlements]
      BY TypeOKIs DEF SettledInv, TransferInv, Typed, Types
    <3>3. settlements'[form[a].settlement].status = "Settled"
      BY <2>2, <3>1, <3>2 DEF Settle, Decides, SettledStatus, Settlements
    <3> QED
      BY <1>5, <2>1, <3>3
  <2> QED
    BY <2>1, <2>3, <2>4
<1> QED
  BY <1>4, <1>5

\* What was transferred is settled, or somebody is about it.
LEMMA SettledStays ==
  ASSUME SettledInv, Step, NoteHistory, Partners # {}
  PROVE  TransferredIsSettled'
<1> SUFFICES ASSUME NEW s \in 1..made', s \notin crossed', s \notin spoiled', Transferred(s)'
             PROVE  \/ settlements'[s].status \in {"Settled", "Rejected"}
                    \/ \E a \in Admins : form'[a].settlement = s
  BY DEF TransferredIsSettled
<1>1. /\ made \in 0..MaxSettlements /\ (made' = made \/ made' = made + 1)
  BY MadeGrows DEF SettledInv, TransferInv, SaveSettlement
<1>2. s \in Numbers /\ (s \in 1..made \/ s = made + 1)
  <2>1. made' = made \/ (made' = made + 1 /\ \E g \in Generators : SaveSettlement(g))
    BY MadeGrows DEF SettledInv, TransferInv
  <2>2. (\E g \in Generators : SaveSettlement(g)) => made < MaxSettlements
    BY DEF SaveSettlement
  <2> QED
    BY <1>1, <2>1, <2>2
<1>3. s \notin crossed /\ s \notin spoiled
  BY CrossingStays, HistoryGrows
<1>4. Transferred(s) \/ \E a \in Admins : form'[a].settlement = s
  BY <1>2, TransferSteps DEF SettledInv
<1>5. CASE Transferred(s)
  <2>1. s \in 1..made
    BY <1>2, <1>5 DEF SettledInv, TransferInv, Fresh, Transferred
  <2>2. s # made + 1
    BY <1>1, <2>1
  <2>3. \/ settlements[s].status \in {"Settled", "Rejected"}
        \/ \E a \in Admins : form[a].settlement = s
    BY <1>3, <1>5, <2>1 DEF SettledInv, TransferredIsSettled
  <2>4. ASSUME NEW a \in Admins, Pend(a), s = form[a].settlement PROVE FALSE
    BY <1>3, <1>5, <2>4 DEF SettledInv, Judged, Pend
  <2>5. \/ settlements'[s].status = settlements[s].status
        \/ settlements'[s].status \in {"Settled", "Rejected"}
    BY <1>2, <2>2, <2>4, StatusSteps DEF SettledInv
  <2>6. ASSUME NEW a \in Admins, form[a].settlement = s, form'[a].settlement # s
        PROVE  settlements'[s].status \in {"Settled", "Rejected"}
    <3>1. /\ form \in [Admins -> [settlement : Numbers \cup {0}, partner : Partners \cup {Nobody}]]
          /\ s # 0 /\ pc[a] # "idle" /\ form'[a] # form[a]
      BY <1>2, <2>6 DEF SettledInv, TransferInv, Forming, Typed, TypeOK
    <3>2. ASSUME NEW x \in Generators \cup Admins, Fail(x) PROVE FALSE
      <4>1. x = a /\ form'[a] = NoForm /\ fails' = fails + 1
        BY <3>1, <3>2 DEF Fail
      <4>2. a \in Concerns(s)
        BY <2>6 DEF Concerns
      <4>3. a \notin Concerns(s)'
        BY <2>6 DEF Concerns
      <4>4. fails \in Nat
        BY DEF SettledInv, TransferInv, Typed, TypeOK
      <4>5. fails' # fails
        BY <4>1, <4>4
      <4> QED
        BY <1>2, <4>2, <4>3, <4>5 DEF NoteHistory
    <3>3. ASSUME NEW b \in Admins, Administers(b)
          PROVE  settlements'[s].status \in {"Settled", "Rejected"}
      <4>1. form' = form \/ \E label, f : Fills(b, label, f)
        BY <3>3 DEF Administers, Complete, Flag, Look, Settle, Pend, SettleRows, Reject
      <4>2. b = a
        BY <3>1, <4>1 DEF Fills
      <4>3. SettleRows(a)
        BY <2>4, <2>6, <3>1, <3>3, <4>2 DEF Administers, Complete, Flag, Look, Settle, Reject, Fills
      <4> QED
        BY <1>3, <2>6, <4>3 DEF SettleRows, SettledInv, Judged
    <3>4. ASSUME NEW g \in Generators, Generates(g) PROVE FALSE
      BY <3>1, <3>4, GeneratesApart DEF SettledInv, TransferInv
    <3>5. ASSUME NEW t \in Sessions, Sync(t) \/ Ages(t) \/ \E n \in Amounts : Calculates(t, n)
          PROVE  FALSE
      BY <3>1, <3>5 DEF Sync, Ages, Calculates
    <3>6. ~FallsDue
      BY <3>1 DEF FallsDue
    <3> QED
      BY <3>2, <3>3, <3>4, <3>5, <3>6 DEF Step
  <2> QED
    BY <2>3, <2>5, <2>6
<1> QED
  BY <1>4, <1>5

\* Every step keeps the invariant.
LEMMA SettledNext == Partners # {} /\ SettledInv /\ fails \in Nat /\ [Next]_vars => SettledInv'
<1> SUFFICES ASSUME Partners # {}, SettledInv, fails \in Nat, [Next]_vars PROVE SettledInv'
  OBVIOUS
<1>1. TransferInv'
  BY TransferNext DEF SettledInv
<1>2. CASE UNCHANGED vars
  BY <1>1, <1>2 DEF vars, source, books, SettledInv, Judged, Crossing, TransferredIsSettled, Transferred
<1>3. CASE Next
  BY <1>1, <1>3, JudgedStays, CrossingStays, SettledStays DEF Next, SettledInv
<1> QED
  BY <1>2, <1>3

\* It holds at first.
LEMMA SettledInit == Init => SettledInv
<1> SUFFICES ASSUME Init PROVE SettledInv
  OBVIOUS
<1>1. TransferInv
  BY TransferInit
<1>2. Judged /\ Crossing /\ TransferredIsSettled
  BY DEF Init, Judged, Crossing, TransferredIsSettled, NoForm
<1> QED
  BY <1>1, <1>2 DEF SettledInv

\* A settlement whose partners all have their share does not stay Pending, if it has
\* partners: whoever notes the last transfer settles it, unless two transfers of it were
\* noted at once or one of the requests failed.
THEOREM TransferredWasSettled ==
  ASSUME Partners # {} PROVE Spec => []TransferredIsSettled
<1>1. SettledInv => TransferredIsSettled
  BY DEF SettledInv
<1>2. SettledInv /\ fails \in Nat /\ [Next]_vars => SettledInv'
  BY SettledNext
<1> QED
  BY SettledInit, FailsInit, FailsNext, <1>1, <1>2, PTL DEF Spec

------------------------------------------------------------------------------
(* What a settlement is worth *)

\* Sessions that one generator held, with the amount it read.
Intact(rows) == rows \cap (contended \cup recalculated) = {}
Holds == {"save", "partners", "mark"}

\* No row carries the number of a settlement that is not made.
Numbered == \A t \in Sessions : revenue[t].settlement \in 0..made

\* A generator knows the sum of what it holds.
Reckoned ==
  \A g \in Generators : pc[g] \in Holds /\ Intact(run[g].rows) =>
    run[g].amount = SumOf(Worth(run[g].rows))

\* The settlement of a generator at work is its own: no row carries its number yet.
Charged ==
  \A g \in Generators : run[g].settlement # 0 =>
    /\ counted[run[g].settlement] = run[g].rows
    /\ settlements[run[g].settlement].amount = run[g].amount
    /\ OfSettlement(run[g].settlement) = {}

\* When the generator is done, the rows that it counted carry the number.
Summed ==
  \A s \in (1..made) \ spoiled :
    (\A g \in Generators : run[g].settlement # s) /\ Intact(counted[s]) =>
      /\ OfSettlement(s) = counted[s]
      /\ settlements[s].amount = SumOf(Worth(counted[s]))

WorthInv == TransferInv /\ Numbered /\ Reckoned /\ Charged /\ Summed

\* A generator that fails spoils its settlement.
LEMMA FailSpoils ==
  ASSUME Shape, fails \in Nat, NoteHistory, NEW g \in Generators, Fail(g),
         run[g].settlement # 0
  PROVE  run[g].settlement \in spoiled'
<1>1. run[g].settlement \in Numbers
  BY DEF Shape
<1>2. fails' # fails /\ run'[g].settlement = 0
  BY DEF Fail, NoRun
<1>3. g \in Concerns(run[g].settlement) /\ g \notin Admins
  BY DEF Concerns
<1>4. \A s \in Numbers : g \in Concerns(s)' => run'[g].settlement = s
  BY <1>3 DEF Concerns
<1>5. \A s \in Numbers : g \notin Concerns(s)'
  BY <1>2, <1>4
<1> QED
  BY <1>1, <1>2, <1>3, <1>5 DEF NoteHistory

\* What a step does to a generator, and to what it knows.
Carries(g) ==
  \/ run'[g] = run[g] /\ (pc'[g] \in Holds => pc[g] \in Holds)
  \/ /\ run'[g] = NoRun /\ pc'[g] \notin Holds
     /\ run[g].settlement = 0 \/ run[g].settlement \in spoiled' \/ MarkRevenue(g)
  \/ /\ run[g].settlement = 0 /\ run'[g].settlement = 0 /\ revenue' = revenue
     /\ run'[g].amount = SumOf(Worth(run'[g].rows))
  \/ /\ SaveSettlement(g) /\ run[g].settlement = 0 /\ run'[g].settlement = made + 1
     /\ run'[g].rows = run[g].rows /\ run'[g].amount = run[g].amount

\* A generator's own step.
LEMMA OwnCarries ==
  ASSUME TransferInv, NEW g \in Generators, Generates(g)
  PROVE  Carries(g) /\ \A h \in Generators \ {g} : Carries(h)
<1>1. /\ Shape /\ run \in [Generators -> Runs] /\ NoRun.settlement = 0
      /\ pc[g] \in {"idle", "read", "dates", "save"} => run[g].settlement = 0
  BY TypeOKIs DEF TransferInv, PaidInv, Shape, NoRun, Typed, Types
<1>2. ASSUME NEW label \in Labels, NEW r, Go(g, label, r)
      PROVE  /\ run'[g] = r /\ pc'[g] = label
             /\ \A h \in Generators \ {g} : Carries(h)
  BY <1>1, <1>2, Moves DEF Carries
<1>3. {"read", "save", "partners", "mark", "dates", "idle"} \subseteq Labels
  BY DEF Labels
<1>4. CASE Starts(g) \/ UpdateDates(g)
  <2>1. run[g].settlement = 0 /\ \E label \in {"read", "idle"} : Go(g, label, NoRun)
    BY <1>1, <1>4 DEF Starts, UpdateDates
  <2> QED
    BY <1>2, <1>3, <2>1 DEF Carries, Holds
<1>5. CASE Leaves(g) /\ (run[g].settlement = 0 \/ MarkRevenue(g))
  <2>1. \E label \in {"dates", "idle"} : Go(g, label, NoRun)
    BY <1>5 DEF Leaves
  <2> QED
    BY <1>2, <1>3, <1>5, <2>1 DEF Carries, Holds
<1>6. CASE ReadRevenue(g) /\ ~Leaves(g)
  <2>1. /\ revenue' = revenue /\ run[g].settlement = 0
        /\ Go(g, "save", [rows |-> Unsettled(g), amount |-> SumOf(Worth(Unsettled(g))),
                          settlement |-> 0])
    BY <1>1, <1>6 DEF ReadRevenue, books
  <2>2. run'[g] = [rows |-> Unsettled(g), amount |-> SumOf(Worth(Unsettled(g))), settlement |-> 0]
    BY <1>2, <1>3, <2>1
  <2>3. /\ run'[g].settlement = 0 /\ run'[g].rows = Unsettled(g)
        /\ run'[g].amount = SumOf(Worth(Unsettled(g)))
    BY <2>2
  <2> QED
    BY <1>2, <1>3, <2>1, <2>3 DEF Carries
<1>7. CASE SaveSettlement(g)
  <2>1. Go(g, "partners", [run[g] EXCEPT !.settlement = made + 1]) /\ run[g].settlement = 0
    BY <1>1, <1>7 DEF SaveSettlement
  <2>2. run'[g] = [run[g] EXCEPT !.settlement = made + 1]
    BY <1>2, <1>3, <2>1
  <2>3. /\ run'[g].settlement = made + 1 /\ run'[g].rows = run[g].rows
        /\ run'[g].amount = run[g].amount
    BY <1>1, <2>2 DEF Runs
  <2> QED
    BY <1>2, <1>3, <1>7, <2>1, <2>3 DEF Carries
<1>8. CASE SavePartners(g)
  BY <1>2, <1>3, <1>8 DEF SavePartners, Carries, Holds
<1>9. ReadRevenue(g) => run[g].settlement = 0
  BY <1>1 DEF ReadRevenue
<1>10. MarkRevenue(g) => Leaves(g)
  BY DEF MarkRevenue
<1> QED
  BY <1>4, <1>5, <1>6, <1>7, <1>8, <1>9, <1>10 DEF Generates

\* What every step does to every generator.
LEMMA AllCarry ==
  ASSUME TransferInv, fails \in Nat, Step, NoteHistory, NEW g \in Generators
  PROVE  Carries(g)
<1>1. Shape /\ pc \in [Generators \cup Admins -> Labels]
  BY DEF TransferInv, PaidInv, Shape
<1>2. ASSUME NEW h \in Generators, Generates(h) PROVE Carries(g)
  BY <1>2, OwnCarries
<1>3. ASSUME NEW x \in Generators \cup Admins, Fail(x) PROVE Carries(g)
  <2>1. CASE x = g
    <3>1. run'[g] = NoRun /\ pc'[g] = "idle"
      BY <1>1, <1>3, <2>1 DEF Fail
    <3>2. run[g].settlement = 0 \/ run[g].settlement \in spoiled'
      BY <1>1, <1>3, <2>1, FailSpoils
    <3> QED
      BY <3>1, <3>2 DEF Carries, Holds
  <2>2. CASE x # g
    BY <1>1, <1>3, <2>2 DEF Fail, Carries
  <2> QED
    BY <2>1, <2>2
<1>4. ASSUME NEW a \in Admins, Administers(a) PROVE Carries(g)
  <2>1. run' = run /\ (pc' = pc \/ \E label : pc' = [pc EXCEPT ![a] = label])
    BY <1>4 DEF Administers, Complete, Flag, Look, Settle, Pend, SettleRows, Reject, Decides, Fills
  <2>2. pc'[g] = pc[g]
    BY <1>1, <2>1
  <2> QED
    BY <2>1, <2>2 DEF Carries
<1>5. ASSUME NEW t \in Sessions, Sync(t) \/ Ages(t) \/ \E n \in Amounts : Calculates(t, n)
      PROVE  Carries(g)
  BY <1>5 DEF Sync, Ages, Calculates, Carries
<1>6. CASE FallsDue
  BY <1>6 DEF FallsDue, Carries
<1> QED
  BY <1>2, <1>3, <1>4, <1>5, <1>6 DEF Step

\* What a step does to a session's number: only whoever holds the session gives it one.
LEMMA NumberSteps ==
  ASSUME TransferInv, Step, NEW t \in Sessions
  PROVE  \/ revenue'[t].settlement = revenue[t].settlement
         \/ \E g \in Generators : MarkRevenue(g) /\ t \in run[g].rows
BY RowSteps

\* A mark gives the sessions its generator holds the number it has.
LEMMA MarkSteps ==
  ASSUME TransferInv, NEW g \in Generators, MarkRevenue(g)
  PROVE  /\ run'[g] = NoRun /\ run[g].settlement \in 1..made /\ pc[g] \in Holds
         /\ settlements' = settlements /\ made' = made
         /\ \A t \in Sessions : revenue'[t].settlement =
              IF t \in run[g].rows THEN run[g].settlement ELSE revenue[t].settlement
<1>1. revenue \in [Sessions -> Rows] /\ Shape /\ run \in [Generators -> Runs]
  BY TypeOKIs DEF TransferInv, PaidInv, Typed, Types
<1>2. run'[g] = NoRun
  BY <1>1 DEF MarkRevenue, Leaves, Go
<1>3. pc[g] = "mark" /\ run[g].settlement # 0 /\ run[g].settlement \in 0..made /\ made \in Nat
  BY <1>1 DEF MarkRevenue, Shape
<1>4. ASSUME NEW t \in Sessions
      PROVE  revenue'[t].settlement =
               IF t \in run[g].rows THEN run[g].settlement ELSE revenue[t].settlement
  <2>1. revenue'[t] = IF t \in run[g].rows THEN [revenue[t] EXCEPT !.settlement = run[g].settlement]
                                           ELSE revenue[t]
    BY DEF MarkRevenue, Marks
  <2> QED
    BY <1>1, <2>1 DEF Rows
<1>5. settlements' = settlements /\ made' = made
  BY DEF MarkRevenue
<1> QED
  BY <1>2, <1>3, <1>4, <1>5 DEF Holds

\* What a settlement is worth is written when it is made.
LEMMA AmountSteps ==
  ASSUME TransferInv, Step, NEW s \in 1..made
  PROVE  settlements'[s].amount = settlements[s].amount
<1>1. /\ settlements \in [Numbers -> Settlements] /\ made \in 0..MaxSettlements /\ s \in Numbers
      /\ s # made + 1
  BY TypeOKIs DEF TransferInv, Typed, Types
<1>2. ASSUME NEW g \in Generators, SaveSettlement(g)
      PROVE  settlements'[s].amount = settlements[s].amount
  BY <1>1, <1>2 DEF SaveSettlement
<1>3. ASSUME NEW status, NEW u, settlements' = [settlements EXCEPT ![u].status = status]
      PROVE  settlements'[s].amount = settlements[s].amount
  BY <1>1, <1>3 DEF Settlements
<1>4. ASSUME NEW a \in Admins, Settle(a) \/ Pend(a) \/ Reject(a)
      PROVE  settlements'[s].amount = settlements[s].amount
  BY <1>3, <1>4 DEF Settle, Pend, Reject, Decides
<1>5. \/ settlements' = settlements
      \/ \E g \in Generators : SaveSettlement(g)
      \/ \E a \in Admins : Settle(a) \/ Pend(a) \/ Reject(a)
  BY DEF Step, Sync, Ages, Calculates, FallsDue, Generates, Starts, ReadRevenue, SavePartners,
    MarkRevenue, UpdateDates, Administers, Complete, Flag, Look, SettleRows, Fail, books
<1> QED
  BY <1>2, <1>4, <1>5

\* A sum stays the same as long as no amount in it is calculated anew.
LEMMA SumStays ==
  ASSUME NoteHistory, NEW rows \in SUBSET Sessions, rows \cap recalculated' = {},
         \A t \in rows : Held(t) # {} \/ \E s \in Numbers : t \in counted[s]
  PROVE  [t \in rows |-> revenue'[t].amount] = Worth(rows)
<1>1. ASSUME NEW t \in rows PROVE revenue'[t].amount = revenue[t].amount
  BY DEF NoteHistory
<1> QED
  BY <1>1 DEF Worth

\* What is calculated anew, and who contends, is noted for good.
LEMMA IntactBefore ==
  ASSUME NoteHistory, NEW rows, rows \cap (contended' \cup recalculated') = {}
  PROVE  Intact(rows) /\ rows \cap recalculated' = {}
BY DEF NoteHistory, Intact

\* What was counted is noted when the settlement is made.
LEMMA CountedSteps ==
  ASSUME TransferInv, Step, NoteHistory
  PROVE  /\ \A s \in 1..made : counted'[s] = counted[s] /\ counted[s] \subseteq Sessions
         /\ \A g \in Generators : SaveSettlement(g) /\ run'[g].settlement = made + 1 =>
              counted'[made + 1] = run'[g].rows
<1>1. made \in 0..MaxSettlements /\ (made' = made \/ made' = made + 1)
      /\ counted \in [Numbers -> SUBSET Sessions]
  BY MadeGrows DEF TransferInv, Typed, TypeOK
<1>2. \A s \in 1..made : counted'[s] = counted[s] /\ counted[s] \subseteq Sessions
  BY <1>1 DEF NoteHistory
<1>3. ASSUME NEW g \in Generators, SaveSettlement(g), run'[g].settlement = made + 1
      PROVE  counted'[made + 1] = run'[g].rows
  <2>1. made' = made + 1 /\ made + 1 \in Numbers
    BY <1>1, <1>3 DEF SaveSettlement
  <2>2. \A h \in Generators \ {g} : run'[h] = run[h] /\ run[h].settlement \in 0..made
    BY <1>3, OwnStep DEF TransferInv, PaidInv, Shape, Generates
  <2>3. {h \in Generators : run'[h].settlement = made + 1} = {g}
    BY <1>1, <1>3, <2>2
  <2>4. counted'[made + 1] = UNION {run'[h].rows : h \in {i \in Generators : run'[i].settlement = made + 1}}
    BY <1>1, <2>1 DEF NoteHistory
  <2>5. UNION {run'[h].rows : h \in {g}} = run'[g].rows
    OBVIOUS
  <2> QED
    BY <2>3, <2>4, <2>5
<1> QED
  BY <1>2, <1>3

\* No row carries a number before it is made.
LEMMA NumberedStays ==
  ASSUME WorthInv, Step
  PROVE  Numbered'
<1>1. made \in 0..MaxSettlements /\ (made' = made \/ made' = made + 1)
  BY MadeGrows DEF WorthInv, TransferInv
<1>2. 0..made \subseteq 0..made'
  BY <1>1
<1>3. ASSUME NEW t \in Sessions PROVE revenue'[t].settlement \in 0..made
  <2>1. revenue[t].settlement \in 0..made
    BY DEF WorthInv, Numbered
  <2>2. ASSUME NEW g \in Generators, MarkRevenue(g), t \in run[g].rows
        PROVE  revenue'[t].settlement \in 0..made
    BY <1>1, <2>2, MarkSteps DEF WorthInv
  <2> QED
    BY <2>1, <2>2, NumberSteps DEF WorthInv
<1> QED
  BY <1>2, <1>3 DEF Numbered

\* What a generator knows stays the sum of what it holds.
LEMMA ReckonedStays ==
  ASSUME WorthInv, fails \in Nat, Step, NoteHistory
  PROVE  Reckoned'
<1> SUFFICES ASSUME NEW g \in Generators, pc'[g] \in Holds,
                    run'[g].rows \cap (contended' \cup recalculated') = {}
             PROVE  run'[g].amount = SumOf([t \in run'[g].rows |-> revenue'[t].amount])
  BY DEF Reckoned, Intact, Worth
<1>1. Carries(g)
  BY AllCarry DEF WorthInv
<1>2. CASE run'[g].rows = run[g].rows /\ run'[g].amount = run[g].amount /\ pc[g] \in Holds
  <2>1. Intact(run[g].rows) /\ run[g].rows \cap recalculated' = {} /\ run[g].rows \subseteq Sessions
    BY <1>2, IntactBefore DEF WorthInv, TransferInv, PaidInv, Shape
  <2>2. run[g].amount = SumOf(Worth(run[g].rows))
    BY <1>2, <2>1 DEF WorthInv, Reckoned
  <2>3. \A t \in run[g].rows : Held(t) # {}
    BY DEF Held
  <2>4. [t \in run[g].rows |-> revenue'[t].amount] = Worth(run[g].rows)
    BY <2>1, <2>3, SumStays
  <2> QED
    BY <1>2, <2>2, <2>4
<1>3. CASE revenue' = revenue /\ run'[g].amount = SumOf(Worth(run'[g].rows))
  BY <1>3 DEF Worth
<1>4. SaveSettlement(g) => pc[g] \in Holds
  BY DEF SaveSettlement, Holds
<1> QED
  BY <1>1, <1>2, <1>3, <1>4 DEF Carries

\* Nobody else gives a row the number of a generator at work.
LEMMA ChargedStays ==
  ASSUME WorthInv, fails \in Nat, Step, NoteHistory
  PROVE  Charged'
<1> SUFFICES ASSUME NEW g \in Generators, run'[g].settlement # 0
             PROVE  /\ counted'[run'[g].settlement] = run'[g].rows
                    /\ settlements'[run'[g].settlement].amount = run'[g].amount
                    /\ \A t \in Sessions : revenue'[t].settlement # run'[g].settlement
  BY DEF Charged, OfSettlement
<1>1. Carries(g) /\ NoRun.settlement = 0
  BY AllCarry DEF WorthInv, NoRun
<1>2. /\ made \in 0..MaxSettlements /\ settlements \in [Numbers -> Settlements]
      /\ run[g].settlement \in 0..made
  BY TypeOKIs DEF WorthInv, TransferInv, PaidInv, Shape, Typed, Types
<1>3. CASE run'[g] = run[g]
  <2>1. run[g].settlement \in 1..made
    BY <1>2, <1>3
  <2>2. /\ counted[run[g].settlement] = run[g].rows
        /\ settlements[run[g].settlement].amount = run[g].amount
        /\ \A t \in Sessions : revenue[t].settlement # run[g].settlement
    BY <1>3 DEF WorthInv, Charged, OfSettlement
  <2>3. /\ counted'[run[g].settlement] = counted[run[g].settlement]
        /\ settlements'[run[g].settlement].amount = settlements[run[g].settlement].amount
    BY <2>1, CountedSteps, AmountSteps DEF WorthInv
  <2>4. ASSUME NEW t \in Sessions, revenue'[t].settlement = run[g].settlement PROVE FALSE
    <3>1. PICK h \in Generators : MarkRevenue(h) /\ t \in run[h].rows
      BY <2>2, <2>4, NumberSteps DEF WorthInv
    <3>2. run[h].settlement = run[g].settlement /\ run'[h] = NoRun
      BY <2>4, <3>1, MarkSteps DEF WorthInv
    <3>3. h # g
      BY <1>1, <1>3, <3>2
    <3> QED
      BY <1>3, <3>2, <3>3 DEF WorthInv, TransferInv, PaidInv, Apart
  <2> QED
    BY <1>3, <2>2, <2>3, <2>4
<1>4. CASE /\ SaveSettlement(g) /\ run'[g].settlement = made + 1
           /\ run'[g].rows = run[g].rows /\ run'[g].amount = run[g].amount
  <2>1. /\ made + 1 \in Numbers /\ revenue' = revenue
        /\ settlements' = [settlements EXCEPT ![made + 1] =
                             [amount |-> run[g].amount, status |-> "Pending"]]
    BY <1>2, <1>4 DEF SaveSettlement
  <2>2. settlements'[made + 1].amount = run[g].amount
    BY <1>2, <2>1
  <2>3. counted'[made + 1] = run'[g].rows
    BY <1>4, CountedSteps DEF WorthInv
  <2>4. \A t \in Sessions : revenue'[t].settlement # made + 1
    BY <1>2, <2>1 DEF WorthInv, Numbered
  <2> QED
    BY <1>4, <2>2, <2>3, <2>4
<1> QED
  BY <1>1, <1>3, <1>4 DEF Carries

\* A settlement that a generator is done with stays worth the rows that carry its number.
LEMMA SummedStays ==
  ASSUME WorthInv, fails \in Nat, Step, NoteHistory
  PROVE  Summed'
<1> SUFFICES ASSUME NEW s \in 1..made', s \notin spoiled',
                    \A g \in Generators : run'[g].settlement # s,
                    counted'[s] \cap (contended' \cup recalculated') = {}
             PROVE  /\ {t \in Sessions : revenue'[t].settlement = s} = counted'[s]
                    /\ settlements'[s].amount = SumOf([t \in counted'[s] |-> revenue'[t].amount])
  BY DEF Summed, Intact, Worth, OfSettlement
<1>1. made \in 0..MaxSettlements /\ s \in 1..made
  <2>1. /\ made \in 0..MaxSettlements
        /\ \/ made' = made
           \/ made' = made + 1 /\ \E g \in Generators : SaveSettlement(g)
    BY MadeGrows DEF WorthInv, TransferInv
  <2>2. ASSUME NEW g \in Generators, SaveSettlement(g) PROVE s # made + 1
    <3>1. run'[g].settlement = made + 1
      <4>1. Go(g, "partners", [run[g] EXCEPT !.settlement = made + 1])
            /\ run \in [Generators -> Runs]
        BY <2>2, TypeOKIs DEF SaveSettlement, WorthInv, TransferInv, Typed, Types
      <4> QED
        BY <4>1 DEF Go, Runs
    <3> QED
      BY <3>1
  <2> QED
    BY <2>1, <2>2
<1>2. /\ counted'[s] = counted[s] /\ counted[s] \subseteq Sessions
      /\ settlements'[s].amount = settlements[s].amount
  BY <1>1, CountedSteps, AmountSteps DEF WorthInv
<1>3. s \notin spoiled /\ Intact(counted[s]) /\ counted[s] \cap recalculated' = {}
  BY <1>2, HistoryGrows, IntactBefore
<1>4. [t \in counted[s] |-> revenue'[t].amount] = Worth(counted[s])
  <2>1. s \in Numbers
    BY <1>1
  <2> QED
    BY <1>2, <1>3, <2>1, SumStays
\* The generator that made it is done with it now:
<1>5. ASSUME NEW g \in Generators, run[g].settlement = s
      PROVE  /\ {t \in Sessions : revenue'[t].settlement = s} = counted[s]
             /\ settlements[s].amount = SumOf(Worth(counted[s]))
  <2>1. MarkRevenue(g)
    <3>1. Carries(g) /\ run'[g].settlement # run[g].settlement
      BY <1>5, AllCarry DEF WorthInv
    <3>2. run[g].settlement # 0 /\ run[g].settlement \notin spoiled'
      BY <1>1, <1>5
    <3> QED
      BY <3>1, <3>2 DEF Carries
  <2>2. /\ pc[g] \in Holds
        /\ \A t \in Sessions : revenue'[t].settlement =
             IF t \in run[g].rows THEN run[g].settlement ELSE revenue[t].settlement
    BY <2>1, MarkSteps DEF WorthInv
  <2>3. /\ counted[s] = run[g].rows /\ settlements[s].amount = run[g].amount
        /\ \A t \in Sessions : revenue[t].settlement # s
    BY <1>1, <1>5 DEF WorthInv, Charged, OfSettlement
  <2>4. {t \in Sessions : revenue'[t].settlement = s} = counted[s]
    BY <1>2, <1>5, <2>2, <2>3
  <2>5. run[g].amount = SumOf(Worth(run[g].rows))
    BY <1>3, <2>2, <2>3 DEF WorthInv, Reckoned
  <2> QED
    BY <2>3, <2>4, <2>5
\* or it was before.
<1>6. CASE \A g \in Generators : run[g].settlement # s
  <2>1. OfSettlement(s) = counted[s] /\ settlements[s].amount = SumOf(Worth(counted[s]))
    BY <1>1, <1>3, <1>6 DEF WorthInv, Summed
  <2>2. ASSUME NEW t \in Sessions
        PROVE  revenue'[t].settlement = s <=> revenue[t].settlement = s
    <3>1. ASSUME NEW g \in Generators, MarkRevenue(g), t \in run[g].rows
          PROVE  revenue'[t].settlement # s /\ revenue[t].settlement # s
      <4>1. revenue'[t].settlement = run[g].settlement
        BY <3>1, MarkSteps DEF WorthInv
      <4>2. ASSUME revenue[t].settlement = s PROVE FALSE
        <5>1. t \notin contended
          BY <1>3, <2>1, <4>2 DEF Intact, OfSettlement
        <5>2. revenue[t].settlement = 0
          BY <3>1, <5>1 DEF WorthInv, TransferInv, Owing
        <5> QED
          BY <1>1, <4>2, <5>2
      <4> QED
        BY <1>6, <4>1, <4>2
    <3> QED
      BY <3>1, NumberSteps DEF WorthInv
  <2>3. {t \in Sessions : revenue'[t].settlement = s} = OfSettlement(s)
    BY <2>2 DEF OfSettlement
  <2> QED
    BY <1>2, <1>4, <2>1, <2>3
<1> QED
  BY <1>2, <1>4, <1>5, <1>6

\* Every step keeps the invariant.
LEMMA WorthNext == WorthInv /\ fails \in Nat /\ [Next]_vars => WorthInv'
<1> SUFFICES ASSUME WorthInv, fails \in Nat, [Next]_vars PROVE WorthInv'
  OBVIOUS
<1>1. TransferInv'
  BY TransferNext DEF WorthInv
<1>2. CASE UNCHANGED vars
  BY <1>1, <1>2 DEF vars, source, books, WorthInv, Numbered, Reckoned, Charged, Summed, Intact,
    Worth, OfSettlement
<1>3. CASE Next
  BY <1>1, <1>3, NumberedStays, ReckonedStays, ChargedStays, SummedStays DEF Next, WorthInv
<1> QED
  BY <1>2, <1>3

\* It holds at first.
LEMMA WorthInit == Init => WorthInv
<1> SUFFICES ASSUME Init PROVE WorthInv
  OBVIOUS
<1>1. TransferInv
  BY TransferInit
<1>2. Numbered /\ Reckoned /\ Charged /\ Summed
  BY DEF Init, Numbered, Reckoned, Charged, Summed, NoRun, NoRow, Holds
<1> QED
  BY <1>1, <1>2 DEF WorthInv

\* A settlement is worth the sum of the revenue that carries its number, once its run is
\* over and however the other runs, the jobs and the requests went on: the mark by the ids
\* that were read (sync-settlements.cron.js:314, settlement.service.js:342) is what the
\* amount was summed up from (:157, :231), but for sessions that were calculated anew or
\* that two runs held, and for runs and requests that failed half-way.
THEOREM SettlementsAreWorth == Spec => []SettlementsAddUp
<1>1. WorthInv => SettlementsAddUp
  <2> SUFFICES ASSUME WorthInv, NEW s \in (1..made) \ spoiled,
                      \A g \in Generators : run[g].settlement # s, Intact(counted[s])
               PROVE  SumOf(Worth(OfSettlement(s))) = settlements[s].amount
    BY DEF SettlementsAddUp, Intact
  <2>1. OfSettlement(s) = counted[s] /\ settlements[s].amount = SumOf(Worth(counted[s]))
    BY DEF WorthInv, Summed
  <2> QED
    BY <2>1
<1> QED
  BY WorthInit, WorthNext, FailsInit, FailsNext, <1>1, PTL DEF Spec

=============================================================================
