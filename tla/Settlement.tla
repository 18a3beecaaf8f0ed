------------------------------ MODULE Settlement ------------------------------
(***************************************************************************)
(* The revenue of one contract and its settlements: rows of                *)
(* charger_revenue, which a queue derives from the sessions, are summed up *)
(* into settlements by the daily cron (syncSettlements) or on request      *)
(* (generateSettlement), and an administrator then notes for one partner   *)
(* after the other that its share was transferred.                         *)
(*                                                                         *)
(* Nothing here runs in a database transaction: between any two queries    *)
(* another run, request or job may act, or the request may fail.           *)
(***************************************************************************)
EXTENDS Naturals, FiniteSetsExt

CONSTANTS
  Sessions,       \* paid sessions, each with at most one row of charger_revenue
  Partners,       \* the contract's partners
  Crons,          \* runs of syncSettlements
  Calls,          \* calls of generateSettlement
  Admins,         \* requests of the dashboard
  Amounts,        \* netAmounts of sessions
  MaxCalcs,       \* bound: calculations of a netAmount
  MaxSettlements, \* bound: settlements made in a behaviour
  MaxBusy,        \* bound: runs and requests in progress at the same time
  MaxTransfers,   \* bound: transfers noted in a behaviour
  MaxFails        \* bound: failures of runs and requests

Generators == Crons \cup Calls
Numbers == 1..MaxSettlements
Nobody == "nobody"

ASSUME SettlementAssumption ==
  /\ Amounts \subseteq Nat /\ MaxCalcs \in Nat /\ MaxSettlements \in Nat /\ MaxBusy \in Nat
  /\ MaxTransfers \in Nat /\ MaxFails \in Nat
  /\ IsFiniteSet(Sessions)
  /\ Crons \cap Calls = {} /\ Generators \cap Admins = {}
  /\ Nobody \notin Partners

VARIABLES
  net, calcs,        \* netAmount of each session, calculations of any so far
  age,               \* 0: paid today, 1: before today, 2: a week ago
  queue,             \* SyncRevenueQueue: sessions waiting
  revenue,           \* charger_revenue
  settlements, made, \* settlement, in the order of their insertion
  transfers,         \* settlement_partner: transferStatus
  noted,             \* transfers noted so far
  due,               \* the eMSP's nextSettlementDate has come
  pc, run, form,     \* what each generator and request is at, and what it knows
  fails,             \* failures so far
  counted,           \* history: the sessions a settlement's amount was summed up from
  contended,         \* history: sessions that two generators held at the same time
  crossed,           \* history: settlements with two transfers noted at the same time
  spoiled,           \* history: settlements whose run or request failed between its writes
  recalculated       \* history: sessions whose amount changed when it had been read

books == <<revenue, settlements, made, transfers, noted>>
source == <<net, calcs, age, queue>>
vars == <<source, books, due, pc, run, form, fails, counted, contended, crossed, spoiled,
          recalculated>>

NoRow == [there |-> FALSE, amount |-> 0, settlement |-> 0, settled |-> FALSE, paid |-> {}]
NoSettlement == [amount |-> 0, status |-> "none"]
NoRun == [rows |-> {}, amount |-> 0, settlement |-> 0]
NoForm == [settlement |-> 0, partner |-> Nobody]

Init ==
  /\ net = [t \in Sessions |-> 0] /\ calcs = 0
  /\ age = [t \in Sessions |-> 0]
  /\ queue = {}
  /\ revenue = [t \in Sessions |-> NoRow]
  /\ settlements = [s \in Numbers |-> NoSettlement] /\ made = 0
  /\ transfers = [s \in Numbers |-> [p \in Partners |-> "none"]]
  /\ noted = 0 /\ due = TRUE
  /\ pc = [x \in Generators \cup Admins |-> "idle"]
  /\ run = [g \in Generators |-> NoRun] /\ form = [a \in Admins |-> NoForm]
  /\ fails = 0
  /\ counted = [s \in Numbers |-> {}]
  /\ contended = {} /\ crossed = {} /\ spoiled = {} /\ recalculated = {}

Busy == {x \in Generators \cup Admins : pc[x] # "idle"}
At(x, label) == x \in Generators \cup Admins /\ pc[x] = label
Go(g, label, r) == pc' = [pc EXCEPT ![g] = label] /\ run' = [run EXCEPT ![g] = r]
Fills(a, label, f) == pc' = [pc EXCEPT ![a] = label] /\ form' = [form EXCEPT ![a] = f]

------------------------------------------------------------------------------
(* Revenue *)

\* A stop job calculates the session's amount, and queues its revenue job.
Calculates(t, amount) ==
  /\ calcs < MaxCalcs /\ calcs' = calcs + 1
  /\ net' = [net EXCEPT ![t] = amount]
  /\ queue' = queue \cup {t}
  /\ UNCHANGED <<age, books, due, pc, run, form, fails>>

\* SyncRevenueQueue, one job at a time: reads the session, and writes its row. Nobody
\* else reads the session, so that a job which read it before it changed is one that
\* ran before it changed. A row that is there becomes unsettled, but stays in its
\* settlement.
Synced(row, amount) == [row EXCEPT !.there = TRUE, !.amount = amount, !.settled = FALSE]
Sync(t) ==
  /\ t \in queue
  /\ queue' = queue \ {t}
  /\ revenue' = [revenue EXCEPT ![t] = Synced(@, net[t])]
  /\ UNCHANGED <<net, calcs, age, settlements, made, transfers, noted, due, pc, run, form, fails>>

\* Time.
Ages(t) ==
  /\ revenue[t].there /\ age[t] < 2
  /\ age' = [age EXCEPT ![t] = @ + 1]
  /\ UNCHANGED <<net, calcs, queue, books, due, pc, run, form, fails>>
FallsDue ==
  /\ ~due /\ due' = TRUE
  /\ UNCHANGED <<source, books, pc, run, form, fails>>

------------------------------------------------------------------------------
(* Settlements: syncSettlements and generateSettlement *)

\* A run of the cron and a call read the revenue, and draw a code, in either order: no
\* table is written before both are there.
Starts(g) ==
  /\ g \in Generators /\ At(g, "idle") /\ Cardinality(Busy) < MaxBusy
  /\ g \in Crons => due
  /\ Go(g, "read", NoRun)
  /\ UNCHANGED <<source, books, due, form, fails>>

Worth(rows) == [t \in rows |-> revenue[t].amount]
SumOf(amounts) == MapThenSumSet(LAMBDA t : amounts[t], DOMAIN amounts)

\* Revenue of the days before, or of a week ago and before, without a settlement.
EveryAged(g) == {t \in Sessions : revenue[t].there /\ age[t] >= IF g \in Crons THEN 1 ELSE 2}
Unsettled(g) == {t \in EveryAged(g) : revenue[t].settlement = 0}
Leaves(g) == Go(g, IF g \in Crons THEN "dates" ELSE "idle", NoRun)
ReadRevenue(g) ==
  /\ g \in Generators /\ At(g, "read")
  /\ LET rows == Unsettled(g)
         amount == SumOf(Worth(rows))
     IN  IF amount > 0
         THEN Go(g, "save", [rows |-> rows, amount |-> amount, settlement |-> 0])
         ELSE Leaves(g)
  /\ UNCHANGED <<source, books, due, form, fails>>

\* The settlement, its partners, and the mark on the revenue that was read.
SaveSettlement(g) ==
  /\ g \in Generators /\ At(g, "save") /\ made < MaxSettlements
  /\ made' = made + 1
  /\ settlements' = [settlements EXCEPT ![made + 1] =
                       [amount |-> run[g].amount, status |-> "Pending"]]
  /\ Go(g, "partners", [run[g] EXCEPT !.settlement = made + 1])
  /\ UNCHANGED <<source, revenue, transfers, noted, due, form, fails>>
SavePartners(g) ==
  /\ g \in Generators /\ At(g, "partners")
  /\ transfers' = [transfers EXCEPT ![run[g].settlement] = [p \in Partners |-> "Pending"]]
  /\ Go(g, "mark", run[g])
  /\ UNCHANGED <<source, revenue, settlements, made, noted, due, form, fails>>
MarksAll(g) == Unsettled(g)
Marks(g) == run[g].rows
MarkRevenue(g) ==
  /\ g \in Generators /\ At(g, "mark")
  /\ revenue' = [t \in Sessions |-> IF t \in Marks(g)
                                    THEN [revenue[t] EXCEPT !.settlement = run[g].settlement]
                                    ELSE revenue[t]]
  /\ Leaves(g)
  /\ UNCHANGED <<source, settlements, made, transfers, noted, due, form, fails>>

\* The cron's run moves the eMSP's settlement date at its end.
UpdateDates(g) ==
  /\ g \in Generators /\ At(g, "dates")
  /\ due' = FALSE
  /\ Go(g, "idle", NoRun)
  /\ UNCHANGED <<source, books, form, fails>>

------------------------------------------------------------------------------
(* Transfers: updatePartnerTransferStatus, rejectSettlement *)

\* Nothing removes the settlement or the partner's row after they were found.
Complete(a) ==
  /\ a \in Admins /\ At(a, "idle") /\ Cardinality(Busy) < MaxBusy
  /\ noted < MaxTransfers /\ noted' = noted + 1
  /\ \E s \in 1..made, p \in Partners :
       /\ transfers[s][p] # "none"
       /\ transfers' = [transfers EXCEPT ![s][p] = "Completed"]
       /\ Fills(a, "flag", [settlement |-> s, partner |-> p])
  /\ UNCHANGED <<source, revenue, settlements, made, due, run, fails>>

OfSettlement(s) == {t \in Sessions : revenue[t].settlement = s}
Flag(a) ==
  /\ a \in Admins /\ At(a, "flag")
  /\ revenue' = [t \in Sessions |->
       IF t \in OfSettlement(form[a].settlement)
       THEN [revenue[t] EXCEPT !.paid = @ \cup {form[a].partner}] ELSE revenue[t]]
  /\ Fills(a, "look", form[a])
  /\ UNCHANGED <<source, settlements, made, transfers, noted, due, run, fails>>

\* Settled when every partner has its share; the verdict is written afterwards.
SomeCompleted(s) == \E p \in Partners : transfers[s][p] = "Completed"
AllCompletedTypo(s) == \A p \in Partners : transfers[s][p] = "completed"
AllCompleted(s) == \A p \in Partners : transfers[s][p] = "Completed"
Look(a) ==
  /\ a \in Admins /\ At(a, "look")
  /\ Fills(a, IF AllCompleted(form[a].settlement) THEN "settle" ELSE "pend", form[a])
  /\ UNCHANGED <<source, books, due, run, fails>>
SettledStatus == "Settled"
Decides(a, status) ==
  /\ settlements' = [settlements EXCEPT ![form[a].settlement].status = status]
  /\ UNCHANGED <<source, revenue, made, transfers, noted, due, run, fails>>
Settle(a) ==
  /\ a \in Admins /\ At(a, "settle")
  /\ Decides(a, SettledStatus) /\ Fills(a, "settleRows", form[a])
Pend(a) ==
  /\ a \in Admins /\ At(a, "pend")
  /\ Decides(a, "Pending") /\ Fills(a, "idle", NoForm)
SettleRows(a) ==
  /\ a \in Admins /\ At(a, "settleRows")
  /\ revenue' = [t \in Sessions |->
       IF t \in OfSettlement(form[a].settlement)
       THEN [revenue[t] EXCEPT !.settled = TRUE, !.paid = Partners] ELSE revenue[t]]
  /\ Fills(a, "idle", NoForm)
  /\ UNCHANGED <<source, settlements, made, transfers, noted, due, run, fails>>
Reject(a) ==
  /\ a \in Admins /\ At(a, "idle")
  /\ \E s \in 1..made : settlements' = [settlements EXCEPT ![s].status = "Rejected"]
  /\ UNCHANGED <<source, revenue, made, transfers, noted, due, pc, run, form, fails>>

\* A query of a run or a request fails, the process stops, or a code is never found
\* (SettlementCode): all end it where it is.
Fail(x) ==
  /\ x \in Generators \cup Admins /\ pc[x] # "idle"
  /\ fails < MaxFails /\ fails' = fails + 1
  /\ pc' = [pc EXCEPT ![x] = "idle"]
  /\ run' = [g \in Generators |-> IF g = x THEN NoRun ELSE run[g]]
  /\ form' = [a \in Admins |-> IF a = x THEN NoForm ELSE form[a]]
  /\ UNCHANGED <<source, books, due>>

------------------------------------------------------------------------------
Generates(g) ==
  \/ Starts(g) \/ ReadRevenue(g)
  \/ SaveSettlement(g) \/ SavePartners(g) \/ MarkRevenue(g) \/ UpdateDates(g)
Administers(a) ==
  \/ Complete(a) \/ Flag(a) \/ Look(a) \/ Settle(a) \/ Pend(a)
  \/ SettleRows(a) \/ Reject(a)

Step ==
  \/ \E t \in Sessions : Sync(t) \/ Ages(t) \/ \E n \in Amounts : Calculates(t, n)
  \/ FallsDue
  \/ \E g \in Generators : Generates(g)
  \/ \E a \in Admins : Administers(a)
  \/ \E x \in Generators \cup Admins : Fail(x)

Held(t) == {g \in Generators : t \in run[g].rows}
Concerns(s) == {g \in Generators : run[g].settlement = s} \cup {a \in Admins : form[a].settlement = s}
NoteHistory ==
  /\ counted' = [s \in Numbers |->
       IF made' = s /\ made # s THEN UNION {run'[g].rows : g \in {h \in Generators : run'[h].settlement = s}}
       ELSE counted[s]]
  /\ contended' = contended \cup
       {t \in Sessions : \E g, h \in Generators : g # h /\ t \in run'[g].rows \cap run'[h].rows}
  /\ crossed' = crossed \cup
       {s \in Numbers : \E a, b \in Admins : a # b /\ form'[a].settlement = s /\ form'[b].settlement = s}
  /\ spoiled' = IF fails' = fails THEN spoiled
                ELSE spoiled \cup {s \in Numbers : Concerns(s)' # Concerns(s)}
  /\ recalculated' = recalculated \cup
       {t \in Sessions : /\ revenue'[t].amount # revenue[t].amount
                         /\ Held(t) # {} \/ \E s \in Numbers : t \in counted[s]}

Next == Step /\ NoteHistory
Spec == Init /\ [][Next]_vars

------------------------------------------------------------------------------
(* Properties *)

Labels == {"idle", "read", "save", "partners", "mark", "dates",
           "flag", "look", "settle", "pend", "settleRows"}
Sums == {SumOf(amounts) : amounts \in UNION {[rows -> Amounts \cup {0}] : rows \in SUBSET Sessions}}
\* The variables keep their types: what a settlement is worth is a sum of amounts.
TypeOK ==
  /\ net \in [Sessions -> Amounts \cup {0}] /\ calcs \in 0..MaxCalcs
  /\ age \in [Sessions -> 0..2] /\ queue \subseteq Sessions
  /\ revenue \in [Sessions -> [there : BOOLEAN, amount : Amounts \cup {0},
                              settlement : Numbers \cup {0}, settled : BOOLEAN,
                              paid : SUBSET Partners]]
  /\ settlements \in [Numbers -> [amount : Sums \cup {0},
                                 status : {"none", "Pending", "Settled", "Rejected"}]]
  /\ made \in 0..MaxSettlements /\ noted \in 0..MaxTransfers
  /\ transfers \in [Numbers -> [Partners -> {"none", "Pending", "Completed"}]]
  /\ due \in BOOLEAN /\ pc \in [Generators \cup Admins -> Labels]
  /\ run \in [Generators -> [rows : SUBSET Sessions, amount : Sums \cup {0},
                         settlement : Numbers \cup {0}]]
  /\ form \in [Admins -> [settlement : Numbers \cup {0}, partner : Partners \cup {Nobody}]]
  /\ fails \in 0..MaxFails
  /\ counted \in [Numbers -> SUBSET Sessions]
  /\ contended \subseteq Sessions /\ crossed \subseteq Numbers /\ spoiled \subseteq Numbers
  /\ recalculated \subseteq Sessions

\* A session is paid out once: no two settlements are summed up from it, unless two
\* generators held it at the same time or one of the two runs failed half-way.
PaidOnce ==
  \A s, q \in 1..made : s # q =>
    (counted[s] \cap counted[q]) \ contended = {} \/ s \in spoiled \/ q \in spoiled

\* A settlement that is made is worth what the revenue that carries its number is worth,
\* unless an amount was calculated anew when it had been read.
SettlementsAddUp ==
  \A s \in (1..made) \ spoiled :
    \/ \E g \in Generators : run[g].settlement = s
    \/ counted[s] \cap (contended \cup recalculated) # {}
    \/ SumOf(Worth(OfSettlement(s))) = settlements[s].amount

Transferred(s) == \A p \in Partners : transfers[s][p] = "Completed"

\* What is booked as paid was transferred: a settlement is Settled, and a session paid
\* for a partner, only when the transfers say so.
PaidIsTransferred ==
  /\ \A s \in 1..made : settlements[s].status = "Settled" => Transferred(s)
  /\ \A t \in Sessions \ contended : \A p \in revenue[t].paid :
       /\ revenue[t].settlement # 0
       /\ transfers[revenue[t].settlement][p] = "Completed"

\* A settlement whose partners all have their share does not stay Pending, unless two
\* transfers were noted at the same time or one of the requests failed.
TransferredIsSettled ==
  \A s \in (1..made) \ (crossed \cup spoiled) :
    Transferred(s) => \/ settlements[s].status \in {"Settled", "Rejected"}
                     \/ \E a \in Admins : form[a].settlement = s
=============================================================================
