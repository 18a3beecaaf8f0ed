---------------------------- MODULE SessionBill ----------------------------
(***************************************************************************)
(* What one charging session costs: the amount of its ocpp_transactions    *)
(* row, calculated again and again while the charger sends readings and    *)
(* once more when it stops, shown at the terminal, captured from the card  *)
(* or refunded to the customer's wallet, and booked as revenue.            *)
(*                                                                         *)
(* Every calculation (getOcppTransactionCalculation) reads the row and     *)
(* writes it some queries later; the jobs of five queues, the charger's    *)
(* events and the capture do so side by side, one worker to a queue.       *)
(***************************************************************************)
EXTENDS Integers, Sequences

CONSTANTS
  BaseRate,      \* tariff of the charger, in cents: per unit of energy,
  ParkingRate,   \*   per unit of time,
  PeakRate,      \*   and on top of it within
  PeakFrom,      \*   the daily window of the peak (turned round, it fails every
  PeakTo,        \*   calculation)
  Penalty,       \* added to every session
  Discount,      \* percentages
  TaxRate,
  UpperLimit,    \* of the charger's payment configuration, 0 for none
  LowerLimit,
  MaxAmount,     \* what was authorised at the card, or prepaid
  Kinds,         \* "card", "prepaid": how the session was started
  Meters,        \* MeterValues events that may be handled at once
  MaxReadings,   \* bound: MeterValues events
  MaxStops,      \* bound: StopTransaction events, the charger repeats them
  MaxFailures,   \* bound: failed calculations, invoices and refunds
  MaxTime        \* bound: the clock

ASSUME BillAssumption ==
  /\ {BaseRate, ParkingRate, PeakRate, Penalty, UpperLimit, LowerLimit} \subseteq Nat
  /\ PeakFrom \in Nat /\ PeakTo \in Nat /\ PeakFrom <= PeakTo
  /\ Discount \in 0..100 /\ TaxRate \in Nat
  /\ MaxAmount \in Nat \ {0}
  /\ Kinds \subseteq {"card", "prepaid"}
  /\ Meters \cap {"amounts", "stop", "stopper", "terminal", "invoicer"} = {}
  /\ {MaxReadings, MaxStops, MaxFailures, MaxTime} \subseteq Nat

None == -1     \* no time, no amount

\* Who calls preauth-complete.
Payers == {"terminal", "stopper"}
Actors == Meters \cup Payers \cup {"amounts", "stop", "invoicer"}

------------------------------------------------------------------------------
(* The tariff *)

Least(a, b) == IF a < b THEN a ELSE b
Most(a, b) == IF a > b THEN a ELSE b

\* The part of the session, begun at 0, within the window of its first day.
Overlap(end, from, to) ==
  IF 0 < to /\ end > from THEN Least(end, to) - Most(0, from) ELSE 0

Percent(x, p) == (x * p) \div 100

\* getChargingCalculation: discount and tax are rounded down.
Price(end, energy) ==
  LET gross == BaseRate * energy + ParkingRate * end
                 + PeakRate * Overlap(end, PeakFrom, PeakTo)
      taxable == gross + Penalty - Percent(gross, Discount)
  IN taxable + Percent(taxable, TaxRate)

\* updateCalculationWithLimitData
Limited(amount) == IF UpperLimit > 0 THEN Least(amount, UpperLimit) ELSE amount

\* What preauth-complete makes of the amount it is asked to capture.
Clamped(amount) ==
  IF UpperLimit > 0 /\ amount > UpperLimit THEN UpperLimit
  ELSE IF LowerLimit > 0 /\ amount < LowerLimit THEN LowerLimit ELSE amount

\* updateCalculationWithPreauthAmount scales an amount beyond the authorised one; the
\* first form only reports it.
Uncapped(amount) == amount
Capped(amount) == Least(amount, MaxAmount)

\* getOcppTransactionCalculation on the row it read: a session that is not paid is
\* charged up to now if it is told to; a calculation that fails, and one without an
\* end, writes an amount of zero all the same; and no more than the authorised
\* amount is charged.
Bill(r, now, works) ==
  LET end == IF ~r.paid /\ now # None THEN now ELSE r.end
      good == works /\ end # None
      amount == IF good THEN Limited(Price(end, r.meter)) ELSE 0
  IN [end |-> end, meter |-> r.meter, good |-> good,
      net |-> Capped(amount), reached |-> amount >= MaxAmount]

------------------------------------------------------------------------------
VARIABLES
  kind,          \* how the session was started
  row,           \* endTime, meterStop - meterStart, netAmount, isPreauthReached, isPaid
  clock,
  stopAt,        \* when the charger stopped
  reason,        \* why: at the terminal, by the vehicle, by somebody's remote stop,
                 \* by the remote stop of an amount that was reached
  log,           \* the amounts the terminal was shown: OcppLog, messageId chargingAmount
  amountJobs,    \* OcppRealtimeAmountQueue
  remoteStops,   \* StopTransactionAndCaptureQueue
  stopJobs,      \* OcppStopTransactionQueue: makePayment of each job, the
                 \* one that runs stays at the head
  invoiceJobs,   \* OcppGenerateInvoiceQueue
  revenueJobs,   \* SyncRevenueQueue
  captured,      \* the amount the provider captured and its document names
  refunded,      \* to a prepaid customer, over all refunds
  revenue,       \* amount of the charger_revenue row
  pc,            \* the await each actor is at
  held,          \* the figures it holds
  readings, stops, failures,
  reordered,     \* history: an older reading was written over a newer one
  recalculated   \* history: the amount was calculated again after it was settled

queues == <<amountJobs, remoteStops, stopJobs, invoiceJobs, revenueJobs>>
charger == <<clock, stopAt, reason>>
money == <<captured, refunded, revenue>>
bounds == <<readings, stops, failures>>
history == <<reordered, recalculated>>
vars == <<kind, row, charger, log, queues, money, pc, held, bounds, history>>

Nothing == [end |-> None, meter |-> 0, good |-> TRUE, net |-> 0, reached |-> FALSE]

Init ==
  /\ kind \in Kinds
  /\ row = [end |-> None, meter |-> 0, net |-> 0, reached |-> FALSE, paid |-> FALSE]
  /\ clock = 0 /\ stopAt = None /\ reason = "none"
  /\ log = <<>>
  /\ amountJobs = 0 /\ remoteStops = 0 /\ stopJobs = <<>>
  /\ invoiceJobs = 0 /\ revenueJobs = 0
  /\ captured = None /\ refunded = 0 /\ revenue = None
  /\ pc = [a \in Actors |-> "idle"]
  /\ held = [a \in Actors |-> Nothing]
  /\ readings = 0 /\ stops = 0 /\ failures = 0
  /\ reordered = FALSE /\ recalculated = FALSE

At(a, label) == pc[a] = label
Goto(a, label) == pc' = [pc EXCEPT ![a] = label]
Holds(a, figures) == held' = [held EXCEPT ![a] = figures]

\* A step that may fail, and one that does.
Works(ok) == ok \/ failures < MaxFailures
Counts(ok) == failures' = IF ok THEN failures ELSE failures + 1

------------------------------------------------------------------------------
(* The charger *)

\* What its meter has counted since the session began.
Energy == IF stopAt = None THEN clock ELSE stopAt

Tick ==
  /\ clock < MaxTime /\ clock' = clock + 1
  /\ UNCHANGED <<kind, row, stopAt, reason, log, queues, money, pc, held, bounds>>

\* It stops: the card is presented again, the vehicle is unplugged, or a remote stop
\* of the dashboard or the customer reaches it.
ChargerStops ==
  /\ stopAt = None /\ stopAt' = clock
  /\ reason' \in {"Local", "Vehicle", "Remote"}
  /\ UNCHANGED <<kind, row, clock, log, queues, money, pc, held, bounds>>

\* The remote stop of a reached amount, which may find the charger unreachable.
RemoteStop(ok) ==
  /\ remoteStops > 0 /\ remoteStops' = remoteStops - 1
  /\ IF ok /\ stopAt = None THEN stopAt' = clock /\ reason' = "Reached"
                            ELSE UNCHANGED <<stopAt, reason>>
  /\ Works(ok) /\ Counts(ok)
  /\ UNCHANGED <<kind, row, clock, log, amountJobs, stopJobs, invoiceJobs,
                 revenueJobs, money, pc, held, readings, stops>>

------------------------------------------------------------------------------
(* The charger's events *)

\* MeterValues: a session that is paid takes no more readings.
MeterReads(m) ==
  /\ At(m, "idle") /\ Goto(m, "write")
  /\ readings < MaxReadings /\ readings' = readings + 1
  /\ ~row.paid
  /\ Holds(m, [Nothing EXCEPT !.meter = Energy])
  /\ UNCHANGED <<kind, row, charger, log, queues, money, stops, failures>>

MeterWrites(m) ==
  /\ At(m, "write") /\ Goto(m, "idle")
  /\ row' = [row EXCEPT !.meter = held[m].meter]
  /\ amountJobs' = amountJobs + 1
  /\ Holds(m, Nothing)
  /\ UNCHANGED <<kind, charger, log, remoteStops, stopJobs, invoiceJobs, revenueJobs,
                 money, bounds>>

\* StopTransaction: an end that is already set is kept, and the session is captured
\* here and now if nobody will do it at the terminal. The first form takes every
\* remote stop for one of the dashboard.
PaysAtVehicle(reached) == reason = "Vehicle"
MakesPayment(reached) ==
  CASE reason = "Local" -> FALSE
    [] reason \in {"Remote", "Reached"} -> reached
    [] OTHER -> TRUE

StopReads ==
  /\ At("stop", "idle") /\ Goto("stop", "write")
  /\ stopAt # None
  /\ stops < MaxStops /\ stops' = stops + 1
  /\ Holds("stop", [Nothing EXCEPT !.end = row.end, !.reached = row.reached])
  /\ UNCHANGED <<kind, row, charger, log, queues, money, readings, failures>>

StopWrites ==
  /\ At("stop", "write") /\ Goto("stop", "idle")
  /\ row' = IF held["stop"].end = None THEN [row EXCEPT !.end = stopAt] ELSE row
  /\ stopJobs' = Append(stopJobs, MakesPayment(held["stop"].reached))
  /\ Holds("stop", Nothing)
  /\ UNCHANGED <<kind, charger, log, amountJobs, remoteStops, invoiceJobs,
                 revenueJobs, money, bounds>>

------------------------------------------------------------------------------
(* The running amount *)

\* A job of OcppRealtimeAmountQueue calculates the amount up to now.
AmountReads(ok) ==
  /\ At("amounts", "idle") /\ Goto("amounts", "write")
  /\ amountJobs > 0 /\ amountJobs' = amountJobs - 1
  /\ Works(ok) /\ Counts(ok)
  /\ Holds("amounts", Bill(row, clock, ok))
  /\ UNCHANGED <<kind, row, charger, log, remoteStops, stopJobs, invoiceJobs,
                 revenueJobs, money, readings, stops>>

\* The row the calculation writes.
Charged(r, bill) ==
  [r EXCEPT !.end = bill.end, !.net = bill.net, !.reached = bill.reached]

AmountWrites ==
  /\ At("amounts", "write") /\ Goto("amounts", "send")
  /\ row' = Charged(row, held["amounts"])
  /\ UNCHANGED <<kind, charger, log, queues, money, held, bounds>>

\* The terminal is shown the amount, if there is one and it can be reached.
Shows(bill, ok) ==
  /\ Works(ok) /\ Counts(ok)
  /\ log' = IF ok /\ bill.good
            THEN Append(log, [end |-> bill.end, meter |-> bill.meter, net |-> bill.net])
            ELSE log

AmountSends(ok) ==
  /\ At("amounts", "send") /\ Goto("amounts", "idle")
  /\ remoteStops' = IF held["amounts"].reached THEN remoteStops + 1 ELSE remoteStops
  /\ Shows(held["amounts"], ok)
  /\ Holds("amounts", Nothing)
  /\ UNCHANGED <<kind, row, charger, amountJobs, stopJobs, invoiceJobs, revenueJobs,
                 money, readings, stops>>

------------------------------------------------------------------------------
(* The job of the stop *)

\* An error outside the calculation leaves nothing but the revenue job.
StopperReads(ok) ==
  /\ At("stopper", "idle") /\ stopJobs # <<>>
  /\ Works(ok) /\ Counts(ok)
  /\ \/ Goto("stopper", "write") /\ Holds("stopper", Bill(row, None, ok))
     \/ ~ok /\ Goto("stopper", "report") /\ UNCHANGED held
  /\ UNCHANGED <<kind, row, charger, log, queues, money, readings, stops>>

\* The card is charged if the job says so.
StopperWrites ==
  /\ At("stopper", "write")
  /\ row' = Charged(row, held["stopper"])
  /\ Goto("stopper", CASE kind = "prepaid" -> "mark"
                       [] kind = "card" /\ Head(stopJobs) -> "call"
                       [] OTHER -> "send")
  /\ UNCHANGED <<kind, charger, log, queues, money, held, bounds>>

\* A prepaid session is paid now.
StopperMarks ==
  /\ At("stopper", "mark") /\ Goto("stopper", "send")
  /\ row' = [row EXCEPT !.paid = TRUE]
  /\ UNCHANGED <<kind, charger, log, queues, money, held, bounds>>

StopperSends(ok) ==
  /\ At("stopper", "send") /\ Goto("stopper", "report")
  /\ Shows(held["stopper"], ok)
  /\ invoiceJobs' = IF kind = "prepaid" THEN invoiceJobs + 1 ELSE invoiceJobs
  /\ UNCHANGED <<kind, row, charger, amountJobs, remoteStops, stopJobs, revenueJobs,
                 money, held, readings, stops>>

StopperReports ==
  /\ At("stopper", "report") /\ Goto("stopper", "idle")
  /\ stopJobs' = Tail(stopJobs)
  /\ revenueJobs' = revenueJobs + 1
  /\ Holds("stopper", Nothing)
  /\ UNCHANGED <<kind, row, charger, log, amountJobs, remoteStops, invoiceJobs, money,
                 bounds>>

------------------------------------------------------------------------------
(* The capture, asked for by the terminal or by the job of the stop *)

\* Where the card was presented to stop, the terminal captures the amount it was
\* shown last.
TerminalPays ==
  /\ At("terminal", "idle") /\ Goto("terminal", "call")
  /\ kind = "card" /\ reason = "Local" /\ log # <<>>
  /\ Holds("terminal", [Nothing EXCEPT !.net = log[Len(log)].net])
  /\ UNCHANGED <<kind, row, charger, log, queues, money, bounds>>

\* An authorisation is captured once; a capture may be declined.
Captures(p) ==
  /\ At(p, "call") /\ captured = None /\ Goto(p, "pay")
  /\ captured' = Clamped(held[p].net)
  /\ revenueJobs' = revenueJobs + 1
  /\ UNCHANGED <<kind, row, charger, log, amountJobs, remoteStops, stopJobs,
                 invoiceJobs, refunded, revenue, held, bounds>>

Refused(p, ok) ==
  /\ At(p, "call") /\ Goto(p, IF p = "stopper" THEN "report" ELSE "done")
  /\ ok <=> captured # None
  /\ Works(ok) /\ Counts(ok)
  /\ UNCHANGED <<kind, row, charger, log, queues, money, held, readings, stops>>

PaysRow(p) ==
  /\ At(p, "pay") /\ Goto(p, "repair")
  /\ row' = [row EXCEPT !.paid = TRUE]
  /\ UNCHANGED <<kind, charger, log, queues, money, held, bounds>>

\* updateCalculationByCaptureAmount: the row gets the figures of the first amount
\* shown that equals the captured one; a reading of zero is not written. The first
\* form leaves the row as it is.
Matches == {i \in DOMAIN log : captured # None /\ log[i].net = captured}
Unrepaired(r) == r
Repaired(r) ==
  IF Matches = {} THEN r
  ELSE LET shown == log[CHOOSE i \in Matches : \A j \in Matches : i <= j]
       IN [r EXCEPT !.net = shown.net, !.end = shown.end,
                    !.meter = IF shown.meter = 0 THEN @ ELSE shown.meter]

\* The invoice of the capture; then the job goes on, or the terminal tells the
\* backend that the payment was accepted: both queue the invoice again. What the
\* terminal tells may be lost.
RepairsRow(p, ok) ==
  /\ At(p, "repair") /\ (ok \/ p = "terminal")
  /\ Goto(p, IF p = "stopper" THEN "report" ELSE IF ok THEN "done" ELSE "untold")
  /\ Works(ok) /\ Counts(ok)
  /\ row' = Repaired(row)
  /\ invoiceJobs' = IF ok THEN invoiceJobs + 1 ELSE invoiceJobs
  /\ UNCHANGED <<kind, charger, log, amountJobs, remoteStops, stopJobs, revenueJobs,
                 money, held, readings, stops>>

------------------------------------------------------------------------------
(* Invoice and revenue *)

InvoiceReads ==
  /\ At("invoicer", "idle") /\ Goto("invoicer", "repair")
  /\ invoiceJobs > 0 /\ invoiceJobs' = invoiceJobs - 1
  /\ Holds("invoicer", [Nothing EXCEPT !.net = row.net])
  /\ UNCHANGED <<kind, row, charger, log, amountJobs, remoteStops, stopJobs,
                 revenueJobs, money, bounds>>

\* Without its document the customer of a prepaid session is not refunded either.
InvoiceRepairs(ok) ==
  /\ At("invoicer", "repair")
  /\ Goto("invoicer", IF ok /\ kind = "prepaid" THEN "refund" ELSE "report")
  /\ Works(ok) /\ Counts(ok)
  /\ row' = Repaired(row)
  /\ UNCHANGED <<kind, charger, log, queues, money, held, readings, stops>>

\* What was prepaid and not used is paid back, each time the job runs. The first form
\* pays back the penalty.
UnusedAndPenalty(net) == MaxAmount - net + Penalty
Unused(net) == MaxAmount - net

InvoiceEnds(refunds, ok) ==
  /\ At("invoicer", IF refunds THEN "refund" ELSE "report") /\ Goto("invoicer", "idle")
  /\ Works(ok) /\ Counts(ok)
  /\ refunded' = IF refunds /\ ok THEN refunded + Unused(held["invoicer"].net)
                                  ELSE refunded
  /\ revenueJobs' = revenueJobs + 1
  /\ Holds("invoicer", Nothing)
  /\ UNCHANGED <<kind, row, charger, log, amountJobs, remoteStops, stopJobs,
                 invoiceJobs, captured, revenue, readings, stops>>

\* SyncRevenueQueue books the row's amount, not the captured one.
Books(net) == net
SyncRevenue ==
  /\ revenueJobs > 0 /\ revenueJobs' = revenueJobs - 1
  /\ revenue' = IF captured # None THEN Books(row.net) ELSE revenue
  /\ UNCHANGED <<kind, row, charger, log, amountJobs, remoteStops, stopJobs,
                 invoiceJobs, captured, refunded, pc, held, bounds>>

------------------------------------------------------------------------------
Meter == \E m \in Meters : MeterReads(m) \/ MeterWrites(m)
Amount ==
  \/ \E ok \in BOOLEAN : AmountReads(ok) \/ AmountSends(ok)
  \/ AmountWrites
Stop ==
  \/ StopReads \/ StopWrites
  \/ \E ok \in BOOLEAN : StopperReads(ok) \/ StopperSends(ok)
  \/ StopperWrites \/ StopperMarks \/ StopperReports
Payment ==
  \/ TerminalPays
  \/ \E p \in Payers : Captures(p) \/ PaysRow(p)
  \/ \E p \in Payers, ok \in BOOLEAN : RepairsRow(p, ok) \/ Refused(p, ok)
Invoice ==
  \/ InvoiceReads
  \/ \E ok \in BOOLEAN : InvoiceRepairs(ok)
  \/ \E refunds \in BOOLEAN, ok \in BOOLEAN : InvoiceEnds(refunds, ok)

Writes(a) == At(a, "write") /\ pc'[a] # "write"
Repairs(a) == At(a, "repair") /\ pc'[a] # "repair"

NoteHistory ==
  /\ reordered' = (reordered \/ \E m \in Meters : Writes(m) /\ held[m].meter < row.meter)
  /\ recalculated' =
       IF Matches # {} /\ \E a \in Payers \cup {"invoicer"} : Repairs(a) THEN FALSE
       ELSE \/ recalculated
            \/ (captured # None \/ row.paid \/ At("stopper", "call")) /\ \E a \in {"amounts", "stopper"} : Writes(a)

Next ==
  /\ \/ Tick \/ ChargerStops \/ \E ok \in BOOLEAN : RemoteStop(ok)
     \/ Meter \/ Amount \/ Stop \/ Payment \/ Invoice \/ SyncRevenue
  /\ NoteHistory

SafeSpec == Init /\ [][Next]_vars

------------------------------------------------------------------------------
(* Properties *)

\* The variables keep their types; no refund is negative.
Labels == {"idle", "write", "send", "mark", "call", "pay", "repair", "refund",
           "report", "done", "untold"}
Maybe == Nat \cup {None}
Shown == [end : Maybe, meter : Nat, net : Nat]
Figures == [end : Maybe, meter : Nat, good : BOOLEAN, net : Nat, reached : BOOLEAN]
TypeOK ==
  /\ kind \in Kinds
  /\ row \in [end : Maybe, meter : Nat, net : Nat, reached : BOOLEAN, paid : BOOLEAN]
  /\ clock \in Nat /\ stopAt \in Maybe
  /\ reason \in {"none", "Local", "Vehicle", "Remote", "Reached"}
  /\ log \in Seq(Shown)
  /\ amountJobs \in Nat /\ remoteStops \in Nat /\ stopJobs \in Seq(BOOLEAN)
  /\ invoiceJobs \in Nat /\ revenueJobs \in Nat
  /\ captured \in Maybe /\ revenue \in Maybe /\ refunded \in Nat
  /\ pc \in [Actors -> Labels]
  /\ held \in [Actors -> Figures]
  /\ readings \in Nat /\ stops \in Nat /\ failures \in Nat
  /\ reordered \in BOOLEAN /\ recalculated \in BOOLEAN

\* However readings, stops, calculations and captures overlap and fail, the session
\* never costs more than was authorised at the card or prepaid: neither in its row,
\* nor on the terminal, nor at the capture, which only the lower limit can raise.
WithinPreauth ==
  /\ row.net <= MaxAmount
  /\ \A i \in DOMAIN log : log[i].net <= MaxAmount
  /\ captured <= Most(MaxAmount, LowerLimit)

\* All jobs are done, and every event and call was carried out.
Quiet ==
  /\ \A a \in Actors : pc[a] \in {"idle", "done", "untold"}
  /\ stopJobs = <<>>
  /\ {amountJobs, invoiceJobs, revenueJobs} = {0}

\* In the end the revenue is the amount that was captured, although it is read from a
\* row that is calculated at many places: unless the lower limit raised the capture,
\* a calculation of a session that was settled was never repaired, or the message
\* that queues the invoice was lost.
RevenueIsCaptured ==
  Quiet /\ captured # None =>
    \/ revenue = captured
    \/ captured = LowerLimit
    \/ recalculated
    \/ pc["terminal"] = "untold"

\* A session that was stopped because its authorised amount was used up is captured
\* by the job of its stop, for nobody stands at the terminal: unless an older
\* reading had made the amount fall again, or something failed.
ReachedIsCaptured ==
  Quiet /\ reason = "Reached" /\ stops > 0 /\ kind = "card" =>
    captured # None \/ reordered \/ failures > 0

\* In the end a prepaid customer has paid what the session costs and been refunded the
\* rest, once: unless the session was calculated again after it was settled (a
\* repeated stop does, and refunds again) or something failed.
PrepaidAddsUp ==
  Quiet /\ kind = "prepaid" /\ stops > 0 =>
    refunded + row.net = MaxAmount \/ recalculated \/ failures > 0
=============================================================================
