------------------------- MODULE SessionBillProofs -------------------------
(***************************************************************************)
(* The properties of SessionBill, for every tariff, any number of readings *)
(* at once, any number of stops and failures.                              *)
(*                                                                         *)
(* Inv: WithinPreauth is not inductive, as what a worker writes, shows or  *)
(* captures was calculated before.  The figures an actor holds are within  *)
(* the authorised amount too; a refund, the rest of that amount, is a      *)
(* natural number for the same reason.                                     *)
(* RevenueInv adds what was captured, repaired and still has to be booked, *)
(* RefundInv what a prepaid session was refunded before and after its      *)
(* invoice, EndingInv that an amount once used up stays so.                *)
(***************************************************************************)
EXTENDS SessionBill, WellFoundedInduction, TLAPS

Inv ==
  /\ TypeOK
  /\ WithinPreauth
  /\ \A a \in Actors : held[a].net <= MaxAmount

\* A percentage of an amount is no more than the amount.
LEMMA PercentBounds ==
  ASSUME NEW x \in Nat, NEW p \in 0..100
  PROVE  Percent(x, p) \in 0..x
<1>1. x * p \in Nat /\ x * p <= 100 * x
  OBVIOUS
<1> DEFINE y == x * p
<1>2. y \in Nat /\ y <= 100 * x
  BY <1>1
<1> HIDE DEF y
<1>3. y \div 100 \in 0..x
  BY <1>2
<1>4. Percent(x, p) = y \div 100
  BY DEF Percent, y
<1> QED
  BY <1>3, <1>4

\* A session that has ended costs a natural number of cents.
LEMMA PriceIsNat ==
  ASSUME NEW end \in Nat, NEW energy \in Nat
  PROVE  Price(end, energy) \in Nat
<1> USE BillAssumption
<1>1. Overlap(end, PeakFrom, PeakTo) \in Nat
  <2>1. PeakFrom \in Nat /\ PeakTo \in Nat /\ PeakFrom <= PeakTo
    OBVIOUS
  <2> QED
    BY <2>1 DEF Overlap, Least, Most
<1> DEFINE gross == BaseRate * energy + ParkingRate * end
                      + PeakRate * Overlap(end, PeakFrom, PeakTo)
           taxable == gross + Penalty - Percent(gross, Discount)
<1>2. /\ BaseRate \in Nat /\ ParkingRate \in Nat /\ PeakRate \in Nat /\ Penalty \in Nat
      /\ Discount \in 0..100 /\ TaxRate \in Nat
  OBVIOUS
<1>3. gross \in Nat
  <2>1. BaseRate * energy \in Nat /\ ParkingRate * end \in Nat
    BY <1>2
  <2>2. PeakRate * Overlap(end, PeakFrom, PeakTo) \in Nat
    BY <1>1, <1>2
  <2> QED
    BY <2>1, <2>2
<1> HIDE DEF gross
<1>4. taxable \in Nat
  <2>1. Percent(gross, Discount) \in 0..gross
    BY <1>2, <1>3, PercentBounds
  <2> QED
    BY <1>2, <1>3, <2>1
<1> HIDE DEF taxable
<1>5. Percent(taxable, TaxRate) \in Nat
  <2>1. taxable * TaxRate \in Nat
    BY <1>2, <1>4
  <2> QED
    BY <2>1 DEF Percent
<1>6. taxable + Percent(taxable, TaxRate) \in Nat
  BY <1>4, <1>5
<1> QED
  BY <1>6 DEF Price, gross, taxable

\* What a calculation yields, for a row of the right type.
Rows == [end : Maybe, meter : Nat, net : Nat, reached : BOOLEAN, paid : BOOLEAN]

\* What a calculation gives is typed and bounded.
LEMMA BillType ==
  ASSUME NEW r \in Rows, NEW now \in Maybe, NEW works \in BOOLEAN
  PROVE  Bill(r, now, works) \in Figures /\ Bill(r, now, works).net <= MaxAmount
<1> DEFINE end == IF ~r.paid /\ now # None THEN now ELSE r.end
           good == works /\ end # None
           amount == IF good THEN Limited(Price(end, r.meter)) ELSE 0
<1>1. end \in Maybe /\ good \in BOOLEAN
  BY DEF Rows
<1>2. amount \in Nat
  <2>1. CASE good
    <3>1. end \in Nat /\ r.meter \in Nat
      BY <1>1, <2>1 DEF Maybe, Rows
    <3>2. Price(end, r.meter) \in Nat
      BY <3>1, PriceIsNat
    <3> QED
      BY <3>2, <2>1, BillAssumption DEF Limited, Least
  <2>2. CASE ~good
    BY <2>2
  <2> QED
    BY <2>1, <2>2
<1>3. r.meter \in Nat
  BY DEF Rows
<1> HIDE DEF end, good, amount
<1>4. Capped(amount) \in Nat /\ Capped(amount) <= MaxAmount /\ (amount >= MaxAmount) \in BOOLEAN
  BY <1>2, BillAssumption DEF Capped, Least
<1>5. Bill(r, now, works) = [end |-> end, meter |-> r.meter, good |-> good,
                             net |-> Capped(amount), reached |-> amount >= MaxAmount]
  BY DEF Bill, end, good, amount
<1> QED
  BY <1>1, <1>3, <1>4, <1>5 DEF Figures

\* A set of natural numbers that has a member has a smallest one.
LEMMA SmallestExists ==
  ASSUME NEW S, S \subseteq Nat, S # {}
  PROVE  \E i \in S : \A j \in S : i <= j
<1> DEFINE Less == {ss \in Nat \X Nat : ss[1] < ss[2]}
<1>1. IsWellFoundedOn(Less, Nat)
  BY NatLessThanWellFounded DEF OpToRel
<1>2. PICK i \in S : \A j \in S : <<j, i>> \notin Less
  <2> HIDE DEF Less
  <2> QED
    BY <1>1, WFMin
<1>3. \A j \in S : i <= j
  <2> SUFFICES ASSUME NEW j \in S PROVE i <= j
    OBVIOUS
  <2>1. i \in Nat /\ j \in Nat
    OBVIOUS
  <2>2. ASSUME j < i PROVE <<j, i>> \in Less
    BY <2>1, <2>2
  <2> QED
    BY <1>2, <2>1, <2>2
<1> QED
  BY <1>3

\* The invoice repairs a row to figures the terminal was shown.
LEMMA RepairedType ==
  ASSUME Inv, NEW r \in Rows, r.net <= MaxAmount
  PROVE  Repaired(r) \in Rows /\ Repaired(r).net <= MaxAmount
<1>1. CASE Matches = {}
  BY <1>1 DEF Repaired
<1>2. CASE Matches # {}
  <2>1. Matches \subseteq DOMAIN log /\ DOMAIN log \subseteq Nat
    BY DEF Inv, TypeOK, Matches
  <2>2. PICK i \in Matches : \A j \in Matches : i <= j
    BY <1>2, <2>1, SmallestExists
  <2> DEFINE first == CHOOSE k \in Matches : \A j \in Matches : k <= j
             shown == log[first]
  <2>3. first \in Matches
    BY <2>2
  <2>4. shown \in Shown /\ shown.net <= MaxAmount
    BY <2>1, <2>3 DEF Inv, TypeOK, WithinPreauth
  <2> HIDE DEF first, shown
  <2>5. Repaired(r) = [r EXCEPT !.net = shown.net, !.end = shown.end,
                                !.meter = IF shown.meter = 0 THEN @ ELSE shown.meter]
    BY <1>2 DEF Repaired, shown, first
  <2> QED
    BY <2>4, <2>5 DEF Shown, Rows
<1> QED
  BY <1>1, <1>2

\* What the terminal is shown keeps the log's type and bound.
LEMMA ShowsType ==
  ASSUME Inv, NEW a \in Actors, NEW ok \in BOOLEAN, Shows(held[a], ok)
  PROVE  /\ log' \in Seq(Shown) /\ failures' \in Nat
         /\ \A i \in DOMAIN log' : log'[i].net <= MaxAmount
<1>1. held[a] \in Figures /\ held[a].net <= MaxAmount
  BY DEF Inv, TypeOK
<1> DEFINE line == [end |-> held[a].end, meter |-> held[a].meter, net |-> held[a].net]
<1>2. line \in Shown /\ line.net <= MaxAmount
  BY <1>1 DEF Figures, Shown
<1> HIDE DEF line
<1>3. failures' \in Nat
  BY DEF Inv, TypeOK, Shows, Counts
<1>4. log' = log \/ log' = Append(log, line)
  BY DEF Shows, line
<1>5. log \in Seq(Shown) /\ \A i \in DOMAIN log : log[i].net <= MaxAmount
  BY DEF Inv, TypeOK, WithinPreauth
<1> QED
  BY <1>2, <1>3, <1>4, <1>5

------------------------------------------------------------------------------
(* The invariant is inductive *)

USE DEF queues, charger, money, bounds, history, At, Goto, Holds, Works, Counts

\* The actors, and what none of them has calculated yet.
LEMMA Basics ==
  /\ Meters \subseteq Actors /\ Payers \subseteq Actors
  /\ {"amounts", "stop", "stopper", "terminal", "invoicer"} \subseteq Actors
  /\ Nothing \in Figures /\ Nothing.net = 0 /\ Nothing.end = None
  /\ MaxAmount \in Nat /\ LowerLimit \in Nat
  BY BillAssumption DEF Actors, Payers, Nothing, Figures, Maybe, None

\* What an actor holds that has read but a few figures.
Bounded(f) == f \in Figures /\ f.net <= MaxAmount

\* Figures of which only one is known are bounded.
LEMMA NothingBut ==
  /\ \A m \in Nat : Bounded([Nothing EXCEPT !.meter = m])
  /\ \A n \in 0..MaxAmount : Bounded([Nothing EXCEPT !.net = n])
  /\ \A e \in Maybe, b \in BOOLEAN : Bounded([Nothing EXCEPT !.end = e, !.reached = b])
<1>1. Nothing \in [end : Maybe, meter : Nat, good : BOOLEAN, net : Nat, reached : BOOLEAN]
      /\ Nothing.net = 0 /\ MaxAmount \in Nat
  BY Basics DEF Figures
<1>2. ASSUME NEW m \in Nat PROVE Bounded([Nothing EXCEPT !.meter = m])
  BY <1>1 DEF Bounded, Figures
<1>3. ASSUME NEW n \in 0..MaxAmount PROVE Bounded([Nothing EXCEPT !.net = n])
  BY <1>1 DEF Bounded, Figures
<1>4. ASSUME NEW e \in Maybe, NEW b \in BOOLEAN
      PROVE  Bounded([Nothing EXCEPT !.end = e, !.reached = b])
  <2> DEFINE ended == [Nothing EXCEPT !.end = e]
  <2>1. ended \in [end : Maybe, meter : Nat, good : BOOLEAN, net : Nat, reached : BOOLEAN]
        /\ ended.net = 0
    BY <1>1, <1>4
  <2>2. [Nothing EXCEPT !.end = e, !.reached = b] = [ended EXCEPT !.reached = b]
    OBVIOUS
  <2> HIDE DEF ended
  <2>3. Bounded([ended EXCEPT !.reached = b])
    BY <1>1, <1>4, <2>1 DEF Bounded, Figures
  <2> QED
    BY <2>2, <2>3
<1> QED
  BY <1>2, <1>3, <1>4

\* An actor that comes to hold figures of the right type and bound.
LEMMA HoldsType ==
  ASSUME Inv, NEW a \in Actors, NEW f \in Figures, f.net <= MaxAmount, Holds(a, f)
  PROVE  held' \in [Actors -> Figures] /\ \A b \in Actors : held'[b].net <= MaxAmount
BY DEF Inv, TypeOK, Holds

\* An actor that goes to a label.
LEMMA GotoType ==
  ASSUME Inv, NEW a \in Actors, NEW l \in Labels, Goto(a, l)
  PROVE  pc' \in [Actors -> Labels]
BY DEF Inv, TypeOK, Goto

\* The job of a stop that is worked on is in the queue.
Busy == pc["stopper"] = "idle" \/ stopJobs # <<>>

\* No step takes the job away from the worker.
LEMMA BusyKept ==
  ASSUME TypeOK, Busy, [Next]_vars
  PROVE  Busy'
<1> USE Basics DEF Busy
<1>1. pc \in [Actors -> Labels] /\ stopJobs \in Seq(BOOLEAN)
  BY DEF TypeOK
<1>2. \A m \in Meters : m # "stopper"
  BY BillAssumption
<1>3. ASSUME Tick \/ ChargerStops \/ (\E ok \in BOOLEAN : RemoteStop(ok)) \/ SyncRevenue
      PROVE  Busy'
  BY <1>3 DEF Tick, ChargerStops, RemoteStop, SyncRevenue
<1>4. ASSUME Meter PROVE Busy'
  BY <1>1, <1>2, <1>4 DEF Meter, MeterReads, MeterWrites
<1>5. ASSUME Amount PROVE Busy'
  BY <1>1, <1>5 DEF Amount, AmountReads, AmountWrites, AmountSends
<1>6. ASSUME Stop PROVE Busy'
  <2>1. CASE StopReads
    BY <1>1, <2>1 DEF StopReads
  <2>2. CASE StopWrites
    <3>1. stopJobs' # <<>>
      BY <1>1, <2>2 DEF StopWrites
    <3> QED
      BY <3>1
  <2>3. ASSUME NEW ok \in BOOLEAN, StopperReads(ok) PROVE Busy'
    BY <2>3 DEF StopperReads
  <2>4. ASSUME NEW ok \in BOOLEAN, StopperSends(ok) PROVE Busy'
    BY <2>4 DEF StopperSends
  <2>5. CASE StopperWrites \/ StopperMarks
    BY <2>5 DEF StopperWrites, StopperMarks
  <2>6. CASE StopperReports
    BY <1>1, <2>6 DEF StopperReports
  <2> QED
    BY <1>6, <2>1, <2>2, <2>3, <2>4, <2>5, <2>6 DEF Stop
<1>7. ASSUME Payment PROVE Busy'
  <2>1. CASE TerminalPays
    BY <1>1, <2>1 DEF TerminalPays
  <2>2. ASSUME NEW p \in Payers, Captures(p) \/ PaysRow(p) PROVE Busy'
    BY <1>1, <2>2 DEF Captures, PaysRow
  <2>3. ASSUME NEW p \in Payers, NEW ok \in BOOLEAN, RepairsRow(p, ok) \/ Refused(p, ok)
        PROVE  Busy'
    BY <1>1, <2>3 DEF RepairsRow, Refused
  <2> QED
    BY <1>7, <2>1, <2>2, <2>3 DEF Payment
<1>8. ASSUME Invoice PROVE Busy'
  BY <1>1, <1>8 DEF Invoice, InvoiceReads, InvoiceRepairs, InvoiceEnds
<1>9. CASE UNCHANGED vars
  BY <1>9 DEF vars
<1> QED
  BY <1>3, <1>4, <1>5, <1>6, <1>7, <1>8, <1>9 DEF Next

\* The charger's own steps, and its events.
LEMMA ChargerKeeps ==
  ASSUME Inv, reordered' \in BOOLEAN, recalculated' \in BOOLEAN,
         \/ Tick \/ ChargerStops \/ (\E ok \in BOOLEAN : RemoteStop(ok))
         \/ Meter \/ StopReads \/ StopWrites
  PROVE  Inv'
<1> USE Basics DEF Inv, TypeOK, WithinPreauth, Rows
<1>1. CASE Tick
  BY <1>1 DEF Tick
<1>2. CASE ChargerStops
  BY <1>2 DEF ChargerStops, Maybe
<1>3. ASSUME NEW ok \in BOOLEAN, RemoteStop(ok) PROVE Inv'
  BY <1>3 DEF RemoteStop, Maybe
<1>4. ASSUME NEW m \in Meters, MeterReads(m) PROVE Inv'
  <2> DEFINE f == [Nothing EXCEPT !.meter = Energy]
  <2>1. f \in Figures /\ f.net <= MaxAmount
    <3>1. Energy \in Nat
      BY DEF Energy, Maybe
    <3> QED
      BY <3>1, NothingBut DEF Bounded
  <2>2. held' \in [Actors -> Figures] /\ \A b \in Actors : held'[b].net <= MaxAmount
    BY <1>4, <2>1, HoldsType DEF MeterReads
  <2>3. pc' \in [Actors -> Labels]
    BY <1>4, GotoType DEF MeterReads, Labels
  <2> QED
    BY <1>4, <2>2, <2>3 DEF MeterReads
<1>5. ASSUME NEW m \in Meters, MeterWrites(m) PROVE Inv'
  <2>1. held' \in [Actors -> Figures] /\ \A b \in Actors : held'[b].net <= MaxAmount
    BY <1>5, HoldsType DEF MeterWrites
  <2>2. pc' \in [Actors -> Labels]
    BY <1>5, GotoType DEF MeterWrites, Labels
  <2>3. row' \in Rows /\ row'.net <= MaxAmount
    BY <1>5 DEF MeterWrites, Rows, Figures
  <2> QED
    BY <1>5, <2>1, <2>2, <2>3 DEF MeterWrites
<1>6. CASE StopReads
  <2> DEFINE f == [Nothing EXCEPT !.end = row.end, !.reached = row.reached]
  <2>1. f \in Figures /\ f.net <= MaxAmount
    BY NothingBut DEF Bounded
  <2>2. held' \in [Actors -> Figures] /\ \A b \in Actors : held'[b].net <= MaxAmount
    BY <1>6, <2>1, HoldsType DEF StopReads
  <2>3. pc' \in [Actors -> Labels]
    BY <1>6, GotoType DEF StopReads, Labels
  <2> QED
    BY <1>6, <2>2, <2>3 DEF StopReads
<1>7. CASE StopWrites
  <2>1. held' \in [Actors -> Figures] /\ \A b \in Actors : held'[b].net <= MaxAmount
    BY <1>7, HoldsType DEF StopWrites
  <2>2. pc' \in [Actors -> Labels]
    BY <1>7, GotoType DEF StopWrites, Labels
  <2>3. row' \in Rows /\ row'.net <= MaxAmount
    BY <1>7 DEF StopWrites, Rows
  <2>4. stopJobs' \in Seq(BOOLEAN)
    <3>1. MakesPayment(held["stop"].reached) \in BOOLEAN
      BY DEF MakesPayment, Figures
    <3> QED
      BY <1>7, <3>1 DEF StopWrites
  <2> QED
    BY <1>7, <2>1, <2>2, <2>3, <2>4 DEF StopWrites
<1> QED
  BY <1>1, <1>2, <1>3, <1>4, <1>5, <1>6, <1>7 DEF Meter

\* The workers' calculations of the amount, and what they do with it.
LEMMA CalculationKeeps ==
  ASSUME Inv, Busy, reordered' \in BOOLEAN, recalculated' \in BOOLEAN,
         \/ Amount \/ StopperWrites \/ StopperMarks \/ StopperReports
         \/ \E ok \in BOOLEAN : StopperReads(ok) \/ StopperSends(ok)
  PROVE  Inv'
<1> USE Basics DEF Inv, TypeOK, WithinPreauth, Rows
<1>1. ASSUME NEW ok \in BOOLEAN, AmountReads(ok) PROVE Inv'
  <2>1. clock \in Maybe /\ row \in Rows
    BY DEF Maybe
  <2>2. Bill(row, clock, ok) \in Figures /\ Bill(row, clock, ok).net <= MaxAmount
    BY <2>1, BillType
  <2>3. held' \in [Actors -> Figures] /\ \A b \in Actors : held'[b].net <= MaxAmount
    BY <1>1, <2>2, HoldsType DEF AmountReads
  <2>4. pc' \in [Actors -> Labels]
    BY <1>1, GotoType DEF AmountReads, Labels
  <2> QED
    BY <1>1, <2>3, <2>4 DEF AmountReads
<1>2. CASE AmountWrites
  <2>1. row' \in Rows /\ row'.net <= MaxAmount
    BY <1>2 DEF AmountWrites, Charged, Figures
  <2>2. pc' \in [Actors -> Labels]
    BY <1>2, GotoType DEF AmountWrites, Labels
  <2> QED
    BY <1>2, <2>1, <2>2 DEF AmountWrites
<1>3. ASSUME NEW ok \in BOOLEAN, AmountSends(ok) PROVE Inv'
  <2>1. /\ log' \in Seq(Shown) /\ failures' \in Nat
        /\ \A i \in DOMAIN log' : log'[i].net <= MaxAmount
    BY <1>3, ShowsType DEF AmountSends
  <2>2. held' \in [Actors -> Figures] /\ \A b \in Actors : held'[b].net <= MaxAmount
    BY <1>3, HoldsType DEF AmountSends
  <2>3. pc' \in [Actors -> Labels]
    BY <1>3, GotoType DEF AmountSends, Labels
  <2> QED
    BY <1>3, <2>1, <2>2, <2>3 DEF AmountSends
<1>4. ASSUME NEW ok \in BOOLEAN, StopperReads(ok) PROVE Inv'
  <2>1. None \in Maybe /\ row \in Rows
    BY DEF Maybe
  <2>2. Bill(row, None, ok) \in Figures /\ Bill(row, None, ok).net <= MaxAmount
    BY <2>1, BillType
  <2>3. held' \in [Actors -> Figures] /\ \A b \in Actors : held'[b].net <= MaxAmount
    <3>1. CASE UNCHANGED held
      BY <3>1
    <3>2. CASE Holds("stopper", Bill(row, None, ok))
      BY <2>2, <3>2, HoldsType
    <3> QED
      BY <1>4, <3>1, <3>2 DEF StopperReads
  <2>4. pc' \in [Actors -> Labels]
    BY <1>4, GotoType DEF StopperReads, Labels
  <2> QED
    BY <1>4, <2>3, <2>4 DEF StopperReads
<1>5. CASE StopperWrites
  <2>1. row' \in Rows /\ row'.net <= MaxAmount
    BY <1>5 DEF StopperWrites, Charged, Figures
  <2>2. pc' \in [Actors -> Labels]
    BY <1>5, GotoType DEF StopperWrites, Labels
  <2> QED
    BY <1>5, <2>1, <2>2 DEF StopperWrites
<1>6. CASE StopperMarks
  <2>1. row' \in Rows /\ row'.net <= MaxAmount
    BY <1>6 DEF StopperMarks
  <2>2. pc' \in [Actors -> Labels]
    BY <1>6, GotoType DEF StopperMarks, Labels
  <2> QED
    BY <1>6, <2>1, <2>2 DEF StopperMarks
<1>7. ASSUME NEW ok \in BOOLEAN, StopperSends(ok) PROVE Inv'
  <2>1. /\ log' \in Seq(Shown) /\ failures' \in Nat
        /\ \A i \in DOMAIN log' : log'[i].net <= MaxAmount
    BY <1>7, ShowsType DEF StopperSends
  <2>2. pc' \in [Actors -> Labels]
    BY <1>7, GotoType DEF StopperSends, Labels
  <2> QED
    BY <1>7, <2>1, <2>2 DEF StopperSends
<1>8. CASE StopperReports
  <2>1. held' \in [Actors -> Figures] /\ \A b \in Actors : held'[b].net <= MaxAmount
    BY <1>8, HoldsType DEF StopperReports
  <2>2. pc' \in [Actors -> Labels]
    BY <1>8, GotoType DEF StopperReports, Labels
  <2>3. stopJobs' \in Seq(BOOLEAN)
    <3>1. stopJobs \in Seq(BOOLEAN) /\ stopJobs # <<>>
      BY <1>8 DEF StopperReports, Busy
    <3> QED
      BY <1>8, <3>1 DEF StopperReports
  <2> QED
    BY <1>8, <2>1, <2>2, <2>3 DEF StopperReports
<1> QED
  BY <1>1, <1>2, <1>3, <1>4, <1>5, <1>6, <1>7, <1>8 DEF Amount

\* The capture, by the terminal or by the job of the stop.
LEMMA PaymentKeeps ==
  ASSUME Inv, reordered' \in BOOLEAN, recalculated' \in BOOLEAN, Payment
  PROVE  Inv'
<1> USE Basics DEF Inv, TypeOK, WithinPreauth, Rows
<1>1. CASE TerminalPays
  <2> DEFINE shown == log[Len(log)].net
             f == [Nothing EXCEPT !.net = shown]
  <2>1. shown \in Nat /\ shown <= MaxAmount
    <3>1. log # <<>> /\ log \in Seq(Shown)
      BY <1>1 DEF TerminalPays
    <3>2. Len(log) \in DOMAIN log /\ log[Len(log)] \in Shown
      BY <3>1
    <3> QED
      BY <3>2 DEF Shown
  <2> HIDE DEF shown
  <2>2. f \in Figures /\ f.net <= MaxAmount
    <3>1. shown \in 0..MaxAmount
      BY <2>1
    <3> QED
      BY <3>1, NothingBut DEF Bounded
  <2>3. held' \in [Actors -> Figures] /\ \A b \in Actors : held'[b].net <= MaxAmount
    BY <1>1, <2>2, HoldsType DEF TerminalPays, shown
  <2>4. pc' \in [Actors -> Labels]
    BY <1>1, GotoType DEF TerminalPays, Labels
  <2> QED
    BY <1>1, <2>3, <2>4 DEF TerminalPays
<1>2. ASSUME NEW p \in Payers, Captures(p) PROVE Inv'
  <2>1. held[p].net \in Nat /\ held[p].net <= MaxAmount
    BY DEF Figures
  <2>2. UpperLimit \in Nat /\ LowerLimit \in Nat
    BY BillAssumption
  <2>3. captured' \in Maybe /\ captured' <= Most(MaxAmount, LowerLimit)
    BY <1>2, <2>1, <2>2 DEF Captures, Clamped, Most, Maybe
  <2>4. pc' \in [Actors -> Labels]
    BY <1>2, GotoType DEF Captures, Labels
  <2> QED
    BY <1>2, <2>3, <2>4 DEF Captures
<1>3. ASSUME NEW p \in Payers, PaysRow(p) PROVE Inv'
  <2>1. row' \in Rows /\ row'.net <= MaxAmount
    BY <1>3 DEF PaysRow
  <2>2. pc' \in [Actors -> Labels]
    BY <1>3, GotoType DEF PaysRow, Labels
  <2> QED
    BY <1>3, <2>1, <2>2 DEF PaysRow
<1>4. ASSUME NEW p \in Payers, NEW ok \in BOOLEAN, RepairsRow(p, ok) PROVE Inv'
  <2>1. row' \in Rows /\ row'.net <= MaxAmount
    BY <1>4, RepairedType DEF RepairsRow
  <2>2. pc' \in [Actors -> Labels]
    BY <1>4, GotoType DEF RepairsRow, Labels
  <2> QED
    BY <1>4, <2>1, <2>2 DEF RepairsRow
<1>5. ASSUME NEW p \in Payers, NEW ok \in BOOLEAN, Refused(p, ok) PROVE Inv'
  <2>1. pc' \in [Actors -> Labels]
    BY <1>5, GotoType DEF Refused, Labels
  <2> QED
    BY <1>5, <2>1 DEF Refused
<1> QED
  BY <1>1, <1>2, <1>3, <1>4, <1>5 DEF Payment

\* The invoice, the refund and the revenue.
LEMMA InvoiceKeeps ==
  ASSUME Inv, reordered' \in BOOLEAN, recalculated' \in BOOLEAN, Invoice \/ SyncRevenue
  PROVE  Inv'
<1> USE Basics DEF Inv, TypeOK, WithinPreauth, Rows
<1>1. CASE InvoiceReads
  <2> DEFINE f == [Nothing EXCEPT !.net = row.net]
  <2>1. f \in Figures /\ f.net <= MaxAmount
    <3>1. row.net \in 0..MaxAmount
      OBVIOUS
    <3> QED
      BY <3>1, NothingBut DEF Bounded
  <2>2. held' \in [Actors -> Figures] /\ \A b \in Actors : held'[b].net <= MaxAmount
    BY <1>1, <2>1, HoldsType DEF InvoiceReads
  <2>3. pc' \in [Actors -> Labels]
    BY <1>1, GotoType DEF InvoiceReads, Labels
  <2> QED
    BY <1>1, <2>2, <2>3 DEF InvoiceReads
<1>2. ASSUME NEW ok \in BOOLEAN, InvoiceRepairs(ok) PROVE Inv'
  <2>1. row' \in Rows /\ row'.net <= MaxAmount
    BY <1>2, RepairedType DEF InvoiceRepairs
  <2>2. pc' \in [Actors -> Labels]
    BY <1>2, GotoType DEF InvoiceRepairs, Labels
  <2> QED
    BY <1>2, <2>1, <2>2 DEF InvoiceRepairs
<1>3. ASSUME NEW refunds \in BOOLEAN, NEW ok \in BOOLEAN, InvoiceEnds(refunds, ok)
      PROVE  Inv'
  <2>1. held' \in [Actors -> Figures] /\ \A b \in Actors : held'[b].net <= MaxAmount
    BY <1>3, HoldsType DEF InvoiceEnds
  <2>2. pc' \in [Actors -> Labels]
    BY <1>3, GotoType DEF InvoiceEnds, Labels
  <2>3. refunded' \in Nat
    <3>1. held["invoicer"].net \in 0..MaxAmount
      BY DEF Figures
    <3> QED
      BY <1>3, <3>1 DEF InvoiceEnds, Unused
  <2> QED
    BY <1>3, <2>1, <2>2, <2>3 DEF InvoiceEnds
<1>4. CASE SyncRevenue
  BY <1>4 DEF SyncRevenue, Books, Maybe
<1> QED
  BY <1>1, <1>2, <1>3, <1>4 DEF Invoice

\* The invariant holds at the start and every step keeps it.
LEMMA Inductive ==
  (Init => Inv /\ Busy) /\ (Inv /\ Busy /\ [Next]_vars => Inv' /\ Busy')
<1>1. Init => Inv /\ Busy
  <2> SUFFICES ASSUME Init PROVE Inv /\ Busy
    OBVIOUS
  <2>1. captured <= Most(MaxAmount, LowerLimit)
    BY Basics DEF Init, Most, None
  <2>2. pc \in [Actors -> Labels] /\ held \in [Actors -> Figures]
    BY Basics DEF Init, Labels
  <2>3. \A a \in Actors : held[a].net <= MaxAmount /\ pc["stopper"] = "idle"
    BY Basics DEF Init
  <2>4. log \in Seq(Shown) /\ DOMAIN log = {} /\ stopJobs \in Seq(BOOLEAN)
    BY DEF Init
  <2>5. row \in Rows /\ row.net = 0
    BY DEF Init, Rows, Maybe
  <2> QED
    BY <2>1, <2>2, <2>3, <2>4, <2>5, Basics
    DEF Init, Inv, TypeOK, WithinPreauth, Rows, Maybe, Busy
<1>2. Inv /\ Busy /\ [Next]_vars => Inv' /\ Busy'
  <2> SUFFICES ASSUME Inv, Busy, [Next]_vars PROVE Inv'
    BY BusyKept DEF Inv
  <2>1. CASE Next
    <3>1. reordered' \in BOOLEAN /\ recalculated' \in BOOLEAN
      BY <2>1 DEF Next, NoteHistory, Inv, TypeOK
    <3> QED
      BY <2>1, <3>1, ChargerKeeps, CalculationKeeps, PaymentKeeps, InvoiceKeeps
      DEF Next, Stop
  <2>2. CASE UNCHANGED vars
    BY <2>2 DEF vars, Inv, TypeOK, WithinPreauth, Maybe, Shown, Figures, Labels
  <2> QED
    BY <2>1, <2>2
<1> QED
  BY <1>1, <1>2

\* However many readings, stops and failures there are, every amount is a natural
\* number of cents: no calculation, capture or refund is negative.
THEOREM TypeCorrect == SafeSpec => []TypeOK
<1>1. Inv => TypeOK
  BY DEF Inv
<1> QED
  BY <1>1, Inductive, PTL DEF SafeSpec

\* Whatever the tariff and the limits, and however calculations and captures overlap,
\* a session never costs more than was authorised or prepaid.
THEOREM NeverBeyondPreauth == SafeSpec => []WithinPreauth
<1>1. Inv => WithinPreauth
  BY DEF Inv
<1> QED
  BY <1>1, Inductive, PTL DEF SafeSpec

------------------------------------------------------------------------------
(* The revenue of a captured session *)

\* No amount is beyond the upper limit: what is captured is what was calculated, unless
\* the lower limit raises it.
Within(n) == UpperLimit > 0 => n <= UpperLimit
LimitKept ==
  /\ Within(row.net)
  /\ \A i \in DOMAIN log : Within(log[i].net)
  /\ \A a \in Actors : Within(held[a].net)

\* Where the payers and the worker of the invoices are; what is about to be captured was
\* shown, or is the amount of the row.
Paths ==
  /\ pc["invoicer"] \in {"idle", "repair", "refund", "report"}
  /\ pc["terminal"] \in {"idle", "call", "pay", "repair", "done", "untold"}
  /\ pc["stopper"] \in {"idle", "write", "mark", "send", "call", "pay", "repair", "report"}
  /\ pc["terminal"] = "call" => \E i \in DOMAIN log : log[i].net = held["terminal"].net
  /\ pc["stopper"] = "call" /\ captured = None /\ ~recalculated =>
       row.net = held["stopper"].net

\* Between a capture and the repair of the row; a revenue job to come.
Settling == \E p \in Payers : pc[p] \in {"pay", "repair"}
Awaited ==
  \/ revenueJobs > 0 \/ invoiceJobs > 0
  \/ pc["invoicer"] \in {"repair", "refund", "report"} \/ pc["stopper"] = "report"

\* The row has the captured amount, or is to be repaired to it; and then it is booked,
\* or will be.
Booked ==
  captured # None /\ captured # LowerLimit /\ ~recalculated =>
    /\ Matches # {} \/ row.net = captured
    /\ \/ pc["terminal"] = "untold"
       \/ Settling
       \/ row.net = captured /\ (revenue = captured \/ Awaited)

RevenueInv == Inv /\ LimitKept /\ Paths /\ Booked

\* An actor that moves is the only one that does.
LEMMA Moves ==
  ASSUME Inv, NEW a \in Actors, NEW label, Goto(a, label)
  PROVE  pc'[a] = label /\ \A b \in Actors \ {a} : pc'[b] = pc[b]
  BY DEF Inv, TypeOK

\* The workers are none of the handlers of readings.
LEMMA Distinct ==
  Meters \cap {"amounts", "stop", "stopper", "terminal", "invoicer"} = {}
  BY BillAssumption

\* A calculation keeps to the upper limit.
LEMMA BillWithin ==
  ASSUME NEW r \in Rows, NEW now \in Maybe, NEW works \in BOOLEAN
  PROVE  Within(Bill(r, now, works).net)
<1> DEFINE end == IF ~r.paid /\ now # None THEN now ELSE r.end
           price == Price(end, r.meter)
           amount == IF works /\ end # None THEN Limited(price) ELSE 0
<1>1. UpperLimit \in Nat /\ MaxAmount \in Nat
  BY BillAssumption
<1>2. amount \in Nat /\ Within(amount)
  <2>1. CASE works /\ end # None
    <3>1. end \in Nat /\ r.meter \in Nat
      BY <2>1 DEF Maybe, Rows
    <3>2. price \in Nat
      BY <3>1, PriceIsNat
    <3> HIDE DEF price
    <3> QED
      BY <1>1, <2>1, <3>2 DEF Limited, Least, Within
  <2>2. CASE ~(works /\ end # None)
    BY <1>1, <2>2 DEF Within
  <2> QED
    BY <2>1, <2>2
<1>3. Bill(r, now, works).net = Capped(amount)
  BY DEF Bill
<1> HIDE DEF amount
<1> QED
  BY <1>1, <1>2, <1>3 DEF Capped, Least, Within

\* What the repair of a row makes of its fields.
LEMMA RepairedRow ==
  ASSUME Inv
  PROVE  /\ Repaired(row).net = IF Matches = {} THEN row.net ELSE captured
         /\ Repaired(row).paid = row.paid /\ Repaired(row).reached = row.reached
         /\ Matches # {} => captured # None /\ \E i \in DOMAIN log : log[i].net = captured
<1>1. CASE Matches = {}
  BY <1>1 DEF Repaired
<1>2. CASE Matches # {}
  <2>1. Matches \subseteq DOMAIN log /\ DOMAIN log \subseteq Nat
    BY DEF Inv, TypeOK, Matches
  <2>2. PICK i \in Matches : \A j \in Matches : i <= j
    BY <1>2, <2>1, SmallestExists
  <2> DEFINE first == CHOOSE k \in Matches : \A j \in Matches : k <= j
             shown == log[first]
  <2>3. first \in Matches
    BY <2>2
  <2>4. shown.net = captured /\ captured # None /\ \E k \in DOMAIN log : log[k].net = captured
    BY <2>3 DEF Matches
  <2> HIDE DEF first, shown
  <2>5. Repaired(row) = [row EXCEPT !.net = shown.net, !.end = shown.end,
                                    !.meter = IF shown.meter = 0 THEN @ ELSE shown.meter]
    BY <1>2 DEF Repaired, shown, first
  <2>6. row \in Rows
    BY DEF Inv, TypeOK, Rows
  <2> QED
    BY <1>2, <2>4, <2>5, <2>6 DEF Rows
<1> QED
  BY <1>1, <1>2

\* The terminal is shown nothing beyond the upper limit, and what it was shown stays.
LEMMA ShowsWithin ==
  ASSUME Inv, LimitKept, NEW a \in Actors, NEW ok \in BOOLEAN, Shows(held[a], ok)
  PROVE  /\ \A i \in DOMAIN log' : Within(log'[i].net)
         /\ \A i \in DOMAIN log : i \in DOMAIN log' /\ log'[i] = log[i]
<1> DEFINE line == [end |-> held[a].end, meter |-> held[a].meter, net |-> held[a].net]
<1>1. line \in Shown /\ Within(line.net)
  BY DEF Inv, TypeOK, LimitKept, Figures, Shown
<1>2. log' = log \/ log' = Append(log, line)
  BY DEF Shows
<1>3. log \in Seq(Shown) /\ \A i \in DOMAIN log : Within(log[i].net)
  BY DEF Inv, TypeOK, LimitKept
<1> HIDE DEF line
<1> QED
  BY <1>1, <1>2, <1>3

\* An actor comes to hold figures within the limit.
LEMMA HoldsWithin ==
  ASSUME Inv, LimitKept, NEW a \in Actors, NEW f, Within(f.net), Holds(a, f)
  PROVE  \A b \in Actors : Within(held'[b].net)
  BY DEF Inv, TypeOK, LimitKept

\* No step goes beyond the upper limit.
LEMMA LimitStays ==
  ASSUME Inv, LimitKept, [Next]_vars
  PROVE  LimitKept'
<1>1. Within(0)
  BY BillAssumption DEF Within
<1>2. row \in Rows
  BY Basics DEF Inv, TypeOK, Rows
<1> USE Basics
<1>3. CASE UNCHANGED vars
  BY <1>3 DEF vars, LimitKept, Within
<1>4. ASSUME Tick \/ ChargerStops \/ (\E ok \in BOOLEAN : RemoteStop(ok)) \/ SyncRevenue
      PROVE  LimitKept'
  BY <1>4 DEF Tick, ChargerStops, RemoteStop, SyncRevenue, LimitKept, Within
<1>5. ASSUME Meter PROVE LimitKept'
  <2>1. ASSUME NEW m \in Meters, MeterReads(m) PROVE LimitKept'
    <3> DEFINE f == [Nothing EXCEPT !.meter = Energy]
    <3>1. f.net = 0
      BY DEF Nothing
    <3>2. Holds(m, f)
      BY <2>1 DEF MeterReads
    <3> HIDE DEF f
    <3>3. \A b \in Actors : Within(held'[b].net)
      BY <1>1, <3>1, <3>2, HoldsWithin
    <3> QED
      BY <2>1, <3>3 DEF MeterReads, LimitKept, Within
  <2>2. ASSUME NEW m \in Meters, MeterWrites(m) PROVE LimitKept'
    <3>1. \A b \in Actors : Within(held'[b].net)
      BY <1>1, <2>2, HoldsWithin DEF MeterWrites
    <3>2. row'.net = row.net
      BY <1>2, <2>2 DEF MeterWrites, Rows
    <3> QED
      BY <2>2, <3>1, <3>2 DEF MeterWrites, LimitKept, Within
  <2> QED
    BY <1>5, <2>1, <2>2 DEF Meter
<1>6. ASSUME Amount PROVE LimitKept'
  <2>1. ASSUME NEW ok \in BOOLEAN, AmountReads(ok) PROVE LimitKept'
    <3>1. clock \in Maybe
      BY DEF Inv, TypeOK, Maybe
    <3>2. Within(Bill(row, clock, ok).net)
      BY <1>2, <3>1, BillWithin
    <3>3. \A b \in Actors : Within(held'[b].net)
      BY <2>1, <3>2, HoldsWithin DEF AmountReads
    <3> QED
      BY <2>1, <3>3 DEF AmountReads, LimitKept, Within
  <2>2. CASE AmountWrites
    <3>1. row'.net = held["amounts"].net
      BY <1>2, <2>2 DEF AmountWrites, Charged, Rows
    <3> QED
      BY <2>2, <3>1 DEF AmountWrites, LimitKept, Within
  <2>3. ASSUME NEW ok \in BOOLEAN, AmountSends(ok) PROVE LimitKept'
    <3>1. \A i \in DOMAIN log' : Within(log'[i].net)
      BY <2>3, ShowsWithin DEF AmountSends
    <3>2. \A b \in Actors : Within(held'[b].net)
      BY <1>1, <2>3, HoldsWithin DEF AmountSends
    <3> QED
      BY <2>3, <3>1, <3>2 DEF AmountSends, LimitKept, Within
  <2> QED
    BY <1>6, <2>1, <2>2, <2>3 DEF Amount
<1>7. ASSUME Stop PROVE LimitKept'
  <2>1. CASE StopReads
    <3> DEFINE f == [Nothing EXCEPT !.end = row.end, !.reached = row.reached]
    <3>1. f.net = 0
      BY DEF Nothing
    <3>2. Holds("stop", f)
      BY <2>1 DEF StopReads
    <3> HIDE DEF f
    <3>3. \A b \in Actors : Within(held'[b].net)
      BY <1>1, <3>1, <3>2, HoldsWithin
    <3> QED
      BY <2>1, <3>3 DEF StopReads, LimitKept, Within
  <2>2. CASE StopWrites
    <3>1. \A b \in Actors : Within(held'[b].net)
      BY <1>1, <2>2, HoldsWithin DEF StopWrites
    <3>2. row'.net = row.net
      BY <1>2, <2>2 DEF StopWrites, Rows
    <3> QED
      BY <2>2, <3>1, <3>2 DEF StopWrites, LimitKept, Within
  <2>3. ASSUME NEW ok \in BOOLEAN, StopperReads(ok) PROVE LimitKept'
    <3>1. None \in Maybe
      BY DEF Maybe
    <3>2. Within(Bill(row, None, ok).net)
      BY <1>2, <3>1, BillWithin
    <3>3. \A b \in Actors : Within(held'[b].net)
      <4>1. CASE UNCHANGED held
        BY <4>1 DEF LimitKept
      <4>2. CASE Holds("stopper", Bill(row, None, ok))
        BY <3>2, <4>2, HoldsWithin
      <4> QED
        BY <2>3, <4>1, <4>2 DEF StopperReads
    <3> QED
      BY <2>3, <3>3 DEF StopperReads, LimitKept, Within
  <2>4. CASE StopperWrites
    <3>1. row'.net = held["stopper"].net
      BY <1>2, <2>4 DEF StopperWrites, Charged, Rows
    <3> QED
      BY <2>4, <3>1 DEF StopperWrites, LimitKept, Within
  <2>5. CASE StopperMarks
    <3>1. row'.net = row.net
      BY <1>2, <2>5 DEF StopperMarks, Rows
    <3> QED
      BY <2>5, <3>1 DEF StopperMarks, LimitKept, Within
  <2>6. ASSUME NEW ok \in BOOLEAN, StopperSends(ok) PROVE LimitKept'
    <3>1. \A i \in DOMAIN log' : Within(log'[i].net)
      BY <2>6, ShowsWithin DEF StopperSends
    <3> QED
      BY <2>6, <3>1 DEF StopperSends, LimitKept, Within
  <2>7. CASE StopperReports
    <3>1. \A b \in Actors : Within(held'[b].net)
      BY <1>1, <2>7, HoldsWithin DEF StopperReports
    <3> QED
      BY <2>7, <3>1 DEF StopperReports, LimitKept, Within
  <2> QED
    BY <1>7, <2>1, <2>2, <2>3, <2>4, <2>5, <2>6, <2>7 DEF Stop
<1>8. ASSUME Payment PROVE LimitKept'
  <2>1. CASE TerminalPays
    <3> DEFINE f == [Nothing EXCEPT !.net = log[Len(log)].net]
    <3>1. Within(f.net)
      <4>1. Len(log) \in DOMAIN log
        BY <2>1 DEF TerminalPays, Inv, TypeOK
      <4> QED
        BY <4>1 DEF Nothing, LimitKept
    <3>2. Holds("terminal", f)
      BY <2>1 DEF TerminalPays
    <3> HIDE DEF f
    <3>3. \A b \in Actors : Within(held'[b].net)
      BY <3>1, <3>2, HoldsWithin
    <3> QED
      BY <2>1, <3>3 DEF TerminalPays, LimitKept, Within
  <2>2. ASSUME NEW p \in Payers, Captures(p) \/ PaysRow(p) PROVE LimitKept'
    <3>1. row'.net = row.net
      BY <1>2, <2>2 DEF Captures, PaysRow, Rows
    <3> QED
      BY <2>2, <3>1 DEF Captures, PaysRow, LimitKept, Within
  <2>3. ASSUME NEW p \in Payers, NEW ok \in BOOLEAN, RepairsRow(p, ok) PROVE LimitKept'
    <3>1. Within(row'.net)
      BY <2>3, RepairedRow DEF RepairsRow, LimitKept
    <3> QED
      BY <2>3, <3>1 DEF RepairsRow, LimitKept, Within
  <2>4. ASSUME NEW p \in Payers, NEW ok \in BOOLEAN, Refused(p, ok) PROVE LimitKept'
    BY <2>4 DEF Refused, LimitKept, Within
  <2> QED
    BY <1>8, <2>1, <2>2, <2>3, <2>4 DEF Payment
<1>9. ASSUME Invoice PROVE LimitKept'
  <2>1. CASE InvoiceReads
    <3> DEFINE f == [Nothing EXCEPT !.net = row.net]
    <3>1. Within(f.net)
      BY DEF Nothing, LimitKept
    <3>2. Holds("invoicer", f)
      BY <2>1 DEF InvoiceReads
    <3> HIDE DEF f
    <3>3. \A b \in Actors : Within(held'[b].net)
      BY <3>1, <3>2, HoldsWithin
    <3> QED
      BY <2>1, <3>3 DEF InvoiceReads, LimitKept, Within
  <2>2. ASSUME NEW ok \in BOOLEAN, InvoiceRepairs(ok) PROVE LimitKept'
    <3>1. Within(row'.net)
      BY <2>2, RepairedRow DEF InvoiceRepairs, LimitKept
    <3> QED
      BY <2>2, <3>1 DEF InvoiceRepairs, LimitKept, Within
  <2>3. ASSUME NEW refunds \in BOOLEAN, NEW ok \in BOOLEAN, InvoiceEnds(refunds, ok)
        PROVE  LimitKept'
    <3>1. \A b \in Actors : Within(held'[b].net)
      BY <1>1, <2>3, HoldsWithin DEF InvoiceEnds
    <3> QED
      BY <2>3, <3>1 DEF InvoiceEnds, LimitKept, Within
  <2> QED
    BY <1>9, <2>1, <2>2, <2>3 DEF Invoice
<1> QED
  BY <1>3, <1>4, <1>5, <1>6, <1>7, <1>8, <1>9 DEF Next

\* A step after which the amount counts as settled repairs the row, or writes none that
\* was settled before.
LEMMA Noted ==
  ASSUME Inv, NoteHistory, ~recalculated'
  PROVE  \/ /\ Matches # {}
            /\ \E a \in Payers \cup {"invoicer"} : pc[a] = "repair" /\ pc'[a] # "repair"
         \/ /\ ~recalculated
            /\ captured # None \/ row.paid \/ pc["stopper"] = "call" =>
                 \A a \in {"amounts", "stopper"} : pc[a] = "write" => pc'[a] = "write"
  BY DEF NoteHistory, Repairs, Writes

\* What others do leaves the payers and the worker of the invoices where they are,
LEMMA PathsStay ==
  ASSUME Inv, Paths, NoteHistory, captured' = captured, row'.net = row.net,
         \A i \in DOMAIN log : i \in DOMAIN log' /\ log'[i] = log[i],
         \A a \in Payers \cup {"invoicer"} : pc'[a] = pc[a] /\ held'[a] = held[a]
  PROVE  Paths'
<1>1. ~recalculated' => ~recalculated
  BY Noted
<1>2. pc'["invoicer"] = pc["invoicer"] /\ pc'["terminal"] = pc["terminal"]
      /\ pc'["stopper"] = pc["stopper"]
      /\ held'["terminal"] = held["terminal"] /\ held'["stopper"] = held["stopper"]
  BY DEF Payers
<1> QED
  BY <1>1, <1>2 DEF Paths

\* and the row as good as it was.
LEMMA BookedStays ==
  ASSUME Inv, Booked, NoteHistory, captured' = captured, row'.net = row.net,
         revenue' \in {revenue, captured},
         \A i \in DOMAIN log : i \in DOMAIN log' /\ log'[i] = log[i],
         \A a \in Payers \cup {"invoicer"} : pc[a] = "repair" => pc'[a] = "repair",
         pc["terminal"] = "untold" => pc'["terminal"] = "untold",
         Settling => Settling',
         Awaited => Awaited' \/ revenue' = captured
  PROVE  Booked'
<1>1. ~recalculated' => ~recalculated
  BY Noted
<1>2. Matches # {} => Matches' # {}
  BY DEF Matches
<1> QED
  BY <1>1, <1>2 DEF Booked

\* The charger, its readings and its stops touch neither; SyncRevenue books the row.
LEMMA ChargerBooks ==
  ASSUME RevenueInv, NoteHistory,
         \/ Tick \/ ChargerStops \/ (\E ok \in BOOLEAN : RemoteStop(ok))
         \/ Meter \/ StopReads \/ StopWrites \/ SyncRevenue
  PROVE  Paths' /\ Booked'
<1> USE Basics DEF RevenueInv
<1>1. row \in Rows
  BY DEF Inv, TypeOK, Rows
<1>2. captured' = captured /\ log' = log /\ row'.net = row.net
  BY <1>1 DEF Tick, ChargerStops, RemoteStop, Meter, MeterReads, MeterWrites, StopReads,
    StopWrites, SyncRevenue, Rows
<1>3. \A a \in Payers \cup {"invoicer"} : pc'[a] = pc[a] /\ held'[a] = held[a]
  <2>1. \A m \in Meters : m \notin Payers \cup {"invoicer"}
    BY Distinct DEF Payers
  <2>2. \A a \in Payers \cup {"invoicer"} : a # "stop"
    BY DEF Payers
  <2> QED
    BY <2>1, <2>2 DEF Tick, ChargerStops, RemoteStop, Meter, MeterReads, MeterWrites, StopReads,
      StopWrites, SyncRevenue, Inv, TypeOK
<1>4. Paths'
  BY <1>2, <1>3, PathsStay
<1>5. Settling => Settling'
  BY <1>3 DEF Settling
<1>6. pc'["terminal"] = pc["terminal"] /\ pc'["stopper"] = pc["stopper"]
      /\ pc'["invoicer"] = pc["invoicer"]
  BY <1>3 DEF Payers
<1>7. CASE SyncRevenue
  <2>1. CASE captured = None
    BY <1>2, <1>4, <2>1 DEF Booked
  <2>2. CASE captured # None /\ row.net # captured
    <3>1. ~recalculated' => ~recalculated
      BY <1>3, Noted
    <3>2. Matches' = Matches
      BY <1>2 DEF Matches
    <3> QED
      BY <1>2, <1>4, <1>5, <1>6, <2>2, <3>1, <3>2 DEF Booked
  <2>3. CASE captured # None /\ row.net = captured
    <3>1. revenue' = captured
      BY <1>7, <2>3 DEF SyncRevenue, Books
    <3> QED
      BY <1>2, <1>3, <1>4, <1>5, <1>6, <3>1, BookedStays
  <2> QED
    BY <2>1, <2>2, <2>3
<1>8. CASE ~SyncRevenue
  <2>1. revenue' = revenue /\ invoiceJobs' = invoiceJobs /\ revenueJobs' = revenueJobs
    BY <1>8 DEF Tick, ChargerStops, RemoteStop, Meter, MeterReads, MeterWrites, StopReads,
      StopWrites
  <2>2. Awaited => Awaited'
    BY <1>6, <2>1 DEF Awaited
  <2> QED
    BY <1>2, <1>3, <1>4, <1>5, <1>6, <2>1, <2>2, BookedStays
<1> QED
  BY <1>4, <1>7, <1>8

\* A running amount that is written over a settled one is noted.
LEMMA AmountBooks ==
  ASSUME RevenueInv, NoteHistory, Amount
  PROVE  Paths' /\ Booked'
<1> USE Basics DEF RevenueInv
<1>1. captured' = captured /\ revenue' = revenue /\ invoiceJobs' = invoiceJobs
      /\ revenueJobs' = revenueJobs
  BY DEF Amount, AmountReads, AmountWrites, AmountSends
<1>2. \A a \in Payers \cup {"invoicer"} : pc'[a] = pc[a] /\ held'[a] = held[a]
  <2>1. \A a \in Payers \cup {"invoicer"} : a # "amounts"
    BY DEF Payers
  <2> QED
    BY <2>1 DEF Amount, AmountReads, AmountWrites, AmountSends, Inv, TypeOK
<1>3. pc'["terminal"] = pc["terminal"] /\ pc'["stopper"] = pc["stopper"]
      /\ pc'["invoicer"] = pc["invoicer"] /\ held'["terminal"] = held["terminal"]
  BY <1>2 DEF Payers
<1>4. (Settling => Settling') /\ (Awaited => Awaited')
  BY <1>1, <1>2, <1>3 DEF Settling, Awaited
<1>5. CASE AmountWrites
  <2>1. log' = log /\ pc["amounts"] = "write" /\ pc'["amounts"] = "send"
    BY <1>5, Moves DEF AmountWrites
  <2>2. ~recalculated' => captured = None /\ pc["stopper"] # "call"
    BY <1>2, <2>1, Noted
  <2> QED
    BY <1>1, <1>3, <2>1, <2>2 DEF Paths, Booked
<1>6. ASSUME NEW ok \in BOOLEAN, AmountReads(ok) \/ AmountSends(ok) PROVE Paths' /\ Booked'
  <2>1. row' = row
    BY <1>6 DEF AmountReads, AmountSends
  <2>2. \A i \in DOMAIN log : i \in DOMAIN log' /\ log'[i] = log[i]
    BY <1>6, ShowsWithin DEF AmountReads, AmountSends
  <2>3. Paths'
    BY <1>1, <1>2, <2>1, <2>2, PathsStay
  <2> QED
    BY <1>1, <1>2, <1>3, <1>4, <2>1, <2>2, <2>3, BookedStays
<1> QED
  BY <1>5, <1>6 DEF Amount

\* The job of the stop writes the amount it will capture.
LEMMA StopperBooks ==
  ASSUME RevenueInv, NoteHistory,
         \/ StopperWrites \/ StopperMarks \/ StopperReports
         \/ \E ok \in BOOLEAN : StopperReads(ok) \/ StopperSends(ok)
  PROVE  Paths' /\ Booked'
<1> USE Basics DEF RevenueInv
<1>1. captured' = captured /\ revenue' = revenue /\ row \in Rows
  BY DEF StopperWrites, StopperMarks, StopperReports, StopperReads, StopperSends, Inv, TypeOK, Rows
<1>2. /\ pc'["terminal"] = pc["terminal"] /\ pc'["invoicer"] = pc["invoicer"]
      /\ held'["terminal"] = held["terminal"]
  BY DEF StopperWrites, StopperMarks, StopperReports, StopperReads, StopperSends, Inv, TypeOK
<1>3. pc["stopper"] \in {"idle", "write", "mark", "send", "report"}
  BY DEF StopperWrites, StopperMarks, StopperReports, StopperReads, StopperSends
<1>4. Settling => Settling'
  BY <1>2, <1>3 DEF Settling, Payers
<1>5. \A a \in Payers \cup {"invoicer"} : pc[a] = "repair" => pc'[a] = "repair"
  BY <1>2, <1>3 DEF Payers
<1>6. CASE StopperWrites
  <2>1. pc["stopper"] = "write" /\ pc'["stopper"] \in {"mark", "call", "send"}
    BY <1>6, Moves DEF StopperWrites
  <2>2. ~recalculated' => captured = None
    BY <1>5, <2>1, Noted
  <2>3. row'.net = held["stopper"].net /\ held' = held /\ log' = log
    BY <1>1, <1>6 DEF StopperWrites, Charged, Rows
  <2> QED
    BY <1>1, <1>2, <2>1, <2>2, <2>3 DEF Paths, Booked
<1>7. CASE StopperMarks \/ StopperReports
  <2>1. log' = log /\ row'.net = row.net /\ pc'["stopper"] \in {"send", "idle"}
    BY <1>1, <1>7, Moves DEF StopperMarks, StopperReports, Rows
  <2>2. Paths'
    BY <1>2, <2>1 DEF Paths
  <2>3. Awaited => Awaited'
    BY <1>2, <1>7, <2>1 DEF StopperMarks, StopperReports, Awaited, Inv, TypeOK
  <2> QED
    BY <1>1, <1>2, <1>4, <1>5, <2>1, <2>2, <2>3, BookedStays
<1>8. ASSUME NEW ok \in BOOLEAN, StopperReads(ok) \/ StopperSends(ok) PROVE Paths' /\ Booked'
  <2>1. \A i \in DOMAIN log : i \in DOMAIN log' /\ log'[i] = log[i]
    BY <1>8, ShowsWithin DEF StopperReads, StopperSends
  <2>2. row' = row /\ pc'["stopper"] \in {"write", "report"}
    BY <1>8, Moves DEF StopperReads, StopperSends
  <2>3. Paths'
    BY <1>2, <2>1, <2>2 DEF Paths
  <2>4. Awaited => Awaited'
    BY <1>2, <1>8, <2>2 DEF StopperReads, StopperSends, Awaited, Inv, TypeOK
  <2> QED
    BY <1>1, <1>2, <1>4, <1>5, <2>1, <2>2, <2>3, <2>4, BookedStays
<1> QED
  BY <1>6, <1>7, <1>8

\* A capture is of an amount that was shown or is the row's, and its row is repaired.
LEMMA PaymentBooks ==
  ASSUME RevenueInv, NoteHistory, Payment
  PROVE  Paths' /\ Booked'
<1> USE Basics DEF RevenueInv
<1>1. row \in Rows /\ pc'["invoicer"] = pc["invoicer"]
  <2>1. \A p \in Payers : p # "invoicer"
    BY DEF Payers
  <2> QED
    BY <2>1, Moves DEF Payment, TerminalPays, Captures, PaysRow, RepairsRow, Refused, Inv, TypeOK, Rows
<1>2. Payers = {"terminal", "stopper"}
  BY DEF Payers
<1>3. CASE TerminalPays
  <2>1. /\ pc["terminal"] = "idle" /\ pc'["terminal"] = "call"
        /\ pc'["stopper"] = pc["stopper"] /\ held'["stopper"] = held["stopper"]
        /\ UNCHANGED <<captured, row, revenue, log, invoiceJobs, revenueJobs>>
    BY <1>3, Moves DEF TerminalPays, Inv, TypeOK
  <2>2. \A a \in Payers \cup {"invoicer"} : pc[a] = "repair" => pc'[a] = "repair"
    BY <1>1, <1>2, <2>1
  <2>3. ~recalculated' => ~recalculated
    BY <2>2, Noted
  <2>4. \E i \in DOMAIN log : log[i].net = held'["terminal"].net
    <3>1. Len(log) \in DOMAIN log
      BY <1>3 DEF TerminalPays, Inv, TypeOK
    <3>2. held'["terminal"].net = log[Len(log)].net
      BY <1>3 DEF TerminalPays, Inv, TypeOK, Nothing
    <3> QED
      BY <3>1, <3>2
  <2>5. Paths'
    BY <1>1, <2>1, <2>3, <2>4 DEF Paths
  <2>6. (Settling => Settling') /\ (Awaited => Awaited')
    BY <1>1, <1>2, <2>1 DEF Settling, Awaited
  <2> QED
    BY <2>1, <2>2, <2>5, <2>6, BookedStays
<1>4. ASSUME NEW p \in Payers, Captures(p) PROVE Paths' /\ Booked'
  <2>1. /\ pc[p] = "call" /\ pc'[p] = "pay" /\ captured = None
        /\ \A b \in Actors \ {p} : pc'[b] = pc[b]
        /\ UNCHANGED <<row, held, log>>
    BY <1>4, Moves DEF Captures
  <2>2. captured' \in {held[p].net, LowerLimit} /\ held[p].net # None
    <3>1. held[p].net \in Nat /\ Within(held[p].net)
      BY DEF LimitKept, Inv, TypeOK, Figures
    <3>2. UpperLimit \in Nat /\ LowerLimit \in Nat
      BY BillAssumption
    <3> QED
      BY <1>4, <3>1, <3>2 DEF Captures, Clamped, Within, None
  <2>3. \A a \in Payers \cup {"invoicer"} : pc[a] = "repair" => pc'[a] = "repair"
    BY <1>1, <2>1
  <2>4. ~recalculated' => ~recalculated
    BY <2>3, Noted
  <2>5. captured' # LowerLimit /\ ~recalculated' => Matches' # {} \/ row'.net = captured'
    <3> SUFFICES ASSUME captured' # LowerLimit, ~recalculated'
                 PROVE  Matches' # {} \/ row'.net = captured'
      OBVIOUS
    <3>1. captured' = held[p].net
      BY <2>2
    <3>2. CASE p = "terminal"
      BY <2>1, <2>2, <3>1, <3>2 DEF Paths, Matches
    <3>3. CASE p = "stopper"
      BY <2>1, <2>4, <3>1, <3>3 DEF Paths
    <3> QED
      BY <1>2, <3>2, <3>3
  <2>6. Settling'
    BY <2>1 DEF Settling
  <2>7. captured' # None
    BY <2>2 DEF None, Inv, TypeOK
  <2>8. Paths'
    BY <1>1, <1>2, <2>1, <2>7 DEF Paths
  <2> QED
    BY <2>5, <2>6, <2>8 DEF Booked
<1>5. ASSUME NEW p \in Payers, PaysRow(p) PROVE Paths' /\ Booked'
  <2>1. /\ pc[p] = "pay" /\ pc'[p] = "repair" /\ \A b \in Actors \ {p} : pc'[b] = pc[b]
        /\ row'.net = row.net
        /\ UNCHANGED <<captured, revenue, log, held, invoiceJobs, revenueJobs>>
    BY <1>1, <1>5, Moves DEF PaysRow, Rows
  <2>2. \A a \in Payers \cup {"invoicer"} : pc[a] = "repair" => pc'[a] = "repair"
    BY <1>1, <2>1
  <2>3. ~recalculated' => ~recalculated
    BY <2>2, Noted
  <2>4. Paths'
    BY <1>1, <1>2, <2>1, <2>3 DEF Paths
  <2>5. (Settling => Settling') /\ (Awaited => Awaited')
    BY <1>1, <1>2, <2>1 DEF Settling, Awaited
  <2>6. pc["terminal"] = "untold" => pc'["terminal"] = "untold"
    BY <2>1
  <2> QED
    BY <2>1, <2>2, <2>4, <2>5, <2>6, BookedStays
<1>6. ASSUME NEW p \in Payers, NEW ok \in BOOLEAN, RepairsRow(p, ok) PROVE Paths' /\ Booked'
  <2>1. /\ pc[p] = "repair" /\ \A b \in Actors \ {p} : pc'[b] = pc[b]
        /\ pc'[p] = IF p = "stopper" THEN "report" ELSE IF ok THEN "done" ELSE "untold"
        /\ row' = Repaired(row) /\ (p = "stopper" => ok)
        /\ UNCHANGED <<captured, revenue, log, held, revenueJobs>>
        /\ invoiceJobs' = IF ok THEN invoiceJobs + 1 ELSE invoiceJobs
    BY <1>6, <1>2, Moves DEF RepairsRow
  <2>2. Paths'
    <3>1. CASE p = "terminal"
      <4>1. pc["stopper"] = "call" /\ captured = None => row'.net = row.net
        BY <2>1, RepairedRow
      <4>2. Matches # {} => captured # None
        BY RepairedRow
      <4>3. captured = None /\ ~recalculated' => ~recalculated
        BY <4>2, Noted
      <4> QED
        BY <1>1, <2>1, <3>1, <4>1, <4>3 DEF Paths
    <3>2. CASE p = "stopper"
      BY <1>1, <2>1, <3>2 DEF Paths
    <3> QED
      BY <1>2, <3>1, <3>2
  <2>3. Booked'
    <3> SUFFICES ASSUME captured # None, captured # LowerLimit, ~recalculated'
                 PROVE  /\ row'.net = captured
                        /\ pc'["terminal"] = "untold" \/ Awaited'
      BY <2>1 DEF Booked
    <3>1. row'.net = captured
      <4>1. Matches # {} \/ ~recalculated
        BY Noted
      <4> QED
        BY <2>1, <4>1, RepairedRow DEF Booked
    <3>2. pc'["terminal"] = "untold" \/ Awaited'
      BY <1>2, <2>1 DEF Awaited, Inv, TypeOK
    <3> QED
      BY <3>1, <3>2
  <2> QED
    BY <2>2, <2>3
<1>7. ASSUME NEW p \in Payers, NEW ok \in BOOLEAN, Refused(p, ok) PROVE Paths' /\ Booked'
  <2>1. /\ pc[p] = "call" /\ \A b \in Actors \ {p} : pc'[b] = pc[b]
        /\ pc'[p] = IF p = "stopper" THEN "report" ELSE "done"
        /\ UNCHANGED <<captured, row, revenue, log, held, invoiceJobs, revenueJobs>>
    BY <1>7, Moves DEF Refused
  <2>2. \A a \in Payers \cup {"invoicer"} : pc[a] = "repair" => pc'[a] = "repair"
    BY <1>1, <2>1
  <2>3. ~recalculated' => ~recalculated
    BY <2>2, Noted
  <2>4. Paths'
    BY <1>1, <1>2, <2>1, <2>3 DEF Paths
  <2>5. (Settling => Settling') /\ (Awaited => Awaited')
    BY <1>1, <1>2, <2>1 DEF Settling, Awaited
  <2>6. pc["terminal"] = "untold" => pc'["terminal"] = "untold"
    BY <2>1
  <2> QED
    BY <2>1, <2>2, <2>4, <2>5, <2>6, BookedStays
<1> QED
  BY <1>3, <1>4, <1>5, <1>6, <1>7 DEF Payment

\* The invoice repairs the row too, and queues the revenue again.
LEMMA InvoiceBooks ==
  ASSUME RevenueInv, NoteHistory, Invoice
  PROVE  Paths' /\ Booked'
<1> USE Basics DEF RevenueInv
<1>1. /\ row \in Rows /\ captured' = captured /\ revenue' = revenue /\ log' = log
      /\ pc'["terminal"] = pc["terminal"] /\ pc'["stopper"] = pc["stopper"]
      /\ held'["terminal"] = held["terminal"] /\ held'["stopper"] = held["stopper"]
  BY DEF Invoice, InvoiceReads, InvoiceRepairs, InvoiceEnds, Inv, TypeOK, Rows
<1>2. Settling => Settling'
  BY <1>1 DEF Settling, Payers
<1>3. CASE InvoiceReads \/ \E refunds \in BOOLEAN, ok \in BOOLEAN : InvoiceEnds(refunds, ok)
  <2>1. pc["invoicer"] # "repair" /\ pc'["invoicer"] \in {"idle", "repair"} /\ row' = row
    BY <1>3, Moves DEF InvoiceReads, InvoiceEnds
  <2>2. \A a \in Payers \cup {"invoicer"} : pc[a] = "repair" => pc'[a] = "repair"
    BY <1>1, <2>1 DEF Payers
  <2>3. ~recalculated' => ~recalculated
    BY <2>2, Noted
  <2>4. Paths'
    BY <1>1, <2>1, <2>3 DEF Paths
  <2>5. Awaited'
    <3>1. CASE InvoiceReads
      BY <3>1, Moves DEF InvoiceReads, Awaited
    <3>2. ASSUME NEW refunds \in BOOLEAN, NEW ok \in BOOLEAN, InvoiceEnds(refunds, ok)
          PROVE  Awaited'
      BY <3>2 DEF InvoiceEnds, Awaited, Inv, TypeOK
    <3> QED
      BY <1>3, <3>1, <3>2
  <2> QED
    BY <1>1, <1>2, <2>1, <2>2, <2>4, <2>5, BookedStays
<1>4. ASSUME NEW ok \in BOOLEAN, InvoiceRepairs(ok) PROVE Paths' /\ Booked'
  <2>1. row' = Repaired(row) /\ pc'["invoicer"] \in {"refund", "report"}
    BY <1>4, Moves DEF InvoiceRepairs
  <2>2. Paths'
    <3>1. pc["stopper"] = "call" /\ captured = None => row'.net = row.net
      BY <2>1, RepairedRow
    <3>2. Matches # {} => captured # None
      BY RepairedRow
    <3>3. captured = None /\ ~recalculated' => ~recalculated
      BY <3>2, Noted
    <3> QED
      BY <1>1, <2>1, <3>1, <3>3 DEF Paths
  <2>3. Booked'
    <3> SUFFICES ASSUME captured # None, captured # LowerLimit, ~recalculated'
                 PROVE  row'.net = captured /\ Awaited'
      BY <1>1 DEF Booked
    <3>1. Matches # {} \/ ~recalculated
      BY Noted
    <3> QED
      BY <2>1, <3>1, RepairedRow DEF Booked, Awaited
  <2> QED
    BY <2>2, <2>3
<1> QED
  BY <1>3, <1>4 DEF Invoice

\* The invariant of the revenue.
LEMMA RevenueInductive ==
  /\ Init => RevenueInv /\ Busy
  /\ RevenueInv /\ Busy /\ [Next]_vars => RevenueInv' /\ Busy'
<1>1. Init => RevenueInv /\ Busy
  <2> SUFFICES ASSUME Init PROVE LimitKept /\ Paths /\ Booked
    BY Inductive DEF RevenueInv
  <2>1. LimitKept
    BY Basics, BillAssumption DEF Init, LimitKept, Within
  <2> QED
    BY <2>1, Basics DEF Init, Paths, Booked
<1>2. RevenueInv /\ Busy /\ [Next]_vars => RevenueInv' /\ Busy'
  <2> SUFFICES ASSUME RevenueInv, Busy, [Next]_vars PROVE Paths' /\ Booked'
    BY Inductive, LimitStays DEF RevenueInv
  <2>1. CASE Next
    BY <2>1, ChargerBooks, AmountBooks, StopperBooks, PaymentBooks, InvoiceBooks DEF Next, Stop
  <2>2. CASE UNCHANGED vars
    BY <2>2 DEF vars, RevenueInv, Paths, Booked, Matches, Settling, Awaited
  <2> QED
    BY <2>1, <2>2
<1> QED
  BY <1>1, <1>2

\* In the end the revenue is what was captured, whatever calculations, captures,
\* repairs and bookings overlapped, but for the lower limit, a calculation after the
\* settlement that nothing repaired, and a message of the terminal that was lost.
THEOREM RevenueIsBooked == SafeSpec => []RevenueIsCaptured
<1>1. RevenueInv => RevenueIsCaptured
  <2> SUFFICES ASSUME RevenueInv, Quiet, captured # None, captured # LowerLimit, ~recalculated,
                      pc["terminal"] # "untold"
               PROVE  revenue = captured
    BY DEF RevenueIsCaptured
  <2>1. \A a \in {"terminal", "stopper", "invoicer"} : pc[a] \in {"idle", "done", "untold"}
    BY Basics DEF Quiet
  <2>2. revenueJobs = 0 /\ invoiceJobs = 0
    BY DEF Quiet
  <2>3. ~Settling /\ ~Awaited
    BY <2>1, <2>2 DEF Settling, Awaited, Payers
  <2> QED
    BY <2>3 DEF RevenueInv, Booked
<1> QED
  BY <1>1, RevenueInductive, PTL DEF SafeSpec

------------------------------------------------------------------------------
(* The refund of a prepaid session *)

\* A prepaid session is never captured, a session of a card is paid by its capture.
Started ==
  /\ kind = "prepaid" =>
       /\ captured = None /\ pc["terminal"] = "idle"
       /\ pc["stopper"] \in {"idle", "write", "mark", "send", "report"}
  /\ kind = "card" => pc["stopper"] # "mark"
  /\ captured = None => ~Settling
  /\ kind = "card" /\ captured = None => ~row.paid

\* Until it is paid nothing is refunded, and a stop that was reported is worked on.
Unpaid ==
  /\ refunded = 0 /\ invoiceJobs = 0 /\ pc["invoicer"] = "idle"
  /\ pc["stopper"] \in {"idle", "write", "mark"}
  /\ stops > 0 => pc["stop"] = "write" \/ stopJobs # <<>>

\* Then its invoice is to be queued, is queued, is made, or has refunded the rest.
PaidUp ==
  /\ pc["stopper"] # "mark"
  /\ \/ /\ pc["stopper"] = "send"
        /\ invoiceJobs = 0 /\ pc["invoicer"] = "idle" /\ refunded = 0
     \/ /\ pc["stopper"] # "send"
        /\ \/ invoiceJobs = 1 /\ pc["invoicer"] = "idle" /\ refunded = 0
           \/ /\ invoiceJobs = 0 /\ pc["invoicer"] \in {"repair", "refund"} /\ refunded = 0
              /\ held["invoicer"].net = row.net
           \/ invoiceJobs = 0 /\ pc["invoicer"] = "idle" /\ refunded + row.net = MaxAmount

Refunding ==
  kind = "prepaid" /\ failures = 0 /\ ~recalculated => IF row.paid THEN PaidUp ELSE Unpaid

RefundInv == RevenueInv /\ Busy /\ Started /\ Refunding

\* How the session was started stays; a captured amount stays captured; who captures
\* is at work on a session of a card.
LEMMA StartedStays ==
  ASSUME RevenueInv, Started, [Next]_vars
  PROVE  kind' = kind /\ Started'
<1> USE Basics, Distinct DEF RevenueInv
<1>1. row \in Rows /\ kind \in {"card", "prepaid"} /\ Payers = {"terminal", "stopper"}
  BY BillAssumption DEF Inv, TypeOK, Rows, Payers
<1>2. CASE UNCHANGED vars
  BY <1>2 DEF vars, Started, Settling
<1>3. ASSUME \/ Tick \/ ChargerStops \/ (\E ok \in BOOLEAN : RemoteStop(ok)) \/ SyncRevenue
             \/ Meter \/ StopReads \/ StopWrites \/ Amount \/ Invoice
      PROVE  kind' = kind /\ Started'
  <2>1. kind' = kind /\ captured' = captured
    BY <1>3 DEF Tick, ChargerStops, RemoteStop, SyncRevenue, Meter, MeterReads, MeterWrites,
      StopReads, StopWrites, Amount, AmountReads, AmountWrites, AmountSends, Invoice,
      InvoiceReads, InvoiceRepairs, InvoiceEnds
  <2>2. row'.paid = row.paid
    BY <1>1, <1>3, RepairedRow DEF Tick, ChargerStops, RemoteStop, SyncRevenue, Meter,
      MeterReads, MeterWrites, StopReads, StopWrites, Amount, AmountReads, AmountWrites,
      AmountSends, Charged, Invoice, InvoiceReads, InvoiceRepairs, InvoiceEnds, Rows
  <2>3. pc'["terminal"] = pc["terminal"] /\ pc'["stopper"] = pc["stopper"]
    BY <1>3 DEF Tick, ChargerStops, RemoteStop, SyncRevenue, Meter, MeterReads, MeterWrites,
      StopReads, StopWrites, Amount, AmountReads, AmountWrites, AmountSends, Invoice,
      InvoiceReads, InvoiceRepairs, InvoiceEnds, Inv, TypeOK
  <2> QED
    BY <1>1, <2>1, <2>2, <2>3 DEF Started, Settling
<1>4. ASSUME \/ StopperWrites \/ StopperMarks \/ StopperReports
             \/ \E ok \in BOOLEAN : StopperReads(ok) \/ StopperSends(ok)
      PROVE  kind' = kind /\ Started'
  <2>1. kind' = kind /\ captured' = captured /\ pc'["terminal"] = pc["terminal"]
    BY <1>4 DEF StopperWrites, StopperMarks, StopperReports, StopperReads, StopperSends, Inv, TypeOK
  <2>2. CASE StopperWrites
    <3>1. row'.paid = row.paid
      BY <1>1, <2>2 DEF StopperWrites, Charged, Rows
    <3>2. /\ pc'["stopper"] \in {"mark", "call", "send"}
          /\ kind = "prepaid" => pc'["stopper"] = "mark"
          /\ kind = "card" => pc'["stopper"] # "mark"
      <4>1. pc'["stopper"] = CASE kind = "prepaid" -> "mark"
                               [] kind = "card" /\ Head(stopJobs) -> "call"
                               [] OTHER -> "send"
        BY <2>2, Moves DEF StopperWrites
      <4>2. CASE kind = "prepaid"
        BY <4>1, <4>2
      <4>3. CASE kind = "card"
        BY <4>1, <4>3
      <4> QED
        BY <1>1, <4>2, <4>3
    <3> QED
      BY <1>1, <2>1, <3>1, <3>2 DEF Started, Settling
  <2>3. CASE StopperMarks
    <3>1. pc["stopper"] = "mark" /\ pc'["stopper"] = "send"
      BY <2>3, Moves DEF StopperMarks
    <3> QED
      BY <1>1, <2>1, <3>1 DEF Started, Settling
  <2>4. ASSUME StopperReports \/ \E ok \in BOOLEAN : StopperReads(ok) \/ StopperSends(ok)
        PROVE  Started'
    <3>1. row' = row /\ pc'["stopper"] \in {"idle", "write", "report"}
      BY <2>4, Moves DEF StopperReports, StopperReads, StopperSends
    <3> QED
      BY <1>1, <2>1, <3>1 DEF Started, Settling
  <2> QED
    BY <1>4, <2>1, <2>2, <2>3, <2>4
<1>5. ASSUME Payment PROVE kind' = kind /\ Started'
  <2>1. kind' = kind
    BY <1>5 DEF Payment, TerminalPays, Captures, PaysRow, RepairsRow, Refused
  <2>2. CASE TerminalPays
    <3>1. pc'["terminal"] = "call" /\ pc'["stopper"] = pc["stopper"] /\ kind = "card"
          /\ captured' = captured /\ row' = row
      BY <2>2, Moves DEF TerminalPays
    <3> QED
      BY <1>1, <2>1, <3>1 DEF Started, Settling
  <2>3. ASSUME NEW p \in Payers, pc[p] = "call", Captures(p) PROVE Started'
    <3>1. captured' # None /\ kind = "card"
      <4>1. UpperLimit \in Nat /\ LowerLimit \in Nat /\ held[p].net \in Nat
        BY BillAssumption DEF Inv, TypeOK, Figures
      <4> QED
        BY <1>1, <2>3, <4>1 DEF Captures, Clamped, None, Started
    <3>2. pc'[p] = "pay" /\ \A b \in Actors \ {p} : pc'[b] = pc[b]
      BY <2>3, Moves DEF Captures
    <3> QED
      BY <1>1, <2>1, <3>1, <3>2 DEF Started
  <2>4. ASSUME NEW p \in Payers, PaysRow(p) PROVE Started'
    <3>1. captured # None /\ captured' = captured /\ kind = "card"
      BY <1>1, <2>4 DEF PaysRow, Started, Settling
    <3>2. pc'[p] = "repair" /\ \A b \in Actors \ {p} : pc'[b] = pc[b]
      BY <2>4, Moves DEF PaysRow
    <3> QED
      BY <1>1, <2>1, <3>1, <3>2 DEF Started
  <2>5. ASSUME NEW p \in Payers, NEW ok \in BOOLEAN, RepairsRow(p, ok) PROVE Started'
    <3>1. captured # None /\ captured' = captured /\ kind = "card"
      BY <1>1, <2>5 DEF RepairsRow, Started, Settling
    <3>2. pc'[p] \in {"report", "done", "untold"} /\ \A b \in Actors \ {p} : pc'[b] = pc[b]
      BY <2>5, Moves DEF RepairsRow
    <3> QED
      BY <1>1, <2>1, <3>1, <3>2 DEF Started
  <2>6. ASSUME NEW p \in Payers, NEW ok \in BOOLEAN, Refused(p, ok) PROVE Started'
    <3>1. captured' = captured /\ kind = "card" /\ row' = row
      BY <1>1, <2>6 DEF Refused, Started
    <3>2. pc'[p] \in {"report", "done"} /\ \A b \in Actors \ {p} : pc'[b] = pc[b]
      BY <2>6, Moves DEF Refused
    <3> QED
      BY <1>1, <2>1, <3>1, <3>2 DEF Started, Settling
  <2> QED
    BY <1>5, <2>1, <2>2, <2>3, <2>4, <2>5, <2>6 DEF Payment, Captures
<1> QED
  BY <1>2, <1>3, <1>4, <1>5 DEF Next, Stop

\* While a prepaid session is worked on without a failure, nothing that was calculated
\* again counts as settled again.
LEMMA StaysUnsettled ==
  ASSUME RefundInv, Next, kind = "prepaid", ~recalculated'
  PROVE  /\ ~recalculated
         /\ row.paid => \A a \in {"amounts", "stopper"} : pc[a] = "write" => pc'[a] = "write"
<1>1. Matches = {}
  BY DEF RefundInv, Started, Matches
<1> QED
  BY <1>1, Noted DEF RefundInv, RevenueInv, Next

\* A failure that is counted is not taken back.
LEMMA FailuresStay ==
  ASSUME RefundInv, Next, failures' = 0
  PROVE  failures = 0
<1>1. failures \in Nat
  BY DEF RefundInv, RevenueInv, Inv, TypeOK
<1>2. failures' = failures => failures = 0
  OBVIOUS
<1>3. failures' = failures + 1 => failures = 0
  BY <1>1
<1>4. ASSUME \/ Tick \/ ChargerStops \/ (\E ok \in BOOLEAN : RemoteStop(ok)) \/ SyncRevenue
             \/ Meter \/ Amount
      PROVE  failures' \in {failures, failures + 1}
  BY <1>4 DEF Tick, ChargerStops, RemoteStop, SyncRevenue, Meter, MeterReads, MeterWrites,
    Shows, Amount, AmountReads, AmountWrites, AmountSends
<1>5. ASSUME Stop PROVE failures' \in {failures, failures + 1}
  BY <1>5 DEF Stop, StopReads, StopWrites, StopperWrites, StopperMarks, StopperReports,
    StopperReads, StopperSends, Shows
<1>6. ASSUME Payment PROVE failures' \in {failures, failures + 1}
  BY <1>6 DEF Payment, TerminalPays, Captures, PaysRow, RepairsRow, Refused
<1>7. ASSUME Invoice PROVE failures' \in {failures, failures + 1}
  BY <1>7 DEF Invoice, InvoiceReads, InvoiceRepairs, InvoiceEnds
<1> QED
  BY <1>2, <1>3, <1>4, <1>5, <1>6, <1>7 DEF Next

\* What neither works on the stop nor makes the invoice leaves the refund as it is: the
\* running amount is written only before the session is paid.
LEMMA RefundStays ==
  ASSUME RefundInv, Next, kind = "prepaid", failures' = 0, ~recalculated',
         UNCHANGED <<refunded, invoiceJobs>>, row'.paid = row.paid,
         row.paid => row'.net = row.net,
         pc'["invoicer"] = pc["invoicer"] /\ held'["invoicer"] = held["invoicer"],
         pc'["stopper"] = pc["stopper"],
         stops' > 0 /\ (stops > 0 => pc["stop"] = "write" \/ stopJobs # <<>>) =>
           pc'["stop"] = "write" \/ stopJobs' # <<>>
  PROVE  Refunding'
<1>1. ~recalculated /\ failures = 0
  BY StaysUnsettled, FailuresStay
<1> QED
  BY <1>1 DEF RefundInv, Refunding, PaidUp, Unpaid

\* The refunds keep adding up, step by step.
LEMMA RefundInductive ==
  /\ Init => RefundInv
  /\ RefundInv /\ [Next]_vars => RefundInv'
<1> USE Basics, Distinct
<1>1. Init => RefundInv
  <2> SUFFICES ASSUME Init PROVE Started /\ Refunding
    BY RevenueInductive DEF RefundInv
  <2> QED
    BY DEF Init, Started, Settling, Payers, Refunding, Unpaid
<1>2. RefundInv /\ [Next]_vars => RefundInv'
  <2> SUFFICES ASSUME RefundInv, [Next]_vars PROVE Refunding'
    BY RevenueInductive, StartedStays DEF RefundInv
  <2> USE DEF RevenueInv
  <2>1. CASE UNCHANGED vars
    BY <2>1 DEF vars, RefundInv, Refunding, PaidUp, Unpaid
  <2>2. CASE Next
    <3> SUFFICES ASSUME kind = "prepaid", failures' = 0, ~recalculated' PROVE Refunding'
      BY StartedStays DEF RefundInv, Refunding
    <3>1. ~recalculated /\ failures = 0 /\ kind' = kind
      BY <2>2, StaysUnsettled, FailuresStay, StartedStays DEF RefundInv
    <3>2. row \in Rows
      BY DEF RefundInv, Inv, TypeOK, Rows
    <3>3. pc \in [Actors -> Labels] /\ held \in [Actors -> Figures] /\ invoiceJobs \in Nat
          /\ stops \in Nat /\ stopJobs \in Seq(BOOLEAN)
      BY DEF RefundInv, Inv, TypeOK
    <3>4. captured = None /\ Matches = {}
      BY DEF RefundInv, Started, Matches
    <3>5. ASSUME \/ Tick \/ ChargerStops \/ (\E ok \in BOOLEAN : RemoteStop(ok)) \/ SyncRevenue
                 \/ Meter \/ StopReads \/ StopWrites
          PROVE  Refunding'
      <4>1. UNCHANGED <<refunded, invoiceJobs>> /\ row'.paid = row.paid /\ row'.net = row.net
        BY <3>2, <3>5 DEF Tick, ChargerStops, RemoteStop, SyncRevenue, Meter, MeterReads,
          MeterWrites, StopReads, StopWrites, Rows
      <4>2. /\ pc'["invoicer"] = pc["invoicer"] /\ held'["invoicer"] = held["invoicer"]
            /\ pc'["stopper"] = pc["stopper"]
        BY <3>3, <3>5 DEF Tick, ChargerStops, RemoteStop, SyncRevenue, Meter, MeterReads,
          MeterWrites, StopReads, StopWrites
      <4>3. stops' > 0 /\ (stops > 0 => pc["stop"] = "write" \/ stopJobs # <<>>) =>
              pc'["stop"] = "write" \/ stopJobs' # <<>>
        <5>1. CASE StopReads
          BY <3>3, <5>1 DEF StopReads
        <5>2. CASE StopWrites
          <6>1. stopJobs' # <<>>
            BY <3>3, <5>2 DEF StopWrites
          <6> QED
            BY <6>1
        <5>3. CASE ~StopReads /\ ~StopWrites
          <6>1. stops' = stops /\ stopJobs' = stopJobs /\ pc'["stop"] = pc["stop"]
            BY <3>3, <3>5, <5>3 DEF Tick, ChargerStops, RemoteStop, SyncRevenue, Meter,
              MeterReads, MeterWrites
          <6> QED
            BY <6>1
        <5> QED
          BY <5>1, <5>2, <5>3
      <4> QED
        BY <2>2, <4>1, <4>2, <4>3, RefundStays
    <3>6. ASSUME Amount PROVE Refunding'
      <4>1. UNCHANGED <<refunded, invoiceJobs, stops, stopJobs>> /\ row'.paid = row.paid
        BY <3>2, <3>6 DEF Amount, AmountReads, AmountWrites, AmountSends, Charged, Rows
      <4>2. /\ pc'["invoicer"] = pc["invoicer"] /\ held'["invoicer"] = held["invoicer"]
            /\ pc'["stopper"] = pc["stopper"] /\ pc'["stop"] = pc["stop"]
        BY <3>3, <3>6 DEF Amount, AmountReads, AmountWrites, AmountSends
      <4>3. row.paid => row'.net = row.net
        <5>1. CASE AmountWrites
          <6>1. pc["amounts"] = "write" /\ pc'["amounts"] = "send"
            BY <3>3, <5>1 DEF AmountWrites
          <6> QED
            BY <2>2, <6>1, StaysUnsettled
        <5>2. CASE ~AmountWrites
          BY <3>6, <5>2 DEF Amount, AmountReads, AmountSends
        <5> QED
          BY <5>1, <5>2
      <4> QED
        BY <2>2, <4>1, <4>2, <4>3, RefundStays
    <3>7. ASSUME NEW ok \in BOOLEAN, StopperReads(ok) PROVE Refunding'
      <4>1. ok
        BY <3>1, <3>7 DEF StopperReads
      <4>2. pc["stopper"] = "idle" /\ pc'["stopper"] = "write" /\ pc'["invoicer"] = pc["invoicer"]
            /\ pc'["stop"] = pc["stop"] /\ held'["invoicer"] = held["invoicer"]
            /\ UNCHANGED <<row, refunded, invoiceJobs, stops, stopJobs>>
        BY <3>3, <3>7, <4>1 DEF StopperReads
      <4> QED
        BY <3>1, <4>2 DEF RefundInv, Refunding, PaidUp, Unpaid
    <3>8. CASE StopperWrites
      <4>1. pc["stopper"] = "write" /\ pc'["stopper"] = "mark" /\ pc'["invoicer"] = pc["invoicer"]
            /\ pc'["stop"] = pc["stop"] /\ row'.paid = row.paid
            /\ UNCHANGED <<refunded, invoiceJobs, stops, stopJobs>>
        BY <3>2, <3>3, <3>8 DEF StopperWrites, Charged, Rows
      <4>2. ~row.paid
        BY <2>2, <4>1, StaysUnsettled
      <4> QED
        BY <3>1, <4>1, <4>2 DEF RefundInv, Refunding, Unpaid
    <3>9. CASE StopperMarks
      <4>1. pc["stopper"] = "mark" /\ pc'["stopper"] = "send" /\ pc'["invoicer"] = pc["invoicer"]
            /\ row'.paid /\ UNCHANGED <<refunded, invoiceJobs>>
        BY <3>2, <3>3, <3>9 DEF StopperMarks, Rows
      <4> QED
        BY <3>1, <4>1 DEF RefundInv, Refunding, PaidUp, Unpaid
    <3>10. ASSUME NEW ok \in BOOLEAN, StopperSends(ok) PROVE Refunding'
      <4>1. pc["stopper"] = "send" /\ pc'["stopper"] = "report"
            /\ pc'["invoicer"] = pc["invoicer"] /\ invoiceJobs' = invoiceJobs + 1
            /\ UNCHANGED <<row, refunded>>
        BY <3>3, <3>10 DEF StopperSends
      <4> QED
        BY <3>1, <4>1 DEF RefundInv, Refunding, PaidUp, Unpaid
    <3>11. CASE StopperReports
      <4>1. pc["stopper"] = "report" /\ pc'["stopper"] = "idle"
            /\ pc'["invoicer"] = pc["invoicer"] /\ held'["invoicer"] = held["invoicer"]
            /\ UNCHANGED <<row, refunded, invoiceJobs>>
        BY <3>3, <3>11 DEF StopperReports
      <4> QED
        BY <3>1, <4>1 DEF RefundInv, Refunding, PaidUp, Unpaid
    <3>12. ~Payment
      <4>1. ~TerminalPays
        BY DEF TerminalPays
      <4>2. \A p \in Payers : pc[p] \notin {"call", "pay", "repair"}
        BY DEF RefundInv, Started, Payers
      <4> QED
        BY <4>1, <4>2 DEF Payment, Captures, PaysRow, RepairsRow, Refused
    <3>13. CASE InvoiceReads
      <4>1. pc["invoicer"] = "idle" /\ pc'["invoicer"] = "repair"
            /\ pc'["stopper"] = pc["stopper"] /\ invoiceJobs > 0 /\ invoiceJobs' = invoiceJobs - 1
            /\ held'["invoicer"].net = row.net /\ UNCHANGED <<row, refunded>>
        BY <3>3, <3>13 DEF InvoiceReads, Nothing
      <4> QED
        BY <3>1, <4>1 DEF RefundInv, Refunding, PaidUp, Unpaid
    <3>14. ASSUME NEW ok \in BOOLEAN, InvoiceRepairs(ok) PROVE Refunding'
      <4>1. ok
        BY <3>1, <3>14 DEF InvoiceRepairs
      <4>2. row' = row
        BY <3>4, <3>14 DEF InvoiceRepairs, Repaired
      <4>3. pc["invoicer"] = "repair" /\ pc'["invoicer"] = "refund"
            /\ pc'["stopper"] = pc["stopper"] /\ held' = held
            /\ UNCHANGED <<refunded, invoiceJobs>>
        BY <3>3, <3>14, <4>1 DEF InvoiceRepairs
      <4> QED
        BY <3>1, <4>2, <4>3 DEF RefundInv, Refunding, PaidUp, Unpaid
    <3>15. ASSUME NEW refunds \in BOOLEAN, NEW ok \in BOOLEAN, InvoiceEnds(refunds, ok)
           PROVE  Refunding'
      <4>1. ok
        BY <3>1, <3>15 DEF InvoiceEnds
      <4>2. pc["invoicer"] = (IF refunds THEN "refund" ELSE "report") /\ pc'["invoicer"] = "idle"
            /\ pc'["stopper"] = pc["stopper"] /\ UNCHANGED <<row, invoiceJobs>>
            /\ (refunds => refunded' = refunded + Unused(held["invoicer"].net))
        BY <3>3, <3>15, <4>1 DEF InvoiceEnds
      <4>3. row.net \in Nat /\ MaxAmount \in Nat
        BY <3>2 DEF Rows
      <4> QED
        BY <3>1, <4>2, <4>3 DEF RefundInv, Refunding, PaidUp, Unpaid, Unused
    <3> QED
      BY <2>2, <3>5, <3>6, <3>7, <3>8, <3>9, <3>10, <3>11, <3>12, <3>13, <3>14, <3>15
      DEF Next, Stop, Invoice
  <2> QED
    BY <2>1, <2>2
<1> QED
  BY <1>1, <1>2

\* A prepaid session that was stopped and worked off has cost what its row says, and
\* the customer was refunded the rest once, but for a repeated calculation of a
\* session that was paid and for failures.
THEOREM PrepaidIsRefunded == SafeSpec => []PrepaidAddsUp
<1>1. RefundInv => PrepaidAddsUp
  <2> SUFFICES ASSUME RefundInv, Quiet, kind = "prepaid", stops > 0, ~recalculated,
                      ~(failures > 0)
               PROVE  refunded + row.net = MaxAmount
    BY DEF PrepaidAddsUp
  <2>1. \A a \in {"stop", "stopper", "invoicer"} : pc[a] \in {"idle", "done", "untold"}
    BY Basics DEF Quiet
  <2>2. stopJobs = <<>> /\ invoiceJobs = 0
    BY DEF Quiet
  <2>3. failures = 0
    BY DEF RefundInv, RevenueInv, Inv, TypeOK
  <2> QED
    BY <2>1, <2>2, <2>3 DEF RefundInv, Refunding, PaidUp, Unpaid
<1> QED
  BY <1>1, RefundInductive, PTL DEF SafeSpec

------------------------------------------------------------------------------
(* The capture of an amount that was used up *)

\* A product grows with its factor.
LEMMA TimesGrows ==
  ASSUME NEW a \in Nat, NEW x \in Nat, NEW y \in Nat, x <= y
  PROVE  a * x <= a * y /\ a * x \in Nat /\ a * y \in Nat
<1>1. PICK k \in Nat : y = x + k
  <2>1. y - x \in Nat /\ y = x + (y - x)
    OBVIOUS
  <2> QED
    BY <2>1
<1>2. a * y = a * x + a * k /\ a * k \in Nat /\ a * x \in Nat
  BY <1>1
<1> QED
  BY <1>2

\* What is charged of a larger amount after a discount or with a tax is no smaller.
LEMMA PercentGrows ==
  ASSUME NEW x \in Nat, NEW y \in Nat, x <= y, NEW p \in Nat
  PROVE  /\ Percent(x, p) \in Nat /\ Percent(x, p) <= Percent(y, p)
         /\ p <= 100 => x - Percent(x, p) <= y - Percent(y, p)
<1>1. PICK k \in Nat : y = x + k
  <2>1. y - x \in Nat /\ y = x + (y - x)
    OBVIOUS
  <2> QED
    BY <2>1
<1> DEFINE u == x * p
           v == k * p
<1>2. u \in Nat /\ v \in Nat /\ y * p = u + v /\ (p <= 100 => v <= 100 * k)
  BY <1>1
<1> HIDE DEF u, v
<1>3. u \div 100 \in Nat /\ u \div 100 <= (u + v) \div 100
  BY <1>2
<1>4. v <= 100 * k => (u + v) \div 100 <= u \div 100 + k
  BY <1>1, <1>2
<1>5. Percent(x, p) = u \div 100 /\ Percent(y, p) = (u + v) \div 100
  BY <1>2 DEF Percent, u
<1>6. ASSUME p <= 100 PROVE x - Percent(x, p) <= y - Percent(y, p)
  <2>1. (u + v) \div 100 <= u \div 100 + k
    BY <1>2, <1>4, <1>6
  <2>2. (u + v) \div 100 \in Int /\ u \div 100 \in Int
    BY <1>2
  <2> HIDE DEF Percent
  <2> QED
    BY <1>1, <1>5, <2>1, <2>2
<1> QED
  BY <1>3, <1>5, <1>6

\* A session that lasts longer and takes more energy costs no less.
LEMMA PriceGrows ==
  ASSUME NEW e \in Nat, NEW f \in Nat, e <= f, NEW m \in Nat, NEW n \in Nat, m <= n
  PROVE  Price(e, m) <= Price(f, n)
<1>1. /\ BaseRate \in Nat /\ ParkingRate \in Nat /\ PeakRate \in Nat /\ Penalty \in Nat
      /\ Discount \in 0..100 /\ TaxRate \in Nat
      /\ PeakFrom \in Nat /\ PeakTo \in Nat /\ PeakFrom <= PeakTo
  BY BillAssumption
<1> DEFINE over(t) == Overlap(t, PeakFrom, PeakTo)
           gross(t, x) == BaseRate * x + ParkingRate * t + PeakRate * over(t)
           taxable(g) == g + Penalty - Percent(g, Discount)
<1>2. over(e) \in Nat /\ over(f) \in Nat /\ over(e) <= over(f)
  BY <1>1 DEF Overlap, Least, Most
<1> DEFINE g == gross(e, m)
           h == gross(f, n)
<1>3. g \in Nat /\ h \in Nat /\ g <= h
  <2> DEFINE a == BaseRate * m
             b == BaseRate * n
             c == ParkingRate * e
             d == ParkingRate * f
             x == PeakRate * over(e)
             y == PeakRate * over(f)
  <2>1. a <= b /\ a \in Nat /\ b \in Nat
    BY <1>1, TimesGrows
  <2>2. c <= d /\ c \in Nat /\ d \in Nat
    BY <1>1, TimesGrows
  <2>3. x <= y /\ x \in Nat /\ y \in Nat
    <3> HIDE DEF over
    <3> QED
      BY <1>1, <1>2, TimesGrows
  <2>4. g = a + c + x /\ h = b + d + y
    OBVIOUS
  <2> HIDE DEF a, b, c, d, x, y, g, h
  <2> QED
    BY <2>1, <2>2, <2>3, <2>4
<1>4. Price(e, m) = taxable(g) + Percent(taxable(g), TaxRate)
      /\ Price(f, n) = taxable(h) + Percent(taxable(h), TaxRate)
  BY DEF Price
<1> HIDE DEF g, h
<1>5. taxable(g) \in Nat /\ taxable(h) \in Nat /\ taxable(g) <= taxable(h)
  <2>1. Percent(g, Discount) \in 0..g /\ Percent(h, Discount) \in 0..h
    BY <1>1, <1>3, PercentBounds
  <2>2. g - Percent(g, Discount) <= h - Percent(h, Discount)
    <3>1. Discount \in Nat /\ Discount <= 100
      BY <1>1
    <3> QED
      BY <1>3, <3>1, PercentGrows
  <2> QED
    BY <1>1, <1>3, <2>1, <2>2
<1> DEFINE s == taxable(g)
           t == taxable(h)
<1>6. s \in Nat /\ t \in Nat /\ s <= t
  BY <1>5
<1>7. Price(e, m) = s + Percent(s, TaxRate) /\ Price(f, n) = t + Percent(t, TaxRate)
  BY <1>4
<1> HIDE DEF s, t
<1>8. /\ Percent(s, TaxRate) \in Nat /\ Percent(t, TaxRate) \in Nat
      /\ Percent(s, TaxRate) <= Percent(t, TaxRate)
  BY <1>1, <1>6, PercentGrows
<1> QED
  BY <1>6, <1>7, <1>8

\* What the authorised amount was used up at.
Full(end, meter) == end \in Nat /\ Limited(Price(end, meter)) >= MaxAmount

\* It stays used up.
LEMMA FullStays ==
  ASSUME NEW e, NEW f \in Nat, e <= f, NEW m \in Nat, NEW n \in Nat, m <= n, Full(e, m)
  PROVE  Full(f, n)
<1>1. e \in Nat /\ Limited(Price(e, m)) >= MaxAmount
  BY DEF Full
<1>2. Price(e, m) \in Nat /\ Price(f, n) \in Nat /\ Price(e, m) <= Price(f, n)
  BY <1>1, PriceIsNat, PriceGrows
<1>3. UpperLimit \in Nat /\ MaxAmount \in Nat
  BY BillAssumption
<1> DEFINE x == Price(e, m)
           y == Price(f, n)
<1>4. x \in Nat /\ y \in Nat /\ x <= y
  BY <1>2
<1> HIDE DEF x, y
<1>5. Limited(x) >= MaxAmount => Limited(y) >= MaxAmount
  BY <1>3, <1>4 DEF Limited, Least
<1> QED
  BY <1>1, <1>5 DEF Full, x, y

\* Before its stop is reported the session is as reached as its last calculation said:
\* each one reads no earlier time and no smaller reading than the one before it.
Before ==
  /\ stopJobs = <<>> /\ pc["stop"] = "idle" /\ pc["stopper"] = "idle"
  /\ row.reached => row.end <= clock /\ Full(row.end, row.meter)
  /\ pc["amounts"] = "write" =>
       /\ held["amounts"].meter <= row.meter /\ held["amounts"].end \in 0..clock
       /\ row.reached => held["amounts"].reached
       /\ held["amounts"].reached => Full(held["amounts"].end, held["amounts"].meter)
  /\ pc["amounts"] = "send" /\ held["amounts"].reached => row.reached
  /\ remoteStops > 0 \/ reason = "Reached" => row.reached

\* After it the first job of the queue makes the payment.
After ==
  \/ pc["stop"] = "write" /\ held["stop"].reached /\ stopJobs = <<>> /\ pc["stopper"] = "idle"
  \/ stopJobs # <<>> /\ Head(stopJobs) /\ pc["stopper"] \in {"idle", "write", "call"}

Ending ==
  /\ stops > 0 => stopAt # None
  /\ kind = "card" /\ captured = None /\ ~reordered /\ failures = 0 =>
       /\ stops = 0 => Before
       /\ stops > 0 /\ reason = "Reached" => After

EndingInv == RefundInv /\ Ending

\* What a running calculation finds, of a session that is not paid.
LEMMA BillReaches ==
  ASSUME EndingInv, ~row.paid, row.reached => row.end <= clock /\ Full(row.end, row.meter)
  PROVE  LET bill == Bill(row, clock, TRUE)
         IN /\ bill.end = clock /\ bill.meter = row.meter
            /\ bill.reached <=> Full(clock, row.meter)
            /\ row.reached => bill.reached
<1>1. row \in Rows /\ clock \in Nat /\ clock # None
  BY DEF EndingInv, RefundInv, RevenueInv, Inv, TypeOK, Rows, None
<1>2. Bill(row, clock, TRUE).end = clock /\ Bill(row, clock, TRUE).meter = row.meter
  BY <1>1 DEF Bill
<1>3. Bill(row, clock, TRUE).reached <=> Limited(Price(clock, row.meter)) >= MaxAmount
  BY <1>1 DEF Bill
<1>4. Bill(row, clock, TRUE).reached <=> Full(clock, row.meter)
  BY <1>1, <1>3 DEF Full
<1>5. ASSUME row.reached PROVE Full(clock, row.meter)
  <2>1. row.end <= clock /\ Full(row.end, row.meter) /\ row.end \in Nat /\ row.meter \in Nat
    BY <1>1, <1>5 DEF Full, Rows
  <2> QED
    BY <1>1, <2>1, FullStays
<1> QED
  BY <1>2, <1>4, <1>5

\* Steps that touch neither the calculations nor the stop leave it as it is.
LEMMA EndingStays ==
  ASSUME EndingInv, kind = "card", captured = None, ~reordered, failures = 0,
         UNCHANGED <<stops, stopJobs, reason>>,
         pc'["stop"] = pc["stop"], pc'["stopper"] = pc["stopper"],
         pc'["amounts"] = pc["amounts"], held'["amounts"] = held["amounts"],
         held'["stop"] = held["stop"], remoteStops' = remoteStops,
         row'.end = row.end, row'.reached = row.reached,
         row'.meter \in Nat, row.meter <= row'.meter, clock' \in {clock, clock + 1}
  PROVE  /\ stops' = 0 => Before'
         /\ stops' > 0 /\ reason' = "Reached" => After'
<1>1. row \in Rows /\ clock \in Nat /\ held["amounts"] \in Figures
  BY Basics DEF EndingInv, RefundInv, RevenueInv, Inv, TypeOK, Rows
<1>2. ASSUME stops' = 0 PROVE Before'
  <2>1. Before
    BY <1>2 DEF EndingInv, Ending
  <2>2. row.meter \in Nat /\ held["amounts"].meter \in Nat /\ clock <= clock'
    BY <1>1 DEF Rows, Figures
  <2>3. row'.reached => row'.end <= clock' /\ Full(row'.end, row'.meter)
    <3> SUFFICES ASSUME row.reached PROVE row'.end <= clock' /\ Full(row'.end, row'.meter)
      OBVIOUS
    <3>1. row.end <= clock /\ Full(row.end, row.meter)
      BY <2>1 DEF Before
    <3>2. row.end \in Nat
      BY <3>1 DEF Full
    <3>3. Full(row.end, row'.meter)
      <4>1. row'.meter \in Nat /\ row.meter <= row'.meter /\ row.end <= row.end
        BY <3>2
      <4> QED
        BY <2>2, <3>1, <3>2, <4>1, FullStays
    <3> QED
      BY <1>1, <2>2, <3>1, <3>2, <3>3
  <2>4. pc'["amounts"] = "write" =>
          /\ held'["amounts"].meter <= row'.meter /\ held'["amounts"].end \in 0..clock'
          /\ row'.reached => held'["amounts"].reached
          /\ held'["amounts"].reached => Full(held'["amounts"].end, held'["amounts"].meter)
    BY <1>1, <2>1, <2>2 DEF Before
  <2> QED
    BY <2>1, <2>3, <2>4 DEF Before, Full
<1>3. ASSUME stops' > 0, reason' = "Reached" PROVE After'
  BY <1>3 DEF EndingInv, Ending, After
<1> QED
  BY <1>2, <1>3

\* Until the session is captured, nothing takes its card or its failures back.
LEMMA StillEnding ==
  ASSUME EndingInv, Next, kind' = "card", captured' = None, ~reordered', failures' = 0
  PROVE  /\ kind = "card" /\ captured = None /\ ~reordered /\ failures = 0 /\ ~row.paid
         /\ Matches = {} /\ ~Settling
         /\ \A m \in Meters : pc[m] = "write" /\ pc'[m] # "write" => ~(held[m].meter < row.meter)
<1>1. kind = "card" /\ failures = 0
  BY StartedStays, FailuresStay DEF EndingInv, RefundInv
<1>2. captured = None
  <2>1. ASSUME NEW p \in Payers, Captures(p) PROVE captured' # None
    <3>1. UpperLimit \in Nat /\ LowerLimit \in Nat /\ held[p].net \in Nat
      BY Basics, BillAssumption DEF EndingInv, RefundInv, RevenueInv, Inv, TypeOK, Figures
    <3> QED
      BY <2>1, <3>1 DEF Captures, Clamped, None
  <2>2. ASSUME ~\E p \in Payers : Captures(p) PROVE captured' = captured
    <3>1. CASE Tick \/ ChargerStops \/ (\E ok \in BOOLEAN : RemoteStop(ok)) \/ SyncRevenue
      BY <3>1 DEF Tick, ChargerStops, RemoteStop, SyncRevenue
    <3>2. CASE Meter \/ Amount
      BY <3>2 DEF Meter, MeterReads, MeterWrites, Amount, AmountReads, AmountWrites, AmountSends
    <3>3. CASE Stop
      BY <3>3 DEF Stop, StopReads, StopWrites, StopperReads, StopperWrites, StopperMarks,
        StopperSends, StopperReports
    <3>4. CASE Payment
      BY <2>2, <3>4 DEF Payment, TerminalPays, PaysRow, RepairsRow, Refused
    <3>5. CASE Invoice
      BY <3>5 DEF Invoice, InvoiceReads, InvoiceRepairs, InvoiceEnds
    <3> QED
      BY <3>1, <3>2, <3>3, <3>4, <3>5 DEF Next
  <2> QED
    BY <2>1, <2>2
<1>3. ~row.paid /\ Matches = {} /\ ~Settling
  BY <1>1, <1>2 DEF EndingInv, RefundInv, Started, Matches
<1>4. ~reordered /\ \A m \in Meters : Writes(m) => ~(held[m].meter < row.meter)
  BY DEF Next, NoteHistory
<1> QED
  BY <1>1, <1>2, <1>3, <1>4 DEF Writes

\* A session that was stopped once has stopped for good.
LEMMA StopsAreReal ==
  ASSUME EndingInv, Next
  PROVE  /\ stops' > 0 => stopAt' # None
         /\ stopAt # None => reason' = reason
<1>1. clock \in Nat /\ stops \in Nat /\ (stops > 0 => stopAt # None)
  BY DEF EndingInv, Ending, RefundInv, RevenueInv, Inv, TypeOK
<1>2. CASE Tick \/ ChargerStops \/ (\E ok \in BOOLEAN : RemoteStop(ok)) \/ SyncRevenue
  BY <1>1, <1>2 DEF Tick, ChargerStops, RemoteStop, SyncRevenue, None
<1>3. CASE Meter \/ Amount
  BY <1>1, <1>3 DEF Meter, MeterReads, MeterWrites, Amount, AmountReads, AmountWrites, AmountSends
<1>4. CASE Stop
  BY <1>1, <1>4 DEF Stop, StopReads, StopWrites, StopperReads, StopperWrites, StopperMarks,
    StopperSends, StopperReports
<1>5. CASE Payment
  BY <1>1, <1>5 DEF Payment, TerminalPays, Captures, PaysRow, RepairsRow, Refused
<1>6. CASE Invoice
  BY <1>1, <1>6 DEF Invoice, InvoiceReads, InvoiceRepairs, InvoiceEnds
<1> QED
  BY <1>2, <1>3, <1>4, <1>5, <1>6 DEF Next

\* A reached amount stays reached until the stop is reported, and its job makes the
\* payment then.
LEMMA EndingNext ==
  ASSUME EndingInv, Next, kind' = "card", captured' = None, ~reordered', failures' = 0
  PROVE  /\ stops' = 0 => Before'
         /\ stops' > 0 /\ reason' = "Reached" => After'
<1> USE Basics, Distinct
<1>1. /\ kind = "card" /\ captured = None /\ ~reordered /\ failures = 0 /\ ~row.paid
      /\ Matches = {} /\ ~Settling
  BY StillEnding
<1>2. /\ (stops = 0 => Before) /\ (stops > 0 /\ reason = "Reached" => After)
      /\ (stops > 0 => stopAt # None)
  BY <1>1 DEF EndingInv, Ending
<1>3. /\ row \in Rows /\ clock \in Nat /\ pc \in [Actors -> Labels] /\ held \in [Actors -> Figures]
      /\ stopJobs \in Seq(BOOLEAN) /\ stops \in Nat /\ remoteStops \in Nat
  BY DEF EndingInv, RefundInv, RevenueInv, Inv, TypeOK, Rows
<1>4. row.meter \in Nat /\ row.meter <= row.meter
  BY <1>3 DEF Rows
<1>5. CASE Tick
  <2>1. /\ UNCHANGED <<stops, stopJobs, reason, pc, held, remoteStops, row>>
        /\ clock' = clock + 1
    BY <1>5 DEF Tick
  <2> QED
    BY <1>1, <1>4, <2>1, EndingStays
<1>6. CASE ChargerStops
  <2>1. stopAt = None /\ stops = 0 /\ reason' # "Reached"
    BY <1>2, <1>3, <1>6 DEF ChargerStops
  <2>2. UNCHANGED <<stops, stopJobs, pc, held, remoteStops, row, clock>>
    BY <1>6 DEF ChargerStops
  <2> QED
    BY <1>2, <2>1, <2>2 DEF Before, Full
<1>7. ASSUME NEW ok \in BOOLEAN, RemoteStop(ok)
      PROVE  (stops' = 0 => Before') /\ (stops' > 0 /\ reason' = "Reached" => After')
  <2>1. /\ UNCHANGED <<stops, stopJobs, pc, held, row, clock>>
        /\ remoteStops > 0 /\ (reason' = reason \/ stopAt = None)
    BY <1>7 DEF RemoteStop
  <2>2. CASE stops = 0
    <3>1. Before
      BY <1>2, <2>2
    <3> QED
      BY <1>3, <2>1, <2>2, <3>1 DEF Before, Full
  <2>3. CASE stops > 0
    <3>1. stops' # 0 /\ stops' = stops /\ reason' = reason
      BY <1>2, <1>3, <2>1, <2>3
    <3>2. ASSUME reason = "Reached" PROVE After'
      <4>1. After
        BY <1>2, <2>3, <3>2
      <4> QED
        BY <2>1, <4>1 DEF After
    <3> QED
      BY <3>1, <3>2
  <2> QED
    BY <1>3, <2>2, <2>3
<1>8. CASE Meter
  <2>1. PICK m \in Meters : MeterReads(m) \/ MeterWrites(m)
    BY <1>8 DEF Meter
  <2>2. /\ UNCHANGED <<stops, stopJobs, reason, remoteStops, clock>>
        /\ \A a \in {"stop", "stopper", "amounts"} : pc'[a] = pc[a] /\ held'[a] = held[a]
    <3>1. \A a \in {"stop", "stopper", "amounts"} : a # m
      OBVIOUS
    <3> QED
      BY <1>3, <2>1, <3>1 DEF MeterReads, MeterWrites
  <2>3. CASE MeterReads(m)
    <3>1. row' = row
      BY <2>3 DEF MeterReads
    <3> QED
      BY <1>1, <1>4, <2>2, <3>1, EndingStays
  <2>4. CASE MeterWrites(m)
    <3>1. pc[m] = "write" /\ pc'[m] = "idle" /\ row' = [row EXCEPT !.meter = held[m].meter]
      BY <1>3, <2>4 DEF MeterWrites
    <3>2. ~(held[m].meter < row.meter) /\ held[m].meter \in Nat
      BY <1>3, <3>1, StillEnding DEF Figures
    <3>3. row'.end = row.end /\ row'.reached = row.reached /\ row'.meter \in Nat
          /\ row.meter <= row'.meter
      BY <1>3, <1>4, <3>1, <3>2 DEF Rows
    <3> QED
      BY <1>1, <2>2, <3>3, EndingStays
  <2> QED
    BY <2>1, <2>3, <2>4
<1>9. CASE Amount
  <2>1. /\ UNCHANGED <<stops, stopJobs, reason, clock>>
        /\ pc'["stop"] = pc["stop"] /\ held'["stop"] = held["stop"]
        /\ pc'["stopper"] = pc["stopper"]
    BY <1>3, <1>9 DEF Amount, AmountReads, AmountWrites, AmountSends
  <2>2. CASE stops > 0
    <3>1. stops' # 0 /\ stops' = stops
      BY <1>3, <2>1, <2>2
    <3>2. ASSUME reason = "Reached" PROVE After'
      <4>1. After
        BY <1>2, <2>2, <3>2
      <4> QED
        BY <2>1, <4>1 DEF After
    <3> QED
      BY <2>1, <3>1, <3>2
  <2>3. CASE stops = 0
    <3>1. Before
      BY <1>2, <2>3
    <3>2. ASSUME NEW ok \in BOOLEAN, AmountReads(ok) PROVE Before'
      <4>1. ok
        BY <1>1, <3>2 DEF AmountReads
      <4> DEFINE bill == Bill(row, clock, TRUE)
      <4>2. pc'["amounts"] = "write" /\ held'["amounts"] = bill
            /\ UNCHANGED <<row, remoteStops>>
        BY <1>3, <3>2, <4>1 DEF AmountReads
      <4>3. /\ bill.end = clock /\ bill.meter = row.meter
            /\ bill.reached <=> Full(clock, row.meter)
            /\ row.reached => bill.reached
        BY <1>1, <3>1, BillReaches DEF Before
      <4> HIDE DEF bill
      <4> QED
        BY <1>3, <1>4, <2>1, <3>1, <4>2, <4>3 DEF Before, Full
    <3>3. CASE AmountWrites
      <4>1. /\ pc["amounts"] = "write" /\ pc'["amounts"] = "send"
            /\ row' = [row EXCEPT !.end = held["amounts"].end, !.net = held["amounts"].net,
                                  !.reached = held["amounts"].reached]
            /\ UNCHANGED <<held, remoteStops>>
        BY <1>3, <3>3 DEF AmountWrites, Charged
      <4>2. row'.end = held["amounts"].end /\ row'.reached = held["amounts"].reached
            /\ row'.meter = row.meter
        BY <1>3, <4>1 DEF Rows
      <4>3. /\ held["amounts"].meter <= row.meter /\ held["amounts"].end \in 0..clock
            /\ row.reached => held["amounts"].reached
            /\ held["amounts"].reached => Full(held["amounts"].end, held["amounts"].meter)
            /\ held["amounts"].meter \in Nat
        BY <1>3, <3>1, <4>1 DEF Before, Figures
      <4>4. held["amounts"].reached => Full(held["amounts"].end, row.meter)
        <5> SUFFICES ASSUME held["amounts"].reached PROVE Full(held["amounts"].end, row.meter)
          OBVIOUS
        <5>1. held["amounts"].end \in Nat /\ held["amounts"].end <= held["amounts"].end
          BY <1>3, <4>3
        <5> QED
          BY <1>4, <4>3, <5>1, FullStays
      <4>5. row'.reached => row'.end <= clock' /\ Full(row.end, row.meter)'
        BY <1>3, <2>1, <4>2, <4>3, <4>4 DEF Full
      <4>6. remoteStops' > 0 \/ reason' = "Reached" => row'.reached
        <5>1. remoteStops > 0 \/ reason = "Reached" => row.reached
          BY <3>1 DEF Before
        <5> QED
          BY <2>1, <4>1, <4>2, <4>3, <5>1
      <4>7. held'["amounts"].reached => row'.reached
        BY <4>1, <4>2
      <4>8. stopJobs' = <<>> /\ pc'["stop"] = "idle" /\ pc'["stopper"] = "idle"
        BY <2>1, <3>1 DEF Before
      <4>9. pc'["amounts"] # "write"
        BY <4>1
      <4>10. Before'
        BY <4>5, <4>6, <4>7, <4>8, <4>9 DEF Before
      <4>11. ~(stops' > 0)
        BY <2>1, <2>3
      <4> QED
        BY <4>10, <4>11
    <3>4. ASSUME NEW ok \in BOOLEAN, AmountSends(ok) PROVE Before'
      <4>1. /\ pc["amounts"] = "send" /\ pc'["amounts"] = "idle" /\ row' = row
            /\ remoteStops' = IF held["amounts"].reached THEN remoteStops + 1 ELSE remoteStops
        BY <1>3, <3>4 DEF AmountSends
      <4> QED
        BY <2>1, <3>1, <4>1 DEF Before, Full
    <3> QED
      BY <1>9, <2>1, <2>3, <3>2, <3>3, <3>4 DEF Amount
  <2> QED
    BY <1>3, <2>2, <2>3
<1>10. CASE StopReads
  <2>1. /\ pc["stop"] = "idle" /\ pc'["stop"] = "write" /\ pc'["stopper"] = pc["stopper"]
        /\ UNCHANGED <<stopJobs, reason>> /\ stops' = stops + 1
    BY <1>3, <1>10 DEF StopReads
  <2>2. held'["stop"].reached = row.reached
    <3> DEFINE f == [Nothing EXCEPT !.end = row.end, !.reached = row.reached]
    <3>1. f.reached = row.reached
      BY DEF Nothing
    <3>2. held' = [held EXCEPT !["stop"] = f]
      BY <1>10 DEF StopReads
    <3> HIDE DEF f
    <3> QED
      BY <1>3, <3>1, <3>2
  <2>3. ASSUME reason = "Reached" PROVE After'
    <3>1. CASE stops = 0
      <4>1. stopJobs = <<>> /\ pc["stopper"] = "idle" /\ row.reached
        BY <1>2, <2>3, <3>1 DEF Before
      <4> QED
        BY <2>1, <2>2, <4>1 DEF After
    <3>2. CASE stops > 0
      <4>1. stopJobs # <<>> /\ Head(stopJobs) /\ pc["stopper"] \in {"idle", "write", "call"}
        BY <1>2, <2>1, <2>3, <3>2 DEF After
      <4> QED
        BY <2>1, <4>1 DEF After
    <3> QED
      BY <1>3, <3>1, <3>2
  <2>4. stops' # 0
    BY <1>3, <2>1
  <2> QED
    BY <2>1, <2>3, <2>4
<1>11. CASE StopWrites
  <2>1. /\ pc["stop"] = "write" /\ pc'["stopper"] = pc["stopper"]
        /\ stopJobs' = Append(stopJobs, MakesPayment(held["stop"].reached))
        /\ UNCHANGED <<stops, reason>>
    BY <1>3, <1>11 DEF StopWrites
  <2>2. stops > 0
    BY <1>2, <1>3, <2>1 DEF Before
  <2>3. ASSUME reason = "Reached" PROVE After'
    <3>1. MakesPayment(held["stop"].reached) = held["stop"].reached
          /\ held["stop"].reached \in BOOLEAN
      BY <1>3, <2>3 DEF MakesPayment, Figures
    <3>2. stopJobs' # <<>>
          /\ Head(stopJobs') = IF stopJobs = <<>> THEN held["stop"].reached ELSE Head(stopJobs)
      BY <1>3, <2>1, <3>1
    <3> QED
      BY <1>2, <2>1, <2>2, <2>3, <3>2 DEF After
  <2> QED
    BY <1>3, <2>1, <2>2, <2>3
<1>12. ASSUME \/ StopperWrites \/ StopperMarks \/ StopperReports
              \/ \E ok \in BOOLEAN : StopperReads(ok) \/ StopperSends(ok)
       PROVE  (stops' = 0 => Before') /\ (stops' > 0 /\ reason' = "Reached" => After')
  <2>1. /\ UNCHANGED <<stops, reason>>
        /\ pc'["stop"] = pc["stop"]
        /\ pc["stopper"] # "idle" \/ stopJobs # <<>>
    BY <1>3, <1>12 DEF StopperWrites, StopperMarks, StopperReports, StopperReads, StopperSends
  <2>2. stops # 0
    BY <1>2, <2>1 DEF Before
  <2>3. ASSUME reason = "Reached" PROVE After'
    <3>1. stopJobs # <<>> /\ Head(stopJobs) /\ pc["stopper"] \in {"idle", "write", "call"}
      <4>1. After
        BY <1>2, <1>3, <2>2, <2>3
      <4> QED
        BY <2>1, <4>1 DEF After
    <3>2. CASE StopperWrites
      <4>1. pc'["stopper"] = CASE kind = "prepaid" -> "mark"
                               [] kind = "card" /\ Head(stopJobs) -> "call"
                               [] OTHER -> "send"
        BY <1>3, <3>2 DEF StopperWrites
      <4>2. pc'["stopper"] = "call" /\ stopJobs' = stopJobs
        BY <1>1, <3>1, <3>2, <4>1 DEF StopperWrites
      <4> QED
        BY <3>1, <4>2 DEF After
    <3>3. ASSUME NEW ok \in BOOLEAN, StopperReads(ok) PROVE After'
      <4>1. ok
        BY <1>1, <3>3 DEF StopperReads
      <4>2. pc'["stopper"] = "write" /\ stopJobs' = stopJobs
        BY <1>3, <3>3, <4>1 DEF StopperReads
      <4> QED
        BY <3>1, <4>2 DEF After
    <3>4. ~StopperMarks /\ ~StopperReports /\ ~\E ok \in BOOLEAN : StopperSends(ok)
      BY <3>1 DEF StopperMarks, StopperReports, StopperSends
    <3> QED
      BY <1>12, <3>2, <3>3, <3>4
  <2> QED
    BY <1>3, <2>1, <2>2, <2>3
<1>13. CASE Payment
  <2>1. ~\E p \in Payers : Captures(p)
    <3>1. ASSUME NEW p \in Payers, Captures(p) PROVE FALSE
      <4>1. UpperLimit \in Nat /\ LowerLimit \in Nat /\ held[p].net \in Nat
        BY <1>3, BillAssumption DEF Figures
      <4> QED
        BY <3>1, <4>1 DEF Captures, Clamped, None
    <3> QED
      BY <3>1
  <2>2. ~\E p \in Payers, ok \in BOOLEAN : PaysRow(p) \/ RepairsRow(p, ok)
    BY <1>1 DEF Settling, PaysRow, RepairsRow
  <2>3. ~\E p \in Payers, ok \in BOOLEAN : Refused(p, ok)
    BY <1>1 DEF Refused
  <2>4. TerminalPays
    BY <1>13, <2>1, <2>2, <2>3 DEF Payment
  <2>5. /\ UNCHANGED <<stops, stopJobs, reason, remoteStops, row, clock>>
        /\ \A a \in {"stop", "stopper", "amounts"} : pc'[a] = pc[a] /\ held'[a] = held[a]
    BY <1>3, <2>4 DEF TerminalPays
  <2> QED
    BY <1>1, <1>4, <2>5, EndingStays
<1>14. CASE Invoice
  <2>1. row' = row
    BY <1>1, <1>14 DEF Invoice, InvoiceReads, InvoiceRepairs, InvoiceEnds, Repaired
  <2>2. /\ UNCHANGED <<stops, stopJobs, reason, remoteStops, clock>>
        /\ \A a \in {"stop", "stopper", "amounts"} : pc'[a] = pc[a] /\ held'[a] = held[a]
    BY <1>3, <1>14 DEF Invoice, InvoiceReads, InvoiceRepairs, InvoiceEnds
  <2> QED
    BY <1>1, <1>4, <2>1, <2>2, EndingStays
<1>15. CASE SyncRevenue
  <2>1. UNCHANGED <<stops, stopJobs, reason, remoteStops, clock, row, pc, held>>
    BY <1>15 DEF SyncRevenue
  <2> QED
    BY <1>1, <1>4, <2>1, EndingStays
<1>16. CASE Stop
  BY <1>10, <1>11, <1>12, <1>16 DEF Stop
<1>17. CASE \E ok \in BOOLEAN : RemoteStop(ok)
  BY <1>7, <1>17
<1> QED
  BY <1>5, <1>6, <1>8, <1>9, <1>13, <1>14, <1>15, <1>16, <1>17 DEF Next

\* A session whose authorised amount was used up is captured by the job of its stop,
\* unless readings were reordered or something failed: the calculations that follow
\* each other never find it unreached again.
THEOREM ReachedIsPaid == SafeSpec => []ReachedIsCaptured
<1>1. Init => EndingInv
  <2> SUFFICES ASSUME Init PROVE Ending
    BY RefundInductive DEF EndingInv
  <2> QED
    BY Basics DEF Init, Ending, Before
<1>2. EndingInv /\ [Next]_vars => EndingInv'
  <2> SUFFICES ASSUME EndingInv, [Next]_vars PROVE Ending'
    BY RefundInductive DEF EndingInv
  <2>1. CASE Next
    BY <2>1, EndingNext, StopsAreReal DEF Ending
  <2>2. CASE UNCHANGED vars
    BY <2>2 DEF vars, EndingInv, Ending, Before, After, Full
  <2> QED
    BY <2>1, <2>2
<1>3. EndingInv => ReachedIsCaptured
  <2> SUFFICES ASSUME EndingInv, Quiet, reason = "Reached", stops > 0, kind = "card",
                      captured = None, ~reordered, ~(failures > 0)
               PROVE  FALSE
    BY DEF ReachedIsCaptured
  <2>1. stopJobs = <<>> /\ pc["stop"] \in {"idle", "done", "untold"}
    BY Basics DEF Quiet
  <2>2. failures = 0
    BY DEF EndingInv, RefundInv, RevenueInv, Inv, TypeOK
  <2> QED
    BY <2>1, <2>2 DEF EndingInv, Ending, After
<1> QED
  BY <1>1, <1>2, <1>3, PTL DEF SafeSpec
=============================================================================
