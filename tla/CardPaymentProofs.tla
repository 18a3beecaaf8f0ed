------------------------- MODULE CardPaymentProofs -------------------------
(***************************************************************************)
(* The types of CardPayment, BooksBackedByMoney, RowMovesForward and       *)
(* BooksAgree, and that it implements PaymentPromise, for any number of    *)
(* API calls, stops and crashes.                                           *)
(*                                                                         *)
(* BooksBackedByMoney is not inductive: a handler writes what it concluded *)
(* from an answer or a row it read earlier.  The invariant adds that what  *)
(* a handler still holds is backed by the provider too, which stays true   *)
(* while others act because the provider never takes back a capture or a   *)
(* refund.  RowMovesForward and BooksAgree are about histories without     *)
(* overlap: there the actor at work is alone, and what the rows do not say *)
(* yet it holds in its hands.                                              *)
(***************************************************************************)
EXTENDS CardPayment, TLAPS

USE DEF txVars, rowVars, logVars, queueVars, boundVars, actorVars, Goto, At,
        Actors, Handlers, Labels, Operations, Window

\* The label at which an operation ends is a label.
LEMMA EndIsLabel == ASSUME NEW a PROVE End(a) \in {"report", "mark", "done"}
  BY DEF End

\* The provider carries an operation out from one state only, and from a capture
\* only to a refund.
LEMMA MoneyMoves ==
  ASSUME NEW o, money = Before(o)
  PROVE  /\ After(o) \in {"held", "captured", "released", "refunded"}
         /\ o = "capture" => After(o) = "captured"
         /\ o = "refund" => After(o) = "refunded"
         /\ Captured => After(o) = "refunded"
         /\ money # "refunded"
  BY DEF Before, After, Captured

\* Every variable keeps its type.
THEOREM TypeCorrect == Spec => []TypeOK
<1> USE PaymentAssumption, EndIsLabel DEF TypeOK
<1>1. Init => TypeOK
  <2> SUFFICES ASSUME Init PROVE TypeOK
    OBVIOUS
  <2>1. pc \in [Actors -> Labels] /\ op \in [Actors -> Operations]
    BY DEF Init
  <2>2. /\ seen \in [Actors -> {"none", "Pending", "Processed", "Cancelled", "Refunded"}]
        /\ result \in [Actors -> {"none", "ok", "failure", "thrown"}]
    BY DEF Init
  <2>3. stops \in 0..MaxStops /\ crashes \in 0..MaxCrashes /\ stopQueue \in Seq(BOOLEAN)
    BY DEF Init
  <2> QED
    BY <2>1, <2>2, <2>3 DEF Init
<1>2. TypeOK /\ [Next]_vars => TypeOK'
  <2> SUFFICES ASSUME TypeOK, [Next]_vars PROVE TypeOK'
    OBVIOUS
  <2>1. ASSUME Next PROVE overlap' \in BOOLEAN
    BY <2>1 DEF Next, NoteOverlap
  <2>2. CASE PreauthStep /\ Next
    <3>1. CASE PreauthStarts
      BY <2>1, <2>2, <3>1 DEF PreauthStarts
    <3>2. CASE CreateTransaction
      BY <2>1, <2>2, <3>2 DEF CreateTransaction
    <3>3. CASE CreatePayment
      BY <2>1, <2>2, <3>3 DEF CreatePayment
    <3>4. CASE SavePreauth
      BY <2>1, <2>2, <3>4 DEF SavePreauth
    <3>5. CASE FindPending
      BY <2>1, <2>2, <3>5 DEF FindPending
    <3>6. CASE MarkPending
      BY <2>1, <2>2, <3>6 DEF MarkPending
    <3>7. CASE RejectPreauth
      BY <2>1, <2>2, <3>7 DEF RejectPreauth
    <3>8. CASE EmvDataAddThrows
      BY <2>1, <2>2, <3>8 DEF EmvDataAddThrows
    <3> QED
      BY <2>2, <3>1, <3>2, <3>3, <3>4, <3>5, <3>6, <3>7, <3>8 DEF PreauthStep
  <2>3. CASE StorePending /\ Next
    BY <2>1, <2>3 DEF StorePending
  <2>4. ASSUME NEW c \in Clients, NEW o \in {"capture", "cancel", "refund"},
               CallApi(c, o), Next
        PROVE  TypeOK'
    BY <2>1, <2>4 DEF CallApi
  <2>5. ASSUME NEW a \in Handlers, HandlerStep(a), Next PROVE TypeOK'
    <3>1. CASE CheckPending(a)
      BY <2>1, <2>5, <3>1 DEF CheckPending
    <3>2. CASE CheckTx(a)
      BY <2>1, <2>5, <3>2 DEF CheckTx
    <3>3. CASE CheckRow(a)
      BY <2>1, <2>5, <3>3 DEF CheckRow
    <3>4. ASSUME NEW acts \in BOOLEAN, NEW answer \in {"ok", "failure", "thrown"},
                 Call(a, acts, answer)
          PROVE  TypeOK'
      BY <2>1, <2>5, <3>4, MoneyMoves DEF Call
    <3>5. CASE SaveCapture(a)
      BY <2>1, <2>5, <3>5 DEF SaveCapture, CaptureStatus
    <3>6. CASE SaveCancel(a)
      BY <2>1, <2>5, <3>6 DEF SaveCancel, CancelStatus
    <3>7. CASE SaveRefund(a)
      BY <2>1, <2>5, <3>7 DEF SaveRefund, RefundStatus
    <3>8. CASE EnqueueRevenue(a)
      BY <2>1, <2>5, <3>8 DEF EnqueueRevenue
    <3>9. CASE SaveCaptureLog(a)
      BY <2>1, <2>5, <3>9 DEF SaveCaptureLog
    <3>10. CASE SaveCapturedTx(a)
      <4>1. /\ payStatus' \in {"none", "Accepted", "Rejected"}
            /\ status' \in {"none", "preauth", "authorized", "started", "finished",
                           "cancelled"}
            /\ paid' \in BOOLEAN /\ fin' \in BOOLEAN
        BY <3>10 DEF SaveCapturedTx, Pays
      <4> QED
        BY <2>1, <2>5, <3>10, <4>1 DEF SaveCapturedTx
    <3>11. CASE SaveCancelledTx(a)
      BY <2>1, <2>5, <3>11 DEF SaveCancelledTx
    <3> QED
      BY <2>5, <3>1, <3>2, <3>3, <3>4, <3>5, <3>6, <3>7, <3>8, <3>9, <3>10, <3>11
      DEF HandlerStep
  <2>6. CASE WorkerStep /\ Next
    <3>1. ASSUME NEW p \in BOOLEAN, TakeJob(p) PROVE TypeOK'
      <4>1. pc' \in [Actors -> Labels] /\ op' \in [Actors -> Operations]
        BY <3>1 DEF TakeJob
      <4>2. result' \in [Actors -> {"none", "ok", "failure", "thrown"}]
        BY <3>1 DEF TakeJob
      <4>3. UNCHANGED <<txVars, rowVars, logVars, queueVars, boundVars, seen, money,
                        interrupted>>
        BY <3>1 DEF TakeJob
      <4> QED
        BY <2>1, <2>6, <4>1, <4>2, <4>3
    <3>2. CASE ReportCapture
      <4>1. payStatus' \in {"none", "Accepted", "Rejected"}
        BY <3>2 DEF ReportCapture
      <4> QED
        BY <2>1, <2>6, <3>2, <4>1 DEF ReportCapture
    <3>3. CASE EndJob
      BY <2>1, <2>6, <3>3 DEF EndJob, JobsAfterStop
    <3> QED
      BY <2>6, <3>1, <3>2, <3>3 DEF WorkerStep
  <2>7. CASE SyncRevenue /\ Next
    BY <2>1, <2>7 DEF SyncRevenue, Documented
  <2>8. CASE ChargerStep /\ Next
    <3>1. CASE AuthorizeFinds \/ StartFinds
      <4>1. pc' \in [Actors -> Labels]
        BY <3>1 DEF AuthorizeFinds, StartFinds
      <4> QED
        BY <2>1, <2>8, <3>1, <4>1 DEF AuthorizeFinds, StartFinds
    <3>2. CASE Authorizes
      BY <2>1, <2>8, <3>2 DEF Authorizes
    <3>3. CASE Starts
      BY <2>1, <2>8, <3>3 DEF Starts
    <3>4. ASSUME NEW p \in BOOLEAN, Stops(p) PROVE TypeOK'
      BY <2>1, <2>8, <3>4 DEF Stops
    <3> QED
      BY <2>8, <3>1, <3>2, <3>3, <3>4 DEF ChargerStep
  <2>9. ASSUME NEW a \in {"charger", "cron"}, QueueStop(a), Next PROVE TypeOK'
    BY <2>1, <2>9 DEF QueueStop
  <2>10. CASE (CronStep \/ NextPreauthFinds) /\ Next
    <3>1. CASE CronFinds
      <4>1. Plan \in {"stop", "cancel", "pay"}
        BY DEF Plan
      <4> QED
        BY <2>1, <2>10, <3>1, <4>1 DEF CronFinds
    <3>2. CASE CronLogs
      BY <2>1, <2>10, <3>2 DEF CronLogs
    <3>3. CASE CronStops
      BY <2>1, <2>10, <3>3 DEF CronStops
    <3>4. CASE NextPreauthFinds
      BY <2>1, <2>10, <3>4 DEF NextPreauthFinds
    <3> QED
      BY <2>10, <3>1, <3>2, <3>3, <3>4 DEF CronStep
  <2>11. ASSUME NEW s \in {"cron", "next"}, SweepStep(s), Next PROVE TypeOK'
    BY <2>1, <2>11 DEF SweepStep, SweepTx, SweepRow, SweptRow
  <2>12. CASE Crash /\ Next
    BY <2>1, <2>12 DEF Crash
  <2>13. CASE UNCHANGED vars
    BY <2>13 DEF vars
  <2> QED
    BY <2>2, <2>3, <2>4, <2>5, <2>6, <2>7, <2>8, <2>9, <2>10, <2>11, <2>12, <2>13
    DEF Next, Step
<1> QED
  BY <1>1, <1>2, PTL DEF Spec, SafeSpec

------------------------------------------------------------------------------
\* What a handler holds between its reads and its writes is backed as well: an
\* "ok" by the provider's move, a payment status it read by the money it stands
\* for. The labels below belong to captures only, and a client starts with nothing.
HeldIsBacked ==
  \A a \in Handlers :
    /\ result[a] = "ok" /\ op[a] = "capture" => Captured
    /\ result[a] = "ok" /\ op[a] = "refund" => money = "refunded"
    /\ seen[a] = "Processed" => Captured
    /\ seen[a] = "Refunded" => money = "refunded"
    /\ pc[a] \in {"enqueue", "saveLog"} => op[a] = "capture"
    /\ a \in Clients /\ pc[a] = "idle" => result[a] = "none"

MoneyInv == BooksBackedByMoney /\ HeldIsBacked

\* Whatever a handler writes, it writes what it holds.
LEMMA MoneyHolds == Spec => []MoneyInv
<1>1. Init => MoneyInv
  BY DEF Init, MoneyInv, BooksBackedByMoney, HeldIsBacked
<1>2. TypeOK /\ MoneyInv /\ [Next]_vars => MoneyInv'
  <2> SUFFICES ASSUME TypeOK, MoneyInv, [Next]_vars PROVE MoneyInv'
    OBVIOUS
  <2> USE PaymentAssumption, EndIsLabel
      DEF MoneyInv, BooksBackedByMoney, HeldIsBacked, Captured, TypeOK
  <2>2. CASE PreauthStep
    <3>1. CASE PreauthStarts
      BY <3>1 DEF PreauthStarts
    <3>2. CASE CreateTransaction
      BY <3>2 DEF CreateTransaction
    <3>3. CASE CreatePayment
      BY <3>3 DEF CreatePayment
    <3>4. CASE SavePreauth
      BY <3>4 DEF SavePreauth
    <3>5. CASE FindPending
      BY <3>5 DEF FindPending
    <3>6. CASE MarkPending
      BY <3>6 DEF MarkPending
    <3>7. CASE RejectPreauth
      BY <3>7 DEF RejectPreauth
    <3>8. CASE EmvDataAddThrows
      BY <3>8 DEF EmvDataAddThrows
    <3> QED
      BY <2>2, <3>1, <3>2, <3>3, <3>4, <3>5, <3>6, <3>7, <3>8 DEF PreauthStep
  <2>3. CASE StorePending
    BY <2>3 DEF StorePending
  <2>4. ASSUME NEW c \in Clients, NEW o \in {"capture", "cancel", "refund"}, CallApi(c, o)
        PROVE  MoneyInv'
    BY <2>4 DEF CallApi
  <2>5. ASSUME NEW a \in Handlers, HandlerStep(a)
        PROVE  MoneyInv'
    <3>1. CASE CheckPending(a)
      BY <3>1 DEF CheckPending
    <3>2. CASE CheckTx(a)
      BY <3>2 DEF CheckTx
    <3>3. CASE CheckRow(a)
      BY <3>3 DEF CheckRow
    <3>4. ASSUME NEW acts \in BOOLEAN, NEW answer \in {"ok", "failure", "thrown"},
                 Call(a, acts, answer)
          PROVE  MoneyInv'
      BY <3>4, MoneyMoves DEF Call
    <3>5. CASE SaveCapture(a)
      BY <3>5 DEF SaveCapture, CaptureStatus
    <3>6. CASE SaveCancel(a)
      BY <3>6 DEF SaveCancel, CancelStatus
    <3>7. CASE SaveRefund(a)
      BY <3>7 DEF SaveRefund, RefundStatus
    <3>8. CASE EnqueueRevenue(a)
      BY <3>8 DEF EnqueueRevenue
    <3>9. CASE SaveCaptureLog(a)
      BY <3>9 DEF SaveCaptureLog
    <3>10. CASE SaveCapturedTx(a)
      BY <3>10 DEF SaveCapturedTx, Pays
    <3>11. CASE SaveCancelledTx(a)
      BY <3>11 DEF SaveCancelledTx
    <3> QED
      BY <2>5, <3>1, <3>2, <3>3, <3>4, <3>5, <3>6, <3>7, <3>8, <3>9, <3>10, <3>11
      DEF HandlerStep
  <2>6. CASE WorkerStep
    <3>1. ASSUME NEW p \in BOOLEAN, TakeJob(p) PROVE MoneyInv'
      BY <3>1 DEF TakeJob
    <3>2. CASE ReportCapture
      BY <3>2 DEF ReportCapture
    <3>3. CASE EndJob
      BY <3>3 DEF EndJob, JobsAfterStop
    <3> QED
      BY <2>6, <3>1, <3>2, <3>3 DEF WorkerStep
  <2>7. CASE SyncRevenue
    BY <2>7 DEF SyncRevenue, Documented
  <2>8. CASE ChargerStep
    BY <2>8 DEF ChargerStep, AuthorizeFinds, StartFinds, Authorizes, Starts, Stops
  <2>9. ASSUME NEW a \in {"charger", "cron"}, QueueStop(a)
        PROVE  MoneyInv'
    BY <2>9 DEF QueueStop
  <2>10. CASE CronStep \/ NextPreauthFinds
    BY <2>10 DEF CronStep, CronFinds, CronLogs, CronStops, NextPreauthFinds
  <2>11. ASSUME NEW s \in {"cron", "next"}, SweepStep(s)
         PROVE  MoneyInv'
    BY <2>11 DEF SweepStep, SweepTx, SweepRow, SweptRow
  <2>12. CASE Crash
    BY <2>12 DEF Crash
  <2>13. CASE UNCHANGED vars
    BY <2>13 DEF vars
  <2> QED
    BY <2>2, <2>3, <2>4, <2>5, <2>6, <2>7, <2>8, <2>9, <2>10, <2>11, <2>12, <2>13
    DEF Next, Step
<1> QED
  BY <1>1, <1>2, TypeCorrect, PTL DEF Spec, SafeSpec

\* The books of the session claim no money the provider did not move, whatever
\* overlaps, throws or crashes.
THEOREM BooksAreBacked == Spec => []BooksBackedByMoney
<1>1. MoneyInv => BooksBackedByMoney
  BY DEF MoneyInv
<1> QED
  BY <1>1, MoneyHolds, PTL

------------------------------------------------------------------------------
\* The handler of a successful capture has documented it when it comes to the session.
DocumentFirst ==
  \A a \in Handlers :
    pc[a] = "saveTx" /\ op[a] = "capture" /\ result[a] = "ok" => captureLog

\* Apart from the steps the promise names, nothing touches money or records.
Quiet == UNCHANGED <<money, captureLog, paid, revenue>>
LEMMA QuietSteps ==
  ASSUME Next
  PROVE  \/ Quiet \/ SyncRevenue
         \/ \E a \in Handlers :
              \/ \E acts \in BOOLEAN, answer \in {"ok", "failure", "thrown"} : Call(a, acts, answer)
              \/ SaveCaptureLog(a) \/ SaveCapturedTx(a)
<1> USE DEF Quiet
<1>1. CASE PreauthStep \/ StorePending
  BY <1>1 DEF PreauthStep, PreauthStarts, CreateTransaction, CreatePayment, SavePreauth,
              EmvDataAddThrows, FindPending, MarkPending, RejectPreauth, StorePending
<1>2. ASSUME NEW c \in Clients, NEW o \in {"capture", "cancel", "refund"}, CallApi(c, o)
      PROVE  Quiet
  BY <1>2 DEF CallApi
<1>3. ASSUME NEW a \in Handlers,
             \/ CheckPending(a) \/ CheckTx(a) \/ CheckRow(a) \/ EnqueueRevenue(a)
             \/ SaveCapture(a) \/ SaveCancel(a) \/ SaveRefund(a) \/ SaveCancelledTx(a)
      PROVE  Quiet
  BY <1>3 DEF CheckPending, CheckTx, CheckRow, EnqueueRevenue, SaveCapture, SaveCancel,
              SaveRefund, SaveCancelledTx
<1>4. CASE WorkerStep
  BY <1>4 DEF WorkerStep, TakeJob, ReportCapture, EndJob
<1>5. CASE ChargerStep
  BY <1>5 DEF ChargerStep, AuthorizeFinds, StartFinds, Authorizes, Starts, Stops
<1>6. ASSUME NEW a \in {"charger", "cron"}, QueueStop(a) PROVE Quiet
  BY <1>6 DEF QueueStop
<1>7. CASE CronStep \/ NextPreauthFinds
  BY <1>7 DEF CronStep, CronFinds, CronLogs, CronStops, NextPreauthFinds
<1>8. ASSUME NEW s \in {"cron", "next"}, SweepStep(s) PROVE Quiet
  BY <1>8 DEF SweepStep, SweepTx, SweepRow
<1>9. CASE Crash
  BY <1>9 DEF Crash
<1> HIDE DEF Quiet
<1> QED
  BY <1>1, <1>2, <1>3, <1>4, <1>5, <1>6, <1>7, <1>8, <1>9 DEF Next, Step, HandlerStep

\* It keeps that, for nobody takes a document away or changes another one's answer.
LEMMA DocumentStays ==
  ASSUME TypeOK, DocumentFirst, [Next]_vars
  PROVE  DocumentFirst'
<1> USE PaymentAssumption, EndIsLabel DEF DocumentFirst, TypeOK
<1>1. CASE PreauthStep
  BY <1>1 DEF PreauthStep, PreauthStarts, CreateTransaction, CreatePayment, SavePreauth,
              EmvDataAddThrows, FindPending, MarkPending, RejectPreauth
<1>2. CASE StorePending
  BY <1>2 DEF StorePending
<1>3. ASSUME NEW c \in Clients, NEW o \in {"capture", "cancel", "refund"}, CallApi(c, o)
      PROVE  DocumentFirst'
  BY <1>3 DEF CallApi
<1>4. ASSUME NEW a \in Handlers, CheckPending(a) \/ CheckTx(a) \/ CheckRow(a)
      PROVE  DocumentFirst'
  BY <1>4 DEF CheckPending, CheckTx, CheckRow
<1>5. ASSUME NEW a \in Handlers, NEW acts \in BOOLEAN,
             NEW answer \in {"ok", "failure", "thrown"}, Call(a, acts, answer)
      PROVE  DocumentFirst'
  BY <1>5 DEF Call
<1>6. ASSUME NEW a \in Handlers, SaveCapture(a) \/ SaveCancel(a) \/ SaveRefund(a)
      PROVE  DocumentFirst'
  BY <1>6 DEF SaveCapture, SaveCancel, SaveRefund
<1>7. ASSUME NEW a \in Handlers, EnqueueRevenue(a) \/ SaveCaptureLog(a)
      PROVE  DocumentFirst'
  BY <1>7 DEF EnqueueRevenue, SaveCaptureLog
<1>8. ASSUME NEW a \in Handlers, SaveCapturedTx(a) \/ SaveCancelledTx(a)
      PROVE  DocumentFirst'
  BY <1>8 DEF SaveCapturedTx, SaveCancelledTx
<1>9. CASE WorkerStep
  <2>1. ASSUME NEW p \in BOOLEAN, TakeJob(p) PROVE DocumentFirst'
    BY <2>1 DEF TakeJob
  <2>2. CASE ReportCapture \/ EndJob
    BY <2>2 DEF ReportCapture, EndJob
  <2> QED
    BY <1>9, <2>1, <2>2 DEF WorkerStep
<1>10. CASE SyncRevenue
  BY <1>10 DEF SyncRevenue
<1>11. CASE ChargerStep
  BY <1>11 DEF ChargerStep, AuthorizeFinds, StartFinds, Authorizes, Starts, Stops
<1>12. ASSUME NEW a \in {"charger", "cron"}, QueueStop(a) PROVE DocumentFirst'
  BY <1>12 DEF QueueStop
<1>13. CASE CronStep \/ NextPreauthFinds
  BY <1>13 DEF CronStep, CronFinds, CronLogs, CronStops, NextPreauthFinds
<1>14. ASSUME NEW s \in {"cron", "next"}, SweepStep(s) PROVE DocumentFirst'
  BY <1>14 DEF SweepStep, SweepTx, SweepRow
<1>15. CASE Crash
  BY <1>15 DEF Crash
<1>16. CASE UNCHANGED vars
  BY <1>16 DEF vars
<1>17. ASSUME NEW a \in Handlers, HandlerStep(a) PROVE DocumentFirst'
  BY <1>4, <1>5, <1>6, <1>7, <1>8, <1>17 DEF HandlerStep
<1> HIDE DEF DocumentFirst, TypeOK
<1> QED
  BY <1>1, <1>2, <1>3, <1>9, <1>10, <1>11, <1>12, <1>13, <1>14, <1>15, <1>16, <1>17
  DEF Next, Step

\* A step that keeps the books backed is one of the promise, or none.
LEMMA PromiseStep ==
  ASSUME TypeOK, MoneyInv, MoneyInv', DocumentFirst, [Next]_vars
  PROVE  [Promise!Next]_(Promise!vars)
<1>1. CASE Quiet
  <2>1. UNCHANGED <<money, Recorded>>
    BY <1>1 DEF Quiet, Recorded
  <2>2. Claimed' \in {"open", "Processed", "Refunded"} /\ Promise!Covers(Claimed')
    BY <1>1 DEF Claimed, Quiet, MoneyInv, BooksBackedByMoney, Captured, Promise!Covers, Promise!Taken
  <2> QED
    BY <2>1, <2>2 DEF Promise!Next, Promise!Claim
<1>2. ASSUME NEW a \in Handlers, NEW acts \in BOOLEAN,
             NEW answer \in {"ok", "failure", "thrown"}, Call(a, acts, answer)
      PROVE  [Promise!Next]_(Promise!vars)
  <2>1. UNCHANGED <<Claimed, Recorded>>
    BY <1>2 DEF Call, Claimed, Recorded
  <2>2. CASE acts
    <3>1. <<money, money'>> \in Promise!Moves
      BY <1>2, <2>2 DEF Call, Before, After, Promise!Moves
    <3> QED
      BY <2>1, <3>1 DEF Promise!Next, Promise!Move
  <2>3. CASE ~acts
    BY <1>2, <2>1, <2>3 DEF Call, Promise!vars
  <2> QED
    BY <2>2, <2>3
<1>3. ASSUME NEW a \in Handlers, SaveCaptureLog(a) PROVE [Promise!Next]_(Promise!vars)
  <2>1. UNCHANGED <<money, row, paid, revenue>> /\ (captureLog' <=> (captureLog \/ result[a] = "ok"))
    BY <1>3 DEF SaveCaptureLog
  <2>2. UNCHANGED Claimed
    BY <2>1 DEF Claimed
  <2>3. CASE captureLog' <=> captureLog
    BY <2>1, <2>2, <2>3 DEF Recorded, Promise!vars
  <2>4. CASE captureLog' /\ ~captureLog
    <3>1. Promise!Taken
      BY <2>1, <2>4 DEF MoneyInv, BooksBackedByMoney, Captured, Promise!Taken
    <3>2. Recorded' = Recorded \cup {"documented"}
      BY <2>1, <2>4 DEF Recorded
    <3> QED
      BY <2>1, <2>2, <3>1, <3>2 DEF Promise!Next, Promise!Document
  <2> QED
    BY <2>1, <2>3, <2>4 DEF TypeOK
<1>4. ASSUME NEW a \in Handlers, SaveCapturedTx(a) PROVE [Promise!Next]_(Promise!vars)
  <2>1. UNCHANGED <<money, row, captureLog, revenue>>
    BY <1>4 DEF SaveCapturedTx
  <2>2. UNCHANGED Claimed
    BY <2>1 DEF Claimed
  <2>3. CASE Pays(result[a])
    <3>1. "documented" \in Recorded
      BY <1>4, <2>3 DEF SaveCapturedTx, Pays, DocumentFirst, Recorded
    <3>2. paid'
      BY <1>4, <2>3 DEF SaveCapturedTx
    <3>3. Recorded' = Recorded \cup {"paid"}
      BY <2>1, <3>2 DEF Recorded
    <3> QED
      BY <2>1, <2>2, <3>1, <3>3 DEF Promise!Next, Promise!Record
  <2>4. CASE ~Pays(result[a])
    <3>1. paid' = paid
      BY <1>4, <2>4 DEF SaveCapturedTx
    <3> QED
      BY <2>1, <2>2, <3>1 DEF Recorded, Promise!vars
  <2> QED
    BY <2>3, <2>4
<1>5. CASE SyncRevenue
  <2>1. UNCHANGED <<money, row, captureLog, paid>> /\ (revenue' <=> (revenue \/ captureLog))
    BY <1>5 DEF SyncRevenue, Documented
  <2>2. UNCHANGED Claimed
    BY <2>1 DEF Claimed
  <2>3. CASE captureLog
    <3>1. "documented" \in Recorded /\ Recorded' = Recorded \cup {"revenue"}
      BY <2>1, <2>3 DEF Recorded
    <3> QED
      BY <2>1, <2>2, <3>1 DEF Promise!Next, Promise!Record
  <2>4. CASE ~captureLog
    BY <2>1, <2>2, <2>4 DEF Recorded, Promise!vars
  <2> QED
    BY <2>3, <2>4
<1>6. CASE UNCHANGED vars
  BY <1>6 DEF vars, Claimed, Recorded, Promise!vars
<1> QED
  BY <1>1, <1>2, <1>3, <1>4, <1>5, <1>6, QuietSteps

\* The money of a session and its books are those of PaymentPromise, whatever overlaps,
\* throws or crashes: the initial states map to initial states, every step to a step
\* or a stutter. What a handler holds (MoneyInv, DocumentFirst) gives the guards.
THEOREM KeepsPaymentPromise == Spec => BooksKeepPromise
<1>1. Init => Promise!Init
  BY DEF Init, Promise!Init, Claimed, Recorded
<1>2. Init => DocumentFirst
  BY DEF Init, DocumentFirst
<1>3. TypeOK /\ DocumentFirst /\ [Next]_vars => DocumentFirst'
  BY DocumentStays
<1>4. TypeOK /\ MoneyInv /\ MoneyInv' /\ DocumentFirst /\ [Next]_vars
        => [Promise!Next]_(Promise!vars)
  BY PromiseStep
<1> QED
  BY <1>1, <1>2, <1>3, <1>4, TypeCorrect, MoneyHolds, PTL
  DEF Spec, SafeSpec, BooksKeepPromise, Promise!Spec

------------------------------------------------------------------------------
\* Why a payment row only moves forward. The row exists once the preauthorisation
\* made it; each label belongs to its operations; and while nothing overlapped, one
\* actor at most is between its read and its writes, so the row is still the one it
\* read.
Labelled ==
  /\ pc["preauth"] \in {"idle", "create", "createRow"} => row = "none"
  /\ pc["preauth"] \in {"create", "createRow"} => op["preauth"] = "preauth"
  /\ \A a \in Actors : op[a] = "preauth" => a = "preauth"
  /\ \A a \in Handlers :
       /\ pc[a] = "checkPending" => op[a] = "capture"
       /\ pc[a] \in {"checkTx", "checkRow"} => op[a] \in {"cancel", "refund"}
       /\ pc[a] \in {"call", "saveRow"} /\ op[a] # "preauth" =>
            row # "none" /\ seen[a] # "none"
Alone == ~overlap => \A a, b \in Busy : a = b
RowAsRead ==
  ~overlap =>
    \A a \in Handlers :
      pc[a] \in {"call", "saveRow"} /\ op[a] # "preauth" =>
        \/ op[a] = "capture" /\ row = "Pending"
        \/ op[a] = "cancel" /\ row = "Pending" /\ seen[a] = "Pending"
        \/ op[a] = "refund" /\ row = "Processed" /\ seen[a] = "Processed"
SerialInv == Labelled /\ Alone /\ RowAsRead

\* Overlap is remembered, and without it two busy actors are one.
LEMMA OverlapNoted ==
  ASSUME TypeOK, [Next]_vars, Alone
  PROVE  Alone' /\ (~overlap' => ~overlap)
<1>1. CASE Next
  BY <1>1 DEF Next, NoteOverlap, Alone, TypeOK
<1>2. CASE UNCHANGED vars
  BY <1>2 DEF vars, Alone, Busy
<1> QED
  BY <1>1, <1>2

\* A step of SerialInv keeps it, and moves the row forward if it moves it.
LEMMA SerialStep ==
  ASSUME TypeOK, SerialInv, [Next]_vars
  PROVE  /\ SerialInv'
         /\ row' # row /\ ~overlap' => <<row, row'>> \in Forward
<1> DEFINE Good == /\ Labelled' /\ RowAsRead'
                   /\ row' # row /\ ~overlap' => <<row, row'>> \in Forward
<1>1. Alone' /\ (~overlap' => ~overlap)
  BY OverlapNoted DEF SerialInv
<1> USE PaymentAssumption, EndIsLabel, <1>1
    DEF SerialInv, Labelled, Alone, RowAsRead, Forward, Busy, TypeOK
<1>2. CASE PreauthStep
  <2>1. CASE PreauthStarts
    BY <2>1 DEF PreauthStarts
  <2>2. CASE CreateTransaction
    BY <2>2 DEF CreateTransaction
  <2>3. CASE CreatePayment
    <3>1. row = "none" /\ row' = "Pending"
      BY <2>3 DEF CreatePayment
    <3>2. \A a \in Handlers : ~(pc[a] \in {"call", "saveRow"} /\ op[a] # "preauth")
      BY <3>1
    <3>3. Labelled'
      BY <2>3, <3>1 DEF CreatePayment
    <3>4. RowAsRead'
      BY <2>3, <3>2 DEF CreatePayment
    <3> QED
      BY <3>1, <3>3, <3>4
  <2>4. CASE SavePreauth
    BY <2>4 DEF SavePreauth
  <2>5. CASE FindPending
    BY <2>5 DEF FindPending
  <2>6. CASE MarkPending
    BY <2>6 DEF MarkPending
  <2>7. CASE RejectPreauth
    BY <2>7 DEF RejectPreauth
  <2>8. CASE EmvDataAddThrows
    BY <2>8 DEF EmvDataAddThrows
  <2> QED
    BY <1>2, <2>1, <2>2, <2>3, <2>4, <2>5, <2>6, <2>7, <2>8 DEF PreauthStep
<1>3. CASE StorePending
  BY <1>3 DEF StorePending
<1>4. ASSUME NEW c \in Clients, NEW o \in {"capture", "cancel", "refund"}, CallApi(c, o)
      PROVE  Good
  BY <1>4 DEF CallApi
<1>5. ASSUME NEW a \in Handlers, HandlerStep(a) PROVE Good
  <2>1. CASE CheckPending(a)
    BY <2>1 DEF CheckPending, IsCapturable
  <2>2. CASE CheckTx(a)
    BY <2>2 DEF CheckTx
  <2>3. CASE CheckRow(a)
    BY <2>3 DEF CheckRow, CanCancel, CanRefund
  <2>4. ASSUME NEW acts \in BOOLEAN, NEW answer \in {"ok", "failure", "thrown"},
               Call(a, acts, answer)
        PROVE  Good
    BY <2>4 DEF Call
  <2>5. CASE SaveCapture(a)
    <3>1. a \in Busy
      BY <2>5 DEF SaveCapture
    <3>2. Labelled'
      BY <2>5, <3>1 DEF SaveCapture, CaptureStatus
    <3>3. ~overlap' => \A b \in Handlers \ {a} :
                          ~(pc[b] \in {"call", "saveRow"} /\ op[b] # "preauth")
      BY <2>5, <3>1 DEF SaveCapture
    <3>4. RowAsRead'
      BY <2>5, <3>3 DEF SaveCapture
    <3>5. row' # row /\ ~overlap' => <<row, row'>> \in Forward
      BY <2>5 DEF SaveCapture, CaptureStatus
    <3> QED
      BY <3>2, <3>4, <3>5
  <2>6. CASE SaveCancel(a)
    <3>1. a \in Busy
      BY <2>6 DEF SaveCancel
    <3>2. Labelled'
      BY <2>6, <3>1 DEF SaveCancel, CancelStatus
    <3>3. ~overlap' => \A b \in Handlers \ {a} :
                          ~(pc[b] \in {"call", "saveRow"} /\ op[b] # "preauth")
      BY <2>6, <3>1 DEF SaveCancel
    <3>4. RowAsRead'
      BY <2>6, <3>3 DEF SaveCancel
    <3>5. row' # row /\ ~overlap' => <<row, row'>> \in Forward
      BY <2>6 DEF SaveCancel, CancelStatus
    <3> QED
      BY <3>2, <3>4, <3>5
  <2>7. CASE SaveRefund(a)
    <3>1. a \in Busy
      BY <2>7 DEF SaveRefund
    <3>2. Labelled'
      BY <2>7, <3>1 DEF SaveRefund, RefundStatus
    <3>3. ~overlap' => \A b \in Handlers \ {a} :
                          ~(pc[b] \in {"call", "saveRow"} /\ op[b] # "preauth")
      BY <2>7, <3>1 DEF SaveRefund
    <3>4. RowAsRead'
      BY <2>7, <3>3 DEF SaveRefund
    <3>5. row' # row /\ ~overlap' => <<row, row'>> \in Forward
      BY <2>7 DEF SaveRefund, RefundStatus
    <3> QED
      BY <3>2, <3>4, <3>5
  <2>8. CASE EnqueueRevenue(a)
    BY <2>8 DEF EnqueueRevenue
  <2>9. CASE SaveCaptureLog(a)
    BY <2>9 DEF SaveCaptureLog
  <2>10. CASE SaveCapturedTx(a)
    BY <2>10 DEF SaveCapturedTx
  <2>11. CASE SaveCancelledTx(a)
    BY <2>11 DEF SaveCancelledTx
  <2> QED
    BY <1>5, <2>1, <2>2, <2>3, <2>4, <2>5, <2>6, <2>7, <2>8, <2>9, <2>10, <2>11
    DEF HandlerStep
<1>6. CASE WorkerStep
  <2>1. ASSUME NEW p \in BOOLEAN, TakeJob(p) PROVE Good
    BY <2>1 DEF TakeJob
  <2>2. CASE ReportCapture \/ EndJob
    BY <2>2 DEF ReportCapture, EndJob
  <2> QED
    BY <1>6, <2>1, <2>2 DEF WorkerStep
<1>7. CASE SyncRevenue
  BY <1>7 DEF SyncRevenue
<1>8. CASE ChargerStep
  BY <1>8 DEF ChargerStep, AuthorizeFinds, StartFinds, Authorizes, Starts, Stops
<1>9. ASSUME NEW a \in {"charger", "cron"}, QueueStop(a) PROVE Good
  BY <1>9 DEF QueueStop
<1>10. CASE CronStep \/ NextPreauthFinds
  <2>1. Plan \in {"stop", "cancel", "pay"}
    BY DEF Plan
  <2> QED
    BY <1>10, <2>1 DEF CronStep, CronFinds, CronLogs, CronStops, NextPreauthFinds
<1>11. ASSUME NEW s \in {"cron", "next"}, SweepStep(s) PROVE Good
  BY <1>11 DEF SweepStep, SweepTx, SweepRow, SweptRow
<1>12. CASE Crash
  BY <1>12 DEF Crash
<1>13. CASE UNCHANGED vars
  BY <1>13 DEF vars
<1> QED
  BY <1>2, <1>3, <1>4, <1>5, <1>6, <1>7, <1>8, <1>9, <1>10, <1>11, <1>12, <1>13
  DEF Next, Step

\* A payment row only moves forward unless two actors overlapped.
THEOREM RowsMoveForward == Spec => RowMovesForward
<1>1. Init => SerialInv
  BY DEF Init, SerialInv, Labelled, Alone, RowAsRead, Busy
<1>2. TypeOK /\ SerialInv /\ [Next]_vars => SerialInv'
  BY SerialStep
<1>3. TypeOK /\ SerialInv /\ [Next]_vars
        => [row' # row /\ ~overlap' => <<row, row'>> \in Forward]_vars
  BY SerialStep
<1> QED
  BY <1>1, <1>2, <1>3, TypeCorrect, PTL DEF Spec, SafeSpec, RowMovesForward

------------------------------------------------------------------------------
(* Why the books are complete when nothing overlapped and nothing was interrupted:  *)
(* what a row does not say yet, the one actor at work holds an answer for.          *)

Succeeded(a, o, labels) == op[a] = o /\ result[a] = "ok" /\ pc[a] \in labels
Capturing == {"saveRow", "enqueue", "saveLog", "saveTx"}
Unsaved == \E a \in Handlers : op[a] # "preauth" /\ result[a] = "ok" /\ pc[a] = "saveRow"
Unpaid == \E a \in Handlers : Succeeded(a, "capture", Capturing)
Uncancelled == \E a \in Handlers : Succeeded(a, "cancel", {"saveRow", "saveTx"})

\* The payment row, the session's payment and its status tell what the provider did.
RowTells ==
  \/ Unsaved
  \/ /\ row = "Processed" <=> money = "captured"
     /\ row = "Refunded" <=> money = "refunded"
PaidTells ==
  /\ Unpaid \/ (paid <=> Captured)
  /\ paid => payStatus = "Accepted" /\ status \in {"finished", "cancelled"}
  /\ paid /\ begun => status = "finished"
ReleaseTells ==
  Uncancelled \/ (money = "released" => row = "Cancelled" /\ status = "cancelled")

\* The one at work holds what the provider answered.
AtWork ==
  \A a \in Handlers :
    /\ pc[a] \in {"call", "saveRow"} => op[a] \in {"preauth", "capture", "cancel", "refund"}
    /\ pc[a] \in {"enqueue", "saveLog"} => op[a] = "capture"
    /\ pc[a] = "saveTx" => op[a] \in {"capture", "cancel"}
    /\ pc[a] = "enqueue" => result[a] = "ok"
    /\ op[a] # "preauth" /\ result[a] = "ok" /\ pc[a] = "saveRow" => money = After(op[a])
    /\ Succeeded(a, "capture", Capturing) => money = "captured" /\ ~paid
    /\ op[a] = "capture" /\ pc[a] \in {"enqueue", "saveLog", "saveTx"} =>
         row = IF result[a] = "ok" THEN "Processed" ELSE "Pending"
    /\ op[a] = "cancel" /\ pc[a] = "saveTx" =>
         result[a] = "ok" /\ money = "released" /\ row = "Cancelled"

\* What the others made sure of; and before the card is authorised there is no money.
Opening ==
  \/ pc["preauth"] \in {"idle", "create", "createRow", "reject"}
  \/ pc["preauth"] = "call" /\ op["preauth"] = "preauth"
  \/ pc["preauth"] = "saveRow" /\ op["preauth"] = "preauth" /\ result["preauth"] # "ok"
Others ==
  /\ pc["charger"] \in {"authorize", "startAuthorize", "start"} => ~paid /\ money # "released"
  /\ \A s \in {"cron", "next"} : pc[s] = "cancelTx" => ~paid \/ ~begun
  /\ pc["cron"] = "logs" /\ op["cron"] = "cancel" => ~paid \/ ~begun
  /\ Opening => money = "none"

Agreed == RowTells /\ PaidTells /\ ReleaseTells /\ AtWork /\ Others
AgreeInv == Undisturbed => Agreed

\* An interruption stays noted.
LEMMA InterruptionKept == [Next]_vars /\ interrupted => interrupted'
<1> SUFFICES ASSUME [Next]_vars, interrupted PROVE interrupted'
  OBVIOUS
<1>1. CASE PreauthStep \/ StorePending
  BY <1>1 DEF PreauthStep, PreauthStarts, CreateTransaction, CreatePayment, SavePreauth,
       FindPending, MarkPending, RejectPreauth, EmvDataAddThrows, StorePending
<1>2. CASE \E c \in Clients, o \in {"capture", "cancel", "refund"} : CallApi(c, o)
  BY <1>2 DEF CallApi
<1>3. CASE \E a \in Handlers : HandlerStep(a)
  BY <1>3 DEF HandlerStep, CheckPending, CheckTx, CheckRow, Call, SaveCapture, SaveCancel,
       SaveRefund, EnqueueRevenue, SaveCaptureLog, SaveCapturedTx, SaveCancelledTx
<1>4. CASE WorkerStep \/ SyncRevenue
  BY <1>4 DEF WorkerStep, TakeJob, ReportCapture, EndJob, SyncRevenue
<1>5. CASE ChargerStep \/ \E a \in {"charger", "cron"} : QueueStop(a)
  BY <1>5 DEF ChargerStep, AuthorizeFinds, StartFinds, Authorizes, Starts, Stops, QueueStop
<1>6. CASE CronStep \/ NextPreauthFinds \/ \E s \in {"cron", "next"} : SweepStep(s)
  BY <1>6 DEF CronStep, CronFinds, CronLogs, CronStops, NextPreauthFinds, SweepStep,
       SweepTx, SweepRow
<1>7. CASE Crash
  BY <1>7 DEF Crash
<1>8. CASE UNCHANGED vars
  BY <1>8 DEF vars
<1> QED
  BY <1>1, <1>2, <1>3, <1>4, <1>5, <1>6, <1>7, <1>8 DEF Next, Step

\* A step keeps it.
LEMMA AgreeStep ==
  ASSUME TypeOK, SerialInv, SerialInv', AgreeInv, [Next]_vars
  PROVE  AgreeInv'
<1> SUFFICES ASSUME Undisturbed' PROVE Agreed'
  BY DEF AgreeInv
<1>1. ~overlap /\ ~overlap'
  BY OverlapNoted DEF SerialInv, Undisturbed
<1>2. \A a, b \in Busy : a = b
  BY <1>1 DEF SerialInv, Alone
<1>3. \A a, b \in Busy' : a = b
  BY <1>1 DEF SerialInv, Alone
<1>4. Labelled /\ Labelled' /\ RowAsRead
  BY DEF SerialInv
<1>5. interrupted => interrupted'
  BY InterruptionKept
<1>6. ~interrupted /\ Agreed
  BY <1>1, <1>5 DEF Undisturbed, AgreeInv
<1> USE PaymentAssumption, EndIsLabel, <1>1, <1>2, <1>3, <1>4, <1>6
    DEF Labelled, RowAsRead, Busy, TypeOK, Undisturbed, Agreed, RowTells, PaidTells,
        ReleaseTells, AtWork, Others, Opening, Captured,
        Unsaved, Unpaid, Uncancelled, Succeeded, Capturing
<1>7. CASE PreauthStep
  <2>1. CASE PreauthStarts
    BY <2>1 DEF PreauthStarts
  <2>2. CASE CreateTransaction
    BY <2>2 DEF CreateTransaction
  <2>3. CASE CreatePayment
    BY <2>3 DEF CreatePayment
  <2>4. CASE SavePreauth
    BY <2>4 DEF SavePreauth
  <2>5. CASE FindPending
    BY <2>5 DEF FindPending
  <2>6. CASE MarkPending
    BY <2>6 DEF MarkPending
  <2>7. CASE RejectPreauth
    BY <2>7 DEF RejectPreauth
  <2>8. CASE EmvDataAddThrows
    BY <2>8 DEF EmvDataAddThrows
  <2> QED
    BY <1>7, <2>1, <2>2, <2>3, <2>4, <2>5, <2>6, <2>7, <2>8 DEF PreauthStep
<1>8. CASE StorePending
  BY <1>8 DEF StorePending
<1>9. ASSUME NEW c \in Clients, NEW o \in {"capture", "cancel", "refund"}, CallApi(c, o)
      PROVE  Agreed'
  BY <1>9 DEF CallApi
<1>10. ASSUME NEW a \in Handlers, HandlerStep(a) PROVE Agreed'
  <2>1. CASE CheckPending(a)
    BY <2>1 DEF CheckPending, IsCapturable
  <2>2. CASE CheckTx(a)
    BY <2>2 DEF CheckTx
  <2>3. CASE CheckRow(a)
    BY <2>3 DEF CheckRow, CanCancel, CanRefund
  <2>4. ASSUME NEW acts \in BOOLEAN, NEW answer \in {"ok", "failure", "thrown"},
               Call(a, acts, answer)
        PROVE  Agreed'
    BY <2>4 DEF Call, Before, After
  <2>5. CASE SaveCapture(a)
    BY <2>5 DEF SaveCapture, CaptureStatus, After
  <2>6. CASE SaveCancel(a)
    BY <2>6 DEF SaveCancel, CancelStatus, After
  <2>7. CASE SaveRefund(a)
    BY <2>7 DEF SaveRefund, RefundStatus, After
  <2>8. CASE EnqueueRevenue(a)
    BY <2>8 DEF EnqueueRevenue
  <2>9. CASE SaveCaptureLog(a)
    BY <2>9 DEF SaveCaptureLog
  <2>10. CASE SaveCapturedTx(a)
    BY <2>10 DEF SaveCapturedTx, Pays
  <2>11. CASE SaveCancelledTx(a)
    BY <2>11 DEF SaveCancelledTx
  <2> QED
    BY <1>10, <2>1, <2>2, <2>3, <2>4, <2>5, <2>6, <2>7, <2>8, <2>9, <2>10, <2>11
    DEF HandlerStep
<1>11. CASE WorkerStep
  <2>1. ASSUME NEW p \in BOOLEAN, TakeJob(p) PROVE Agreed'
    <3>1. \E r \in {"none", "failure"}, l \in {"checkPending", "report"} :
            /\ op' = [op EXCEPT !["worker"] = "capture"]
            /\ result' = [result EXCEPT !["worker"] = r]
            /\ pc' = [pc EXCEPT !["worker"] = l]
      BY <2>1 DEF TakeJob, Goto
    <3>2. pc["worker"] = "idle" /\ UNCHANGED <<txVars, rowVars, money>>
      BY <2>1 DEF TakeJob, At
    <3> QED
      BY <3>1, <3>2 DEF txVars, rowVars
  <2>2. CASE ReportCapture
    BY <2>2 DEF ReportCapture
  <2>3. CASE EndJob
    BY <2>3 DEF EndJob
  <2> QED
    BY <1>11, <2>1, <2>2, <2>3 DEF WorkerStep
<1>12. CASE SyncRevenue
  BY <1>12 DEF SyncRevenue
<1>13. CASE ChargerStep
  <2>1. CASE AuthorizeFinds \/ StartFinds
    BY <2>1 DEF AuthorizeFinds, StartFinds
  <2>2. CASE Authorizes
    BY <2>2 DEF Authorizes
  <2>3. CASE Starts
    BY <2>3 DEF Starts
  <2>4. ASSUME NEW p \in BOOLEAN, Stops(p) PROVE Agreed'
    BY <2>4 DEF Stops
  <2> QED
    BY <1>13, <2>1, <2>2, <2>3, <2>4 DEF ChargerStep
<1>14. ASSUME NEW a \in {"charger", "cron"}, QueueStop(a) PROVE Agreed'
  BY <1>14 DEF QueueStop
<1>15. CASE CronStep \/ NextPreauthFinds
  <2>1. CASE CronFinds
    BY <2>1 DEF CronFinds, Plan
  <2>2. CASE CronLogs
    BY <2>2 DEF CronLogs
  <2>3. CASE CronStops
    BY <2>3 DEF CronStops
  <2>4. CASE NextPreauthFinds
    BY <2>4 DEF NextPreauthFinds
  <2> QED
    BY <1>15, <2>1, <2>2, <2>3, <2>4 DEF CronStep
<1>16. ASSUME NEW s \in {"cron", "next"}, SweepStep(s) PROVE Agreed'
  <2>1. CASE SweepTx(s)
    BY <2>1 DEF SweepTx
  <2>2. CASE SweepRow(s)
    BY <2>2 DEF SweepRow, SweptRow
  <2> QED
    BY <1>16, <2>1, <2>2 DEF SweepStep
<1>17. CASE Crash
  BY <1>17 DEF Crash
<1>18. CASE UNCHANGED vars
  BY <1>18 DEF vars
<1> QED
  BY <1>7, <1>8, <1>9, <1>10, <1>11, <1>12, <1>13, <1>14, <1>15, <1>16, <1>17, <1>18
  DEF Next, Step

\* Once nobody is at work, the books say what the provider did, unless two actors
\* overlapped or something was interrupted.
THEOREM BooksDoAgree == Spec => []BooksAgree
<1>1. Init => SerialInv /\ AgreeInv
  BY DEF Init, SerialInv, Labelled, Alone, RowAsRead, Busy, AgreeInv, Agreed, RowTells,
         PaidTells, ReleaseTells, AtWork, Others, Captured, Succeeded
<1>2. TypeOK /\ SerialInv /\ [Next]_vars => SerialInv'
  BY SerialStep
<1>3. TypeOK /\ SerialInv /\ SerialInv' /\ AgreeInv /\ [Next]_vars => AgreeInv'
  BY AgreeStep
<1>4. TypeOK /\ AgreeInv => BooksAgree
  <2> SUFFICES ASSUME TypeOK, Undisturbed, Busy = {}, Agreed PROVE BooksAgree
    BY DEF AgreeInv, BooksAgree
  <2>1. ~Unsaved /\ ~Unpaid /\ ~Uncancelled
    BY DEF Unsaved, Unpaid, Uncancelled, Succeeded, Capturing, Busy
  <2> QED
    BY <2>1 DEF Agreed, RowTells, PaidTells, ReleaseTells, BooksAgree
<1> QED
  BY <1>1, <1>2, <1>3, <1>4, TypeCorrect, PTL DEF Spec, SafeSpec
=============================================================================
