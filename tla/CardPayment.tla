---------------------------- MODULE CardPayment ----------------------------
(***************************************************************************)
(* The money of one card-paid charging session: its ocpp_transactions row, *)
(* its payment_transactions row, and what the payment provider really did. *)
(*                                                                         *)
(* Preauthorisation, capture, cancellation and refund are HTTP handlers    *)
(* (apps/csms/modules/payment/payment.service.js) made of awaited steps;   *)
(* nothing locks the rows, so their steps interleave with each other, with *)
(* the charger's events, the stop and revenue queues, the auto-capture     *)
(* cron and the next preauthorisation of the same card.                    *)
(***************************************************************************)
EXTENDS Integers, Sequences, FiniteSets

CONSTANTS
  Clients,       \* payment API calls after the preauthorisation
  Providers,     \* payment providers the charger may be configured with
  Sweepers,      \* which of "cron" and "next" (preauthorisation) take part
  MaxStops,      \* bound: StopTransaction events, the charger repeats them
  MaxCrashes     \* bound: restarts of the core API

ASSUME PaymentAssumption ==
  /\ Clients \cap {"preauth", "worker", "charger", "cron", "next"} = {}
  /\ Providers \subseteq {"moneris", "littlepay"}
  /\ Sweepers \subseteq {"cron", "next"}
  /\ MaxStops \in Nat
  /\ MaxCrashes \in Nat

\* Who runs steps on the session: the payment handlers, the job of the stop
\* queue, the charger's event handler, the two that cancel old sessions.
Handlers == Clients \cup {"preauth", "worker"}
Actors == Handlers \cup {"charger", "cron", "next"}

VARIABLES
  status,        \* transactionStatus
  begun,         \* startTime is set
  fin,           \* isFinished
  paid,          \* isPaid
  payStatus,     \* paymentStatus
  row,           \* status of the payment row
  ref,           \* its preauthRefId is set
  compRef,       \* its preauthCompleteRefId is set
  pending,       \* PendingCancellationLogs: a cancellation without session id
  captureLog,    \* a PreauthCompleteLogs document says "success"
  cronLog,       \* AutoCaptureLogs holds the session
  revenue,       \* the session has a charger_revenue row
  stopQueue,     \* OcppStopTransactionQueue: makePayment of each job, the
                 \* job in progress stays at the head
  revenueJobs,   \* SyncRevenueQueue
  provider,      \* the charger's payment provider
  money,         \* what the provider did with the card, whatever we recorded
  pc,            \* the await each actor is at
  op,            \* what it is doing
  seen,          \* the payment row's status it read
  result,        \* the provider's answer it holds
  stops,
  crashes,
  interrupted,   \* history: the provider acted unheard, or a crash cut a step
  overlap        \* history: two actors were between read and write at once

txVars == <<status, begun, fin, paid, payStatus>>
rowVars == <<row, ref, compRef>>
logVars == <<pending, captureLog, cronLog, revenue>>
queueVars == <<stopQueue, revenueJobs>>
boundVars == <<provider, stops, crashes>>
actorVars == <<op, seen, result>>
vars == <<txVars, rowVars, logVars, queueVars, boundVars, actorVars, money,
          pc, interrupted, overlap>>

Init ==
  /\ status = "none" /\ begun = FALSE /\ fin = FALSE /\ paid = FALSE
  /\ payStatus = "none"
  /\ row = "none" /\ ref = FALSE /\ compRef = FALSE
  /\ pending = "none" /\ captureLog = FALSE /\ cronLog = FALSE /\ revenue = FALSE
  /\ stopQueue = <<>> /\ revenueJobs = 0
  /\ provider \in Providers
  /\ money = "none"
  /\ pc = [a \in Actors |-> "idle"]
  /\ op = [a \in Actors |-> "none"]
  /\ seen = [a \in Actors |-> "none"]
  /\ result = [a \in Actors |-> "none"]
  /\ stops = 0 /\ crashes = 0
  /\ interrupted = FALSE /\ overlap = FALSE

Goto(a, label) == pc' = [pc EXCEPT ![a] = label]
At(a, label) == pc[a] = label

\* Where a handler goes when its operation is over: the job reports, the
\* preauthorisation marks the cancellation it ran, a client is answered.
End(a) == CASE a = "worker" -> "report" [] a = "preauth" -> "mark" [] OTHER -> "done"

------------------------------------------------------------------------------
(* The preauthorisation *)

\* preauth starts: forgotten cancellations of this card are deleted.
PreauthStarts ==
  /\ At("preauth", "idle") /\ Goto("preauth", "create")
  /\ op' = [op EXCEPT !["preauth"] = "preauth"]
  /\ pending' = IF pending = "pending" THEN "none" ELSE pending
  /\ UNCHANGED <<txVars, rowVars, captureLog, cronLog, revenue, queueVars,
                 boundVars, seen, result, money, interrupted>>

\* getOcppTransaction saves the session.
CreateTransaction ==
  /\ At("preauth", "create") /\ Goto("preauth", "createRow")
  /\ status' = "preauth"
  /\ UNCHANGED <<begun, fin, paid, payStatus, rowVars, logVars, queueVars,
                 boundVars, actorVars, money, interrupted>>

\* getPaymentTransaction saves its payment row; Pending is the default status.
CreatePayment ==
  /\ At("preauth", "createRow") /\ Goto("preauth", "call")
  /\ row' = "Pending"
  /\ UNCHANGED <<txVars, ref, compRef, logVars, queueVars, boundVars, actorVars,
                 money, interrupted>>

\* The provider's reference is kept, a declined one may carry one as well.
SavePreauth ==
  /\ At("preauth", "saveRow") /\ op["preauth"] = "preauth"
  /\ \E given \in BOOLEAN :
       /\ result["preauth"] = "ok" => given
       /\ ref' = given
  /\ Goto("preauth", IF result["preauth"] = "ok" THEN "findPending" ELSE "reject")
  /\ UNCHANGED <<txVars, row, compRef, logVars, queueVars, boundVars, actorVars,
                 money, interrupted>>

\* With moneris, the card's EMV data is sent next; if that call throws, the handler
\* ends here.
EmvDataAddThrows ==
  /\ pc["preauth"] \in {"findPending", "reject"} /\ provider = "moneris"
  /\ Goto("preauth", "done")
  /\ UNCHANGED <<txVars, rowVars, logVars, queueVars, boundVars, actorVars, money,
                 interrupted>>

\* An authorised card is checked against the stored cancellations; one that
\* matches is carried out by processPreauthCancel.
FindPending ==
  /\ At("preauth", "findPending")
  /\ IF pending = "pending"
     THEN /\ Goto("preauth", "checkTx")
          /\ op' = [op EXCEPT !["preauth"] = "cancel"]
          /\ result' = [result EXCEPT !["preauth"] = "none"]
     ELSE /\ Goto("preauth", "done")
          /\ UNCHANGED <<op, result>>
  /\ UNCHANGED <<txVars, rowVars, logVars, queueVars, boundVars, seen, money,
                 interrupted>>

\* It is marked processed unless carrying it out threw.
MarkPending ==
  /\ At("preauth", "mark") /\ Goto("preauth", "done")
  /\ pending' = IF op["preauth"] = "cancel" /\ result["preauth"] # "thrown"
                THEN "processed" ELSE pending
  /\ UNCHANGED <<txVars, rowVars, captureLog, cronLog, revenue, queueVars,
                 boundVars, actorVars, money, interrupted>>

RejectPreauth ==
  /\ At("preauth", "reject") /\ Goto("preauth", "done")
  /\ payStatus' = "Rejected" /\ fin' = TRUE
  /\ UNCHANGED <<status, begun, paid, rowVars, logVars, queueVars, boundVars,
                 actorVars, money, interrupted>>

\* preauth-cancel without a session id is stored for the next preauthorisation.
StorePending ==
  /\ pending = "none"
  /\ pending' = "pending"
  /\ UNCHANGED <<txVars, rowVars, captureLog, cronLog, revenue, queueVars,
                 boundVars, actorVars, money, pc, interrupted>>

------------------------------------------------------------------------------
(* Capture, cancellation and refund *)

\* A client knows the session once the preauthorisation published it.
Published == pc["preauth"] \notin {"idle", "create", "createRow", "call", "saveRow"}

CallApi(c, o) ==
  /\ At(c, "idle") /\ Published
  /\ op' = [op EXCEPT ![c] = o]
  /\ Goto(c, IF o = "capture" THEN "checkPending" ELSE "checkTx")
  /\ UNCHANGED <<txVars, rowVars, logVars, queueVars, boundVars, seen, result,
                 money, interrupted>>

\* preauthComplete looks for a Pending payment row with a reference and does not
\* look at the session's status.
AnyUnsettled(r) == r \in {"Pending", "Processed"}
WrongCase(r) == r = "pending"
IsCapturable(r) == r = "Pending"
CheckPending(a) ==
  /\ At(a, "checkPending")
  /\ Goto(a, IF IsCapturable(row) /\ ref THEN "call" ELSE End(a))
  /\ seen' = [seen EXCEPT ![a] = row]
  /\ UNCHANGED <<txVars, rowVars, logVars, queueVars, boundVars, op, result,
                 money, interrupted>>

\* processPreauthCancel refuses a captured session, refund any other.
CheckTx(a) ==
  /\ At(a, "checkTx")
  /\ Goto(a, IF (status = "finished") = (op[a] = "refund") THEN "checkRow" ELSE End(a))
  /\ UNCHANGED <<txVars, rowVars, logVars, queueVars, boundVars, actorVars,
                 money, interrupted>>

\* The payment row is read after the session. A littlepay refund also needs the
\* document of the capture.
CanRefund ==
  row = "Processed" /\ compRef /\ (provider = "littlepay" => captureLog)
CanCancel == row = "Pending" /\ ref
CheckRow(a) ==
  /\ At(a, "checkRow")
  /\ Goto(a, IF (op[a] = "refund" /\ CanRefund) \/ (op[a] = "cancel" /\ CanCancel)
             THEN "call" ELSE End(a))
  /\ seen' = [seen EXCEPT ![a] = row]
  /\ UNCHANGED <<txVars, rowVars, logVars, queueVars, boundVars, op, result,
                 money, interrupted>>

\* What the provider does for an operation and what it must have done before.
Before(o) == CASE o = "preauth" -> "none" [] o = "refund" -> "captured" [] OTHER -> "held"
After(o) == CASE o = "preauth" -> "held" [] o = "capture" -> "captured"
              [] o = "refund" -> "refunded" [] OTHER -> "released"

\* Without an answer callMoneris throws; callLittlePay reports a failure.
NoAnswer == IF provider = "moneris" THEN "thrown" ELSE "failure"

Call(a, acts, answer) ==
  /\ At(a, "call")
  /\ answer \in {"ok", "failure", NoAnswer}
  /\ answer = "ok" => acts
  /\ acts => answer \in {"ok", NoAnswer} /\ money = Before(op[a])
  /\ money' = IF acts THEN After(op[a]) ELSE money
  /\ result' = [result EXCEPT ![a] = answer]
  /\ interrupted' = (interrupted \/ (acts /\ answer # "ok"))
  /\ Goto(a, IF answer = "thrown" THEN End(a) ELSE "saveRow")
  /\ UNCHANGED <<txVars, rowVars, logVars, queueVars, boundVars, op, seen>>

\* The status written back: after a failure the capture's is Pending, the others'
\* is the one read before the call.
CaptureStatus(r) == IF r = "ok" THEN "Processed" ELSE "Pending"
RefundStatus(a) == IF result[a] = "ok" THEN "Refunded" ELSE seen[a]
CancelStatus(a) == IF result[a] = "ok" THEN "Cancelled" ELSE seen[a]

SaveCapture(a) ==
  /\ At(a, "saveRow") /\ op[a] = "capture"
  /\ row' = CaptureStatus(result[a])
  /\ compRef' = (result[a] = "ok")
  /\ Goto(a, IF result[a] = "ok" THEN "enqueue" ELSE "saveLog")
  /\ UNCHANGED <<txVars, ref, logVars, queueVars, boundVars, actorVars, money,
                 interrupted>>

SaveCancel(a) ==
  /\ At(a, "saveRow") /\ op[a] = "cancel"
  /\ row' = CancelStatus(a)
  /\ Goto(a, IF result[a] = "ok" THEN "saveTx" ELSE End(a))
  /\ UNCHANGED <<txVars, ref, compRef, logVars, queueVars, boundVars, actorVars,
                 money, interrupted>>

SaveRefund(a) ==
  /\ At(a, "saveRow") /\ op[a] = "refund"
  /\ row' = RefundStatus(a)
  /\ Goto(a, End(a))
  /\ UNCHANGED <<txVars, ref, compRef, logVars, queueVars, boundVars, actorVars,
                 money, interrupted>>

\* The revenue job is queued before the document it looks for is written.
EnqueueRevenue(a) ==
  /\ At(a, "enqueue") /\ Goto(a, "saveLog")
  /\ revenueJobs' = revenueJobs + 1
  /\ UNCHANGED <<txVars, rowVars, logVars, stopQueue, boundVars, actorVars,
                 money, interrupted>>

SaveCaptureLog(a) ==
  /\ At(a, "saveLog") /\ Goto(a, "saveTx")
  /\ captureLog' = (captureLog \/ result[a] = "ok")
  /\ UNCHANGED <<txVars, rowVars, pending, cronLog, revenue, queueVars,
                 boundVars, actorVars, money, interrupted>>

\* A captured session is finished and paid, a declined one rejected.
PaysOnTry(r) == TRUE
Pays(r) == r = "ok"
SaveCapturedTx(a) ==
  /\ At(a, "saveTx") /\ op[a] = "capture" /\ Goto(a, End(a))
  /\ IF Pays(result[a])
     THEN /\ status' = "finished" /\ paid' = TRUE /\ payStatus' = "Accepted"
          /\ UNCHANGED fin
     ELSE /\ payStatus' = "Rejected" /\ fin' = TRUE
          /\ UNCHANGED <<status, paid>>
  /\ UNCHANGED <<begun, rowVars, logVars, queueVars, boundVars, actorVars,
                 money, interrupted>>

SaveCancelledTx(a) ==
  /\ At(a, "saveTx") /\ op[a] = "cancel" /\ Goto(a, End(a))
  /\ status' = "cancelled" /\ fin' = TRUE
  /\ UNCHANGED <<begun, paid, payStatus, rowVars, logVars, queueVars, boundVars,
                 actorVars, money, interrupted>>

------------------------------------------------------------------------------
(* The queues *)

\* OcppStopTransactionQueue takes its oldest job; after the calculation it posts
\* the capture, or (no payment asked, or the calculation failed) nothing.
TakeJob(pay) ==
  /\ At("worker", "idle") /\ stopQueue # <<>>
  /\ pay => Head(stopQueue)
  /\ op' = [op EXCEPT !["worker"] = "capture"]
  /\ result' = [result EXCEPT !["worker"] =
                   IF pay = Head(stopQueue) THEN "none" ELSE "failure"]
  /\ Goto("worker", IF pay THEN "checkPending" ELSE "report")
  /\ UNCHANGED <<txVars, rowVars, logVars, queueVars, boundVars, seen, money,
                 interrupted>>

ReportCapture ==
  /\ At("worker", "report") /\ Goto("worker", "endJob")
  /\ payStatus' = IF result["worker"] = "ok" THEN "Accepted" ELSE payStatus
  /\ UNCHANGED <<status, begun, fin, paid, rowVars, logVars, queueVars,
                 boundVars, actorVars, money, interrupted>>

\* Every job ends with a revenue job.
JobWithoutRevenue == revenueJobs
JobsAfterStop == revenueJobs + 1
EndJob ==
  /\ At("worker", "endJob") /\ stopQueue # <<>> /\ Goto("worker", "idle")
  /\ stopQueue' = Tail(stopQueue)
  /\ revenueJobs' = JobsAfterStop
  /\ UNCHANGED <<txVars, rowVars, logVars, boundVars, actorVars, money,
                 interrupted>>

\* SyncRevenueQueue books the revenue of a session whose capture is documented.
DocumentedOrProcessed == captureLog \/ row = "Processed"
Documented == captureLog
SyncRevenue ==
  /\ revenueJobs > 0
  /\ revenueJobs' = revenueJobs - 1
  /\ revenue' = (revenue \/ Documented)
  /\ UNCHANGED <<txVars, rowVars, pending, captureLog, cronLog, stopQueue,
                 boundVars, actorVars, money, pc, interrupted>>

------------------------------------------------------------------------------
(* The charger's events *)

\* handleAuthorize and handleStartTransaction find the session by its status,
\* then write it by its id, whatever it has become.
AuthorizeFinds ==
  /\ At("charger", "idle") /\ status = "preauth" /\ Goto("charger", "authorize")
  /\ UNCHANGED <<txVars, rowVars, logVars, queueVars, boundVars, actorVars,
                 money, interrupted>>

StartFinds ==
  /\ At("charger", "idle") /\ status \in {"preauth", "authorized"}
  /\ Goto("charger", IF status = "preauth" THEN "startAuthorize" ELSE "start")
  /\ UNCHANGED <<txVars, rowVars, logVars, queueVars, boundVars, actorVars,
                 money, interrupted>>

Authorizes ==
  /\ pc["charger"] \in {"authorize", "startAuthorize"}
  /\ status' = "authorized"
  /\ Goto("charger", IF At("charger", "authorize") THEN "idle" ELSE "start")
  /\ UNCHANGED <<begun, fin, paid, payStatus, rowVars, logVars, queueVars,
                 boundVars, actorVars, money, interrupted>>

Starts ==
  /\ At("charger", "start") /\ Goto("charger", "idle")
  /\ status' = "started" /\ begun' = TRUE
  /\ UNCHANGED <<fin, paid, payStatus, rowVars, logVars, queueVars, boundVars,
                 actorVars, money, interrupted>>

\* handleStopTransaction: the session ends, then its job is queued; makePayment
\* follows from the stop's reason.
Stops(makePayment) ==
  /\ At("charger", "idle") /\ begun /\ stops < MaxStops
  /\ stops' = stops + 1
  /\ fin' = TRUE
  /\ Goto("charger", IF makePayment THEN "queuePay" ELSE "queueStop")
  /\ UNCHANGED <<status, begun, paid, payStatus, rowVars, logVars, queueVars,
                 provider, crashes, actorVars, money, interrupted>>

QueueStop(a) ==
  /\ a \in {"charger", "cron"} /\ pc[a] \in {"queuePay", "queueStop"}
  /\ stopQueue' = Append(stopQueue, At(a, "queuePay"))
  /\ Goto(a, "idle")
  /\ UNCHANGED <<txVars, rowVars, logVars, revenueJobs, boundVars, actorVars,
                 money, interrupted>>

------------------------------------------------------------------------------
(* Old sessions *)

\* The auto-capture cron finds a session older than eight hours that is still
\* open, or captured and not ended, and was not processed before.
Plan ==
  CASE status = "finished" -> IF begun THEN "stop" ELSE "cancel"
    [] status \in {"preauth", "authorized"} -> "cancel"
    [] OTHER -> "pay"
CronFinds ==
  /\ "cron" \in Sweepers /\ At("cron", "idle") /\ ~cronLog
  /\ pc["preauth"] = "done"
  /\ status \in {"preauth", "authorized", "started"} \/ (status = "finished" /\ ~fin)
  /\ op' = [op EXCEPT !["cron"] = Plan]
  /\ Goto("cron", "logs")
  /\ UNCHANGED <<txVars, rowVars, logVars, queueVars, boundVars, seen, result,
                 money, interrupted>>

\* It notes the session as processed before it processes it.
CronLogs ==
  /\ At("cron", "logs")
  /\ cronLog' = TRUE
  /\ Goto("cron", IF op["cron"] = "cancel" THEN "cancelTx" ELSE "stop")
  /\ UNCHANGED <<txVars, rowVars, pending, captureLog, revenue, queueVars,
                 boundVars, actorVars, money, interrupted>>

CronStops ==
  /\ At("cron", "stop")
  /\ fin' = TRUE
  /\ Goto("cron", IF op["cron"] = "pay" THEN "queuePay" ELSE "queueStop")
  /\ UNCHANGED <<status, begun, paid, payStatus, rowVars, logVars, queueVars,
                 boundVars, actorVars, money, interrupted>>

\* getOcppTransaction, for the next preauthorisation of the same card at the same
\* connector, finds this session still "preauth".
NextPreauthFinds ==
  /\ "next" \in Sweepers /\ At("next", "idle") /\ status = "preauth"
  /\ Goto("next", "cancelTx")
  /\ UNCHANGED <<txVars, rowVars, logVars, queueVars, boundVars, actorVars,
                 money, interrupted>>

\* Both cancel the session, then its payment row if it is Pending; neither
\* releases the card.
SweepTx(s) ==
  /\ s \in {"cron", "next"} /\ At(s, "cancelTx") /\ Goto(s, "cancelRow")
  /\ status' = "cancelled"
  /\ UNCHANGED <<begun, fin, paid, payStatus, rowVars, logVars, queueVars,
                 boundVars, actorVars, money, interrupted>>

SweptAnyRow == "Cancelled"
SweptLowerCase == IF row = "Pending" THEN "cancelled" ELSE row
SweptRow == IF row = "Pending" THEN "Cancelled" ELSE row
SweepRow(s) ==
  /\ s \in {"cron", "next"} /\ At(s, "cancelRow") /\ Goto(s, "idle")
  /\ row' = SweptRow
  /\ UNCHANGED <<txVars, ref, compRef, logVars, queueVars, boundVars, actorVars,
                 money, interrupted>>

------------------------------------------------------------------------------
\* The steps between an actor's read and its last write that depends on it.
Window == {"checkRow", "call", "saveRow", "enqueue", "saveLog", "saveTx", "logs",
           "cancelTx", "cancelRow", "stop", "authorize", "startAuthorize", "start"}
Busy == {a \in Actors : pc[a] \in Window /\ op[a] # "preauth"}

\* The API process restarts: requests, handlers and sweeps in progress are gone,
\* the stop queue runs its job in progress again.
Crash ==
  /\ crashes < MaxCrashes
  /\ crashes' = crashes + 1
  /\ pc' = [a \in Actors |-> IF a \in Clients \cup {"preauth"} /\ pc[a] # "idle"
                             THEN "done" ELSE "idle"]
  /\ interrupted' = TRUE
  /\ UNCHANGED <<txVars, rowVars, logVars, queueVars, provider, stops, actorVars,
                 money>>

PreauthStep ==
  \/ PreauthStarts \/ CreateTransaction \/ CreatePayment \/ SavePreauth
  \/ EmvDataAddThrows
  \/ FindPending \/ MarkPending \/ RejectPreauth

HandlerStep(a) ==
  \/ CheckPending(a) \/ CheckTx(a) \/ CheckRow(a)
  \/ \E acts \in BOOLEAN, answer \in {"ok", "failure", "thrown"} : Call(a, acts, answer)
  \/ SaveCapture(a) \/ SaveCancel(a) \/ SaveRefund(a)
  \/ EnqueueRevenue(a) \/ SaveCaptureLog(a)
  \/ SaveCapturedTx(a) \/ SaveCancelledTx(a)

WorkerStep == (\E pay \in BOOLEAN : TakeJob(pay)) \/ ReportCapture \/ EndJob

ChargerStep ==
  \/ AuthorizeFinds \/ StartFinds \/ Authorizes \/ Starts
  \/ \E makePayment \in BOOLEAN : Stops(makePayment)

SweepStep(s) == SweepTx(s) \/ SweepRow(s)
CronStep == CronFinds \/ CronLogs \/ CronStops

Step ==
  \/ PreauthStep \/ StorePending
  \/ \E c \in Clients, o \in {"capture", "cancel", "refund"} : CallApi(c, o)
  \/ \E a \in Handlers : HandlerStep(a)
  \/ WorkerStep \/ SyncRevenue
  \/ ChargerStep
  \/ \E a \in {"charger", "cron"} : QueueStop(a)
  \/ CronStep \/ NextPreauthFinds
  \/ \E s \in {"cron", "next"} : SweepStep(s)
  \/ Crash

NoteOverlap == overlap' = (overlap \/ \E a, b \in Busy' : a # b)

Next == Step /\ NoteOverlap

\* Requests, jobs and the cron's runs go on (the provider answers or its connection
\* ends, timers fire); nobody has to call the API, start or stop.
PreauthGoesOn ==
  \/ CreateTransaction \/ CreatePayment \/ SavePreauth
  \/ EmvDataAddThrows
  \/ FindPending \/ MarkPending \/ RejectPreauth
Fairness ==
  /\ WF_vars(PreauthGoesOn /\ NoteOverlap)
  /\ WF_vars(WorkerStep /\ NoteOverlap)
  /\ WF_vars(SyncRevenue /\ NoteOverlap)
  /\ WF_vars(CronStep /\ NoteOverlap)
  /\ WF_vars((Authorizes \/ Starts) /\ NoteOverlap)
  /\ \A a \in Handlers : WF_vars(HandlerStep(a) /\ NoteOverlap)
  /\ \A a \in {"charger", "cron"} : WF_vars(QueueStop(a) /\ NoteOverlap)
  /\ \A s \in {"cron", "next"} : WF_vars(SweepStep(s) /\ NoteOverlap)

SafeSpec == Init /\ [][Next]_vars
Spec == SafeSpec /\ Fairness

------------------------------------------------------------------------------
(* Properties *)

\* The variables keep their types.
Labels == Window \cup
  {"idle", "done", "create", "createRow", "findPending", "reject", "mark",
   "checkPending", "checkTx", "report", "endJob", "queuePay", "queueStop"}
Operations == {"none", "preauth", "capture", "cancel", "refund", "pay", "stop"}
TypeOK ==
  /\ status \in {"none", "preauth", "authorized", "started", "finished", "cancelled"}
  /\ payStatus \in {"none", "Accepted", "Rejected"}
  /\ row \in {"none", "Pending", "Processed", "Cancelled", "Refunded"}
  /\ pending \in {"none", "pending", "processed"}
  /\ begun \in BOOLEAN /\ fin \in BOOLEAN /\ paid \in BOOLEAN
  /\ ref \in BOOLEAN /\ compRef \in BOOLEAN
  /\ captureLog \in BOOLEAN /\ cronLog \in BOOLEAN /\ revenue \in BOOLEAN
  /\ interrupted \in BOOLEAN /\ overlap \in BOOLEAN
  /\ stopQueue \in Seq(BOOLEAN)
  /\ revenueJobs \in Nat
  /\ provider \in Providers
  /\ money \in {"none", "held", "captured", "released", "refunded"}
  /\ pc \in [Actors -> Labels]
  /\ op \in [Actors -> Operations]
  /\ seen \in [Actors -> {"none", "Pending", "Processed", "Cancelled", "Refunded"}]
  /\ result \in [Actors -> {"none", "ok", "failure", "thrown"}]
  /\ stops \in 0..MaxStops
  /\ crashes \in 0..MaxCrashes

\* Whatever overlaps, throws or crashes, our books never claim money the provider
\* did not move: a paid session, a Processed payment row, the document of a capture
\* and the revenue row stand for a captured card (or one refunded since), and a
\* Refunded row for a refund.
Captured == money \in {"captured", "refunded"}
BooksBackedByMoney ==
  /\ paid \/ captureLog \/ revenue => Captured
  /\ row = "Processed" => Captured
  /\ row = "Refunded" => money = "refunded"

\* As long as no two actors overlapped and nothing was interrupted, the books are
\* also complete once nobody is at work: both rows say what the provider did, a
\* paid session is Accepted, and is finished if it ever began.
Undisturbed == ~overlap /\ ~interrupted
BooksAgree ==
  Undisturbed /\ Busy = {} =>
    /\ row = "Processed" <=> money = "captured"
    /\ row = "Refunded" <=> money = "refunded"
    /\ paid <=> Captured
    /\ paid => payStatus = "Accepted"
    /\ paid /\ begun => status = "finished"
    /\ money = "released" => row = "Cancelled" /\ status = "cancelled"

\* A payment row only moves forward, Pending to Processed or Cancelled, Processed
\* to Refunded, unless two actors overlapped: only then can a status read before
\* the provider's answer overwrite a newer one.
Forward == {<<"none", "Pending">>, <<"Pending", "Processed">>,
            <<"Pending", "Cancelled">>, <<"Processed", "Refunded">>}
RowMovesForward == [][row' # row /\ ~overlap' => <<row, row'>> \in Forward]_vars

\* A stop job that has to take the payment settles it, whatever crashes on the way:
\* the row leaves Pending, unless the job itself gets a refusal, no answer, or no
\* amount. (A job taken up before the preauthorisation kept its reference finds
\* nothing to capture.)
StoppedSessionSettles ==
  (stopQueue # <<>> /\ Head(stopQueue) /\ At("worker", "idle") /\ ref) ~>
    (row # "Pending" \/ result["worker"] \in {"failure", "thrown"})

\* Once a capture is documented, a stop job still to end makes its revenue booked;
\* a capture no stop job follows relies on the job queued before the document.
RevenueFollows == (stopQueue # <<>> /\ captureLog) ~> revenue

\* Whatever overlaps, throws or crashes, the session's money and books go the way of
\* PaymentPromise: the row never claims a move the provider has not made, and what
\* is on record is never withdrawn, with the capture's document first and the paid
\* session and the revenue row only after it.
Claimed == IF row \in {"Processed", "Refunded"} THEN row ELSE "open"
Recorded ==
  {entry \in {"documented", "paid", "revenue"} :
     \/ entry = "documented" /\ captureLog
     \/ entry = "paid" /\ paid
     \/ entry = "revenue" /\ revenue}
Promise == INSTANCE PaymentPromise WITH state <- Claimed, records <- Recorded
BooksKeepPromise == Promise!Spec
=============================================================================
