-------------------------- MODULE ChargingSessions --------------------------
(***************************************************************************)
(* The sessions (rows of ocpp_transactions) and bookings of one connector, *)
(* from whoever wants to charge to the charger that does it.               *)
(*                                                                         *)
(* A session is made by a customer's remote start, by a closed-loop card   *)
(* in Authorize or by a preauthorisation at the terminal.  The charger     *)
(* knows it by its idTag until StartTransaction is answered with its       *)
(* transaction id, and then by that.  The core finds rows by these and     *)
(* writes them by their key, with an await between any two queries.        *)
(***************************************************************************)
EXTENDS Naturals, FiniteSets

CONSTANTS
  Customers,    \* of the app; each has one request in progress at a time
  Pans,         \* bank cards that are preauthorised at the terminal
  Cards,        \* closed-loop cards of the charger
  MaxRows,      \* bound: sessions made in a behaviour
  MaxBookings,  \* bound: bookings made in a behaviour
  MaxTries,     \* processOcppEvent's maxRetries
  Closes,       \* may the charger be disabled or in-operative?
  Loses         \* may posts and replies of events be lost?

Actors == Customers \cup Pans \cup {"core"}
Slots == 1..MaxRows
Places == 1..MaxBookings
FreshTags == 1..(MaxRows + MaxBookings)
Tags == FreshTags \cup Pans \cup Cards

ASSUME SessionsAssumption ==
  /\ MaxRows \in Nat /\ MaxBookings \in Nat /\ MaxTries \in Nat \ {0}
  /\ Closes \in BOOLEAN /\ Loses \in BOOLEAN
  /\ Customers \cap Pans = {} /\ "core" \notin Customers \cup Pans
  /\ FreshTags \cap (Pans \cup Cards) = {} /\ Pans \cap Cards = {}

VARIABLES
  rows, made,       \* ocpp_transactions of the connector, in the order of createdAt
  latest,           \* charger.latestTransactionId
  bookings, booked, \* charger_bookings of the charger
  closed,           \* the charger's status is in-operative or disabled
  pc, mem,          \* what each request, and the event handler ("core"), is at
  reply,            \* the handler's answer to the charger's call
  tries,            \* posts of that call so far
  dev,              \* the charger: what it is doing, for which tag, under which id
  jobs,             \* rows with a job in OcppStopTransactionQueue
  stale,            \* history: the row an actor found was changed since
  crowded,          \* history: two sessions were once being made at the same time
  contended,        \* history: two bookings were once being made at the same time
  missed,           \* history: an accepted Start or a Stop did not get through
  bound             \* history: the row the last StartTransaction started

table == <<rows, made, latest>>
shelf == <<bookings, booked>>
wire == <<reply, tries, dev>>
vars == <<table, shelf, closed, pc, mem, wire, jobs, stale, crowded, contended,
          missed, bound>>

NoRow == [status |-> "unborn", tag |-> 0, id |-> 0, by |-> "core", ended |-> FALSE]
NoBooking == [customer |-> "core", tag |-> 0, row |-> 0, open |-> FALSE, expired |-> FALSE]
Blank == [latest |-> 0, kind |-> "none", tag |-> 0, row |-> 0, place |-> 0, next |-> "none"]
Free == [at |-> "free", tag |-> 0, tx |-> 0]
Refused == [ok |-> FALSE, tx |-> 0]

Init ==
  /\ rows = [r \in Slots |-> NoRow] /\ made = 0 /\ latest = 0
  /\ bookings = [b \in Places |-> NoBooking] /\ booked = 0
  /\ closed = FALSE
  /\ pc = [a \in Actors |-> "idle"] /\ mem = [a \in Actors |-> Blank]
  /\ reply = Refused /\ tries = 0 /\ dev = Free
  /\ jobs = {}
  /\ stale = [a \in Actors |-> FALSE]
  /\ crowded = FALSE /\ contended = FALSE /\ missed = FALSE /\ bound = 0

Go(a, label, m) ==
  /\ pc' = [pc EXCEPT ![a] = label]
  /\ mem' = [mem EXCEPT ![a] = m]
Leave(a) == Go(a, "idle", Blank)
At(a, label) == a \in Actors /\ pc[a] = label

\* The handler's answer to the charger, which ends the call unless it gets lost.
Answers(r) == Go("core", "reply", Blank) /\ reply' = r
\* A refused request ends; a refused closed-loop card is Invalid.
TurnedDown(a) == IF a = "core" THEN Answers(Refused) ELSE Leave(a) /\ UNCHANGED reply

Found(status, tag) == {r \in Slots : rows[r].status = status /\ rows[r].tag = tag}
Newest(R) == IF R = {} THEN 0 ELSE CHOOSE r \in R : \A q \in R : q <= r
Open == {b \in Places : bookings[b].open}
SetStatus(r, s) == rows' = [rows EXCEPT ![r].status = s]
CloseAll(B) ==
  bookings' = [b \in Places |-> IF b \in B THEN [bookings[b] EXCEPT !.open = FALSE]
                                          ELSE bookings[b]]

------------------------------------------------------------------------------
(* Making a session: startRemoteChargingSession, preauth, getOcppTransaction *)

\* A request reads the charger, its latestTransactionId with it.
Begins(a, label, kind, tag) ==
  Go(a, label, [Blank EXCEPT !.latest = latest, !.kind = kind, !.tag = tag])

RemoteStart(c) ==
  /\ c \in Customers /\ At(c, "idle") /\ ~closed
  /\ Begins(c, "busy", "remote-started", 0)
  /\ UNCHANGED <<table, shelf, closed, wire, jobs, missed, bound>>
Preauth(p) ==
  /\ p \in Pans /\ At(p, "idle")
  /\ Begins(p, "find", "preauth", p)
  /\ UNCHANGED <<table, shelf, closed, wire, jobs, missed, bound>>

\* "Charger is busy."
CheckBusy(a) ==
  /\ At(a, "busy")
  /\ IF \E r \in Slots : rows[r].status = "started"
     THEN TurnedDown(a)
     ELSE Go(a, "booking", mem[a]) /\ UNCHANGED reply
  /\ UNCHANGED <<table, shelf, closed, tries, dev, jobs, missed, bound>>

\* A uuid, unless the request came with a card.
UsedTags == {rows[r].tag : r \in Slots} \cup {bookings[b].tag : b \in Places}
              \cup {mem[a].tag : a \in Actors}
Draws(t) == t \in FreshTags \ UsedTags /\ \A u \in FreshTags \ UsedTags : t <= u

\* Whose booking blocks a remote start: an unexpired one of anybody else.
BlocksNobody(b, a) == FALSE
Blocks(b, a) == ~bookings[b].expired /\ bookings[b].customer # a
WithoutBooking(a) ==
  IF mem[a].tag # 0
  THEN Go(a, "find", mem[a])
  ELSE \E t \in FreshTags : Draws(t) /\ Go(a, "find", [mem[a] EXCEPT !.tag = t])
CheckBooking(a) ==
  /\ At(a, "booking")
  /\ \/ Open = {} /\ WithoutBooking(a) /\ UNCHANGED reply
     \/ \E b \in Open :
          IF Blocks(b, a) THEN TurnedDown(a)
          ELSE /\ UNCHANGED reply
               /\ IF bookings[b].expired
                  THEN Go(a, "close", [mem[a] EXCEPT !.place = b, !.next = "expired"])
                  ELSE Go(a, "find", [mem[a] EXCEPT !.tag = bookings[b].tag])
  /\ UNCHANGED <<table, shelf, closed, tries, dev, jobs, missed, bound>>

\* The booking an actor found expired is finished.
Close(a) ==
  /\ At(a, "close")
  /\ CloseAll({mem[a].place})
  /\ IF mem[a].next = "expired" THEN WithoutBooking(a)
                                ELSE Go(a, mem[a].next, [mem[a] EXCEPT !.place = 0])
  /\ UNCHANGED <<table, booked, closed, wire, jobs, missed, bound>>

\* getOcppTransaction cancels the newest session of the same kind and tag ...
FindOld(a) ==
  /\ At(a, "find")
  /\ LET old == Newest(Found(mem[a].kind, mem[a].tag))
     IN  Go(a, IF old = 0 THEN "insert" ELSE "supersede", [mem[a] EXCEPT !.row = old])
  /\ UNCHANGED <<table, shelf, closed, wire, jobs, missed, bound>>
CanceledStatus == "canceled"
CancelledStatus == "cancelled"
Supersede(a) ==
  /\ At(a, "supersede")
  /\ SetStatus(mem[a].row, CancelledStatus)
  /\ Go(a, "insert", [mem[a] EXCEPT !.row = 0])
  /\ UNCHANGED <<made, latest, shelf, closed, wire, jobs, missed, bound>>

\* ... and inserts the new one under the number after the one read.
Insert(a) ==
  /\ At(a, "insert") /\ made < MaxRows
  /\ rows' = [rows EXCEPT ![made + 1] =
                [status |-> mem[a].kind, tag |-> mem[a].tag, by |-> a, ended |-> FALSE,
                 id |-> mem[a].latest + 1]]
  /\ made' = made + 1
  /\ Go(a, "count", [mem[a] EXCEPT !.row = made + 1])
  /\ UNCHANGED <<latest, shelf, closed, wire, jobs, missed, bound>>
NumberBefore(a) == mem[a].latest
NumberOf(a) == mem[a].latest + 1
Count(a) ==
  /\ At(a, "count")
  /\ latest' = NumberOf(a)
  /\ IF a \in Pans THEN Leave(a) ELSE Go(a, "link", mem[a])
  /\ UNCHANGED <<rows, made, shelf, closed, wire, jobs, missed, bound>>

\* The booking with that tag gets the session; a closed-loop card goes on with Authorize.
Link(a) ==
  /\ At(a, "link")
  /\ bookings' = [b \in Places |-> IF bookings[b].tag = mem[a].tag
                                   THEN [bookings[b] EXCEPT !.row = mem[a].row]
                                   ELSE bookings[b]]
  /\ IF a = "core" THEN Go(a, "match", Blank) ELSE Go(a, "send", mem[a])
  /\ UNCHANGED <<table, booked, closed, wire, jobs, missed, bound>>

\* RemoteStartTransaction: a free charger may accept it; a charger that cannot be
\* reached, or whose answer is lost, counts as accepted.
Send(a) ==
  /\ At(a, "send")
  /\ \/ Leave(a) /\ UNCHANGED dev
     \/ Go(a, "rejected", mem[a]) /\ UNCHANGED dev
     \/ dev.at = "free" /\ Leave(a) /\ dev' = [Free EXCEPT !.at = "ready", !.tag = mem[a].tag]
  /\ UNCHANGED <<table, shelf, closed, reply, tries, jobs, missed, bound>>
Rejected(a) ==
  /\ At(a, "rejected")
  /\ SetStatus(mem[a].row, CancelledStatus)
  /\ Leave(a)
  /\ UNCHANGED <<made, latest, shelf, closed, wire, jobs, missed, bound>>

------------------------------------------------------------------------------
(* Bookings: reserveTheCharger, cancelReservation *)

Reserve(c) ==
  /\ c \in Customers /\ At(c, "idle") /\ ~closed
  /\ \A r \in Slots : rows[r].status # "started"
  /\ Go(c, "own", Blank)
  /\ UNCHANGED <<table, shelf, closed, wire, jobs, missed, bound>>

\* The customer's own booking of the charger, anybody's, the customer's of any charger:
\* each ends the request, or is finished if it is expired.
MineOnly(c, label) == {b \in Open : bookings[b].customer = c}
Mine(c, label) == {b \in Open : label = "any" \/ bookings[b].customer = c}
After(label) == CASE label = "own" -> "any" [] label = "any" -> "other" [] OTHER -> "save"
CheckBookings(c, label) ==
  /\ label \in {"own", "any", "other"} /\ At(c, label)
  /\ \/ Mine(c, label) = {} /\ Go(c, After(label), mem[c])
     \/ \E b \in Mine(c, label) :
          IF bookings[b].expired
          THEN Go(c, "close", [mem[c] EXCEPT !.place = b, !.next = After(label)])
          ELSE Leave(c)
  /\ UNCHANGED <<table, shelf, closed, wire, jobs, missed, bound>>

Save(c) ==
  /\ At(c, "save") /\ booked < MaxBookings
  /\ \E t \in FreshTags :
       /\ Draws(t)
       /\ bookings' = [bookings EXCEPT ![booked + 1] =
                         [customer |-> c, tag |-> t, row |-> 0, open |-> TRUE,
                          expired |-> FALSE]]
  /\ booked' = booked + 1
  /\ Go(c, "reserve", [Blank EXCEPT !.place = booked + 1])
  /\ UNCHANGED <<table, closed, wire, jobs, missed, bound>>

\* ReserveNow, and CancelReservation of a booking found before: only the charger's
\* Rejected ends the first, only its Accepted the second.
AsksCharger(c) ==
  /\ c \in Customers /\ pc[c] \in {"reserve", "cancel"}
  /\ \/ Leave(c)
     \/ Go(c, "close", [mem[c] EXCEPT !.next = "idle"])
  /\ UNCHANGED <<table, shelf, closed, wire, jobs, missed, bound>>
CancelReservation(c) ==
  /\ c \in Customers /\ At(c, "idle")
  /\ \E b \in Mine(c, "own") : Go(c, "cancel", [Blank EXCEPT !.place = b])
  /\ UNCHANGED <<table, shelf, closed, wire, jobs, missed, bound>>

Expires(b) ==
  /\ bookings[b].open /\ ~bookings[b].expired
  /\ bookings' = [bookings EXCEPT ![b].expired = TRUE]
  /\ UNCHANGED <<table, booked, closed, pc, mem, wire, jobs, missed, bound>>
\* A StatusNotification that the charger is Faulted or its session suspended finishes
\* every booking of the charger.
FaultReported ==
  /\ Open # {} /\ CloseAll(Open)
  /\ UNCHANGED <<table, booked, closed, pc, mem, wire, jobs, missed, bound>>

------------------------------------------------------------------------------
(* The charger's calls, and the handlers that carry them out *)

\* One call at a time: a card at the reader, or again before the start; a start, with
\* or without Authorize (cached cards); a stop, when it is done or was told to.
Calls(at, entry, tag) ==
  /\ At("core", "idle")
  /\ dev' = [dev EXCEPT !.at = at, !.tag = tag]
  /\ Go("core", entry, Blank) /\ tries' = 1
  /\ UNCHANGED <<table, shelf, closed, reply, jobs, missed, bound>>
Presents(t) ==
  \/ dev.at = "free" /\ t \in Pans \cup Cards
  \/ dev.at = "ready" /\ t = dev.tag
CallsAuthorize(t) ==
  /\ Presents(t)
  /\ Calls("authorizing", "Authorize", t)
CallsStart(t) ==
  /\ Presents(t)
  /\ Calls("starting", "StartTransaction", t)
CallsStop == dev.at = "charging" /\ Calls("stopping", "StopTransaction", dev.tag)

\* Authorize: a closed-loop card makes its own session first.
Authorize ==
  /\ At("core", "Authorize")
  /\ IF dev.tag \notin Cards THEN Go("core", "match", Blank) /\ UNCHANGED reply
     ELSE IF closed THEN Answers(Refused)
     ELSE Begins("core", "busy", "rfid", dev.tag) /\ UNCHANGED reply
  /\ UNCHANGED <<table, shelf, closed, tries, dev, jobs, missed, bound>>

\* The newest preauthorised session of the tag, else remote, else closed-loop.
FirstOf(kinds) ==
  LET of(k) == Newest(Found(k, dev.tag))
  IN  IF of(kinds[1]) # 0 THEN of(kinds[1])
      ELSE IF of(kinds[2]) # 0 THEN of(kinds[2]) ELSE of(kinds[3])
Match ==
  /\ At("core", "match")
  /\ LET r == FirstOf(<<"preauth", "remote-started", "rfid">>)
     IN  IF r = 0 THEN Answers(Refused)
         ELSE Go("core", "authorize", [Blank EXCEPT !.row = r]) /\ UNCHANGED reply
  /\ UNCHANGED <<table, shelf, closed, tries, dev, jobs, missed, bound>>
AuthorizeRow ==
  /\ At("core", "authorize")
  /\ SetStatus(mem["core"].row, "authorized")
  /\ Answers([Refused EXCEPT !.ok = TRUE])
  /\ UNCHANGED <<made, latest, shelf, closed, tries, dev, jobs, missed, bound>>

\* StartTransaction: an authorized session of the tag, else one that Authorize
\* would have found (no closed-loop one), which is authorized first.
MatchAnyLive == FirstOf(<<"authorized", "started", "preauth">>)
MatchStart == FirstOf(<<"authorized", "preauth", "remote-started">>)
StartTransaction ==
  /\ At("core", "StartTransaction")
  /\ LET r == MatchStart
     IN  IF closed \/ r = 0 THEN Answers(Refused)
         ELSE /\ Go("core", IF rows[r].status = "authorized" THEN "start" ELSE "authorizeFirst",
                    [Blank EXCEPT !.row = r])
              /\ UNCHANGED reply
  /\ UNCHANGED <<table, shelf, closed, tries, dev, jobs, missed, bound>>
AuthorizeFirst ==
  /\ At("core", "authorizeFirst")
  /\ SetStatus(mem["core"].row, "authorized")
  /\ Go("core", "start", mem["core"])
  /\ UNCHANGED <<made, latest, shelf, closed, wire, jobs, missed, bound>>
StartRow ==
  /\ At("core", "start")
  /\ SetStatus(mem["core"].row, "started")
  /\ Answers([ok |-> TRUE, tx |-> rows[mem["core"].row].id])
  /\ bound' = mem["core"].row
  /\ UNCHANGED <<made, latest, shelf, closed, tries, dev, jobs, missed>>

\* StopTransaction: any row with that id; a charger that is closed is not heard, and a
\* number nobody has is accepted.
AnyRow(n) == {r \in Slots : rows[r].status # "unborn"}
Numbered(n) == {r \in Slots : rows[r].status # "unborn" /\ rows[r].id = n}
StopTransaction ==
  /\ At("core", "StopTransaction")
  /\ \/ closed /\ Answers(Refused)
     \/ ~closed /\ Numbered(dev.tx) = {} /\ Answers([Refused EXCEPT !.ok = TRUE])
     \/ /\ ~closed /\ UNCHANGED reply
        /\ \E r \in Numbered(dev.tx) : Go("core", "stop", [Blank EXCEPT !.row = r])
  /\ missed' = (missed \/ closed)
  /\ UNCHANGED <<table, shelf, closed, tries, dev, jobs, bound>>
StopRow ==
  /\ At("core", "stop")
  /\ rows' = [rows EXCEPT ![mem["core"].row].ended = TRUE]
  /\ jobs' = jobs \cup {mem["core"].row}
  /\ Answers([Refused EXCEPT !.ok = TRUE])
  /\ UNCHANGED <<made, latest, shelf, closed, tries, dev, missed, bound>>

\* The charger hears the answer, or the default one, a refusal.
Hears(r) ==
  /\ dev' = CASE dev.at = "authorizing" /\ r.ok -> [dev EXCEPT !.at = "ready"]
              [] dev.at = "starting" /\ r.ok -> [dev EXCEPT !.at = "charging", !.tx = r.tx]
              [] OTHER -> Free
  /\ Leave("core") /\ reply' = Refused /\ tries' = 0
Delivered ==
  /\ At("core", "reply") /\ Hears(reply)
  /\ UNCHANGED <<table, shelf, closed, jobs, missed, bound>>

\* A post that did not arrive, or its reply, is lost: the gateway posts it again.
Entry == CASE dev.at = "authorizing" -> "Authorize" [] dev.at = "starting" -> "StartTransaction"
           [] OTHER -> "StopTransaction"
Lost ==
  /\ Loses /\ pc["core"] \in {"Authorize", "StartTransaction", "StopTransaction", "reply"}
  /\ IF tries < MaxTries
     THEN Go("core", Entry, Blank) /\ tries' = tries + 1 /\ reply' = Refused /\ UNCHANGED dev
     ELSE Hears(Refused)
  /\ missed' = (missed \/ pc["core"] = "StopTransaction"
                       \/ (dev.at = "starting" /\ pc["core"] = "reply" /\ reply.ok))
  /\ UNCHANGED <<table, shelf, closed, jobs, bound>>

------------------------------------------------------------------------------
(* What ends a session, and the rest *)

\* OcppStopTransactionQueue finishes a session that was not paid by a bank card, and
\* its booking; if the calculation fails, nothing.
StopJob(r, calculated) ==
  /\ r \in jobs /\ jobs' = jobs \ {r}
  /\ IF calculated /\ rows[r].tag \notin Pans
     THEN /\ SetStatus(r, "finished")
          /\ CloseAll({b \in Places : bookings[b].row = r})
     ELSE UNCHANGED <<rows, bookings>>
  /\ UNCHANGED <<made, latest, booked, closed, pc, mem, wire, missed, bound>>

\* A bank card's session is captured or cancelled by the payment calls (CardPayment).
PaymentEnds(r, s) ==
  /\ rows[r].tag \in Pans /\ rows[r].status \in {"preauth", "authorized", "started"}
  /\ rows' = [rows EXCEPT ![r].status = s, ![r].ended = @ \/ s = "cancelled"]
  /\ UNCHANGED <<made, latest, shelf, closed, pc, mem, wire, jobs, missed, bound>>

OpensOrCloses ==
  /\ Closes /\ closed' = ~closed
  /\ UNCHANGED <<table, shelf, pc, mem, wire, jobs, missed, bound>>

------------------------------------------------------------------------------
Making(a) ==
  \/ CheckBusy(a) \/ CheckBooking(a) \/ Close(a) \/ FindOld(a) \/ Supersede(a)
  \/ Insert(a) \/ Count(a) \/ Link(a) \/ Send(a) \/ Rejected(a)
Booking(c) ==
  (\E label \in {"own", "any", "other"} : CheckBookings(c, label)) \/ Save(c) \/ AsksCharger(c)
Handler ==
  \/ Authorize \/ Match \/ AuthorizeRow
  \/ StartTransaction \/ AuthorizeFirst \/ StartRow \/ StopTransaction \/ StopRow

Step ==
  \/ \E c \in Customers : RemoteStart(c) \/ Reserve(c) \/ CancelReservation(c) \/ Booking(c)
  \/ \E p \in Pans : Preauth(p)
  \/ \E a \in Actors : Making(a)
  \/ \E t \in Tags : CallsAuthorize(t) \/ CallsStart(t)
  \/ CallsStop \/ Handler \/ Delivered \/ Lost
  \/ (\E b \in Places : Expires(b)) \/ FaultReported \/ OpensOrCloses
  \/ \E r \in Slots, calculated \in BOOLEAN : StopJob(r, calculated)
  \/ \E r \in Slots, s \in {"finished", "cancelled"} : PaymentEnds(r, s)

\* Which requests are making a session, or a booking.
MakesSession(a) == mem[a].kind # "none" /\ pc[a] \notin {"link", "send", "rejected"}
MakesBooking(a) ==
  pc[a] \in {"own", "any", "other", "save"} \/ mem[a].next \in {"any", "other", "save"}
NoteHistory ==
  /\ stale' = [a \in Actors |->
       /\ mem[a].row # 0 /\ mem'[a].row = mem[a].row /\ pc'[a] # "idle"
       /\ stale[a] \/ (pc'[a] = pc[a] /\ rows'[mem[a].row] # rows[mem[a].row])]
  /\ crowded' = (crowded \/ \E a, b \in Actors : a # b /\ MakesSession(a)' /\ MakesSession(b)')
  /\ contended' = (contended \/ \E a, b \in Actors : a # b /\ MakesBooking(a)' /\ MakesBooking(b)')

Next == Step /\ NoteHistory
SafeSpec == Init /\ [][Next]_vars

\* Queries return, jobs are run, a command and a call get an answer, and a car is full
\* some day; nobody has to begin anything.
Spec ==
  /\ SafeSpec
  /\ \A a \in Actors : WF_vars(Making(a) /\ NoteHistory)
  /\ \A c \in Customers : WF_vars(Booking(c) /\ NoteHistory)
  /\ WF_vars((Handler \/ Delivered) /\ NoteHistory)
  /\ WF_vars(CallsStop /\ NoteHistory)
  /\ \A r \in Slots : WF_vars((\E calculated \in BOOLEAN : StopJob(r, calculated)) /\ NoteHistory)

------------------------------------------------------------------------------
(* Properties *)

Kinds == {"preauth", "remote-started", "rfid"}
Statuses == {"unborn", "authorized", "started", "finished", "cancelled"} \cup Kinds
Rows == [status : Statuses, tag : Tags \cup {0}, id : Nat, by : Actors, ended : BOOLEAN]
Bookings == [customer : Actors, tag : Tags \cup {0}, row : Slots \cup {0}, open : BOOLEAN,
             expired : BOOLEAN]
Labels == {"idle", "busy", "booking", "close", "find", "supersede", "insert", "count",
           "link", "send", "rejected", "own", "any", "other", "save", "reserve", "cancel",
           "Authorize", "match", "authorize", "StartTransaction", "authorizeFirst", "start",
           "StopTransaction", "stop", "reply"}
Memory == [latest : Nat, kind : Kinds \cup {"none"}, tag : Tags \cup {0},
           row : Slots \cup {0}, place : Places \cup {0},
           next : {"none", "expired", "any", "other", "save", "idle"}]

\* The variables keep their types.
TypeOK ==
  /\ rows \in [Slots -> Rows] /\ made \in 0..MaxRows /\ latest \in Nat
  /\ bookings \in [Places -> Bookings] /\ booked \in 0..MaxBookings
  /\ closed \in BOOLEAN
  /\ pc \in [Actors -> Labels] /\ mem \in [Actors -> Memory]
  /\ reply \in [ok : BOOLEAN, tx : Nat] /\ tries \in 0..MaxTries
  /\ dev \in [at : {"free", "ready", "authorizing", "starting", "charging", "stopping"},
              tag : Tags \cup {0}, tx : Nat]
  /\ jobs \subseteq Slots
  /\ stale \in [Actors -> BOOLEAN]
  /\ crowded \in BOOLEAN /\ contended \in BOOLEAN /\ missed \in BOOLEAN
  /\ bound \in Slots \cup {0}

\* The number a charger stops, meters and pays a session by belongs to one session,
\* as long as no two sessions of the charger were being made at the same time.
IdsUnique ==
  ~crowded => \A r, q \in 1..made : r # q => rows[r].id # rows[q].id

\* The sessions that count as running are the one the charger is charging: whatever is
\* retried, superseded or reserved, a started row that was not stopped is the last one
\* whose StartTransaction was carried out, and the charger is still at it - unless an
\* accepted start or a stop never got through, or two rows have one number.
BooksFollowCharger ==
  ~missed /\ ~crowded =>
    \A r \in Slots : rows[r].status = "started" /\ ~rows[r].ended =>
      /\ r = bound
      /\ dev.at \in {"charging", "stopping"} \/ (dev.at = "starting" /\ pc["core"] = "reply")

\* A charger has one open booking, as long as no two customers were booking at once.
OneBooking == ~contended => \A b, d \in Open : b = d

\* A session only moves on: it is not revived, taken back to an earlier status or
\* cancelled under a charging car, but by an actor that decided before the row changed
\* (or, for a bank card's, by its payment).
Rank(s) == CASE s = "unborn" -> 0 [] s \in Kinds -> 1 [] s = "authorized" -> 2
             [] s = "started" -> 3 [] OTHER -> 4
SessionMovesForward ==
  [][\A r \in Slots :
       LET was == rows[r].status
           is == rows'[r].status
       IN  Rank(is) < Rank(was) \/ (was = "started" /\ is = "cancelled" /\ rows[r].tag \notin Pans)
           => \E a \in Actors : mem[a].row = r /\ stale[a] /\ pc'[a] # pc[a]]_vars

\* A customer or a closed-loop card that finds the charger booked by somebody else is
\* turned down, as long as no two customers were booking at once.
ReservationHolds ==
  [][\A a \in Actors, b \in Places :
       pc[a] = "booking" /\ pc'[a] \in {"find", "close"} /\ bookings[b].open
         => bookings[b].expired \/ bookings[b].customer = a \/ contended]_vars

\* A car that is full some day gets its session stopped: no started row is left behind
\* by the retries and overlaps, unless an accepted start or a stop did not get through
\* or two rows have one number.
StartedIsStopped ==
  \A r \in Slots :
    (rows[r].status = "started") ~>
       (rows[r].status # "started" \/ rows[r].ended \/ missed \/ crowded)
=============================================================================
