----------------------- MODULE ChargingSessionsProofs -----------------------
(***************************************************************************)
(* What ChargingSessions keeps for any number of customers, cards, rows    *)
(* and bookings: its types, and the properties about numbers, bookings and *)
(* the order of a session's statuses.                                      *)
(***************************************************************************)
EXTENDS ChargingSessions, WellFoundedInduction, TLAPS

USE DEF At

\* What an actor at a label has in hand: the kind of session it makes, what to do
\* after closing a booking, and the row it found or made.
Fits(label, m) ==
  /\ label \in {"busy", "booking", "find", "supersede", "insert", "count"} => m.kind \in Kinds
  /\ label = "close" => m.next # "none" /\ (m.next = "expired" => m.kind \in Kinds)
  /\ label \in {"supersede", "count", "link", "send", "rejected", "authorize",
                "authorizeFirst", "start", "stop"} => m.row \in Slots

Control ==
  /\ pc \in [Actors -> Labels] /\ mem \in [Actors -> Memory]
  /\ \A a \in Actors : Fits(pc[a], mem[a])
Table == rows \in [Slots -> Rows] /\ made \in 0..MaxRows /\ latest \in Nat
Shelf == bookings \in [Places -> Bookings] /\ booked \in 0..MaxBookings
Wire ==
  /\ reply \in [ok : BOOLEAN, tx : Nat] /\ tries \in 0..MaxTries
  /\ dev \in [at : {"free", "ready", "authorizing", "starting", "charging", "stopping"},
              tag : Tags \cup {0}, tx : Nat]
Rest ==
  /\ closed \in BOOLEAN /\ jobs \subseteq Slots /\ missed \in BOOLEAN
  /\ bound \in Slots \cup {0}
Typed == Control /\ Table /\ Shelf /\ Wire /\ Rest
History ==
  /\ stale \in [Actors -> BOOLEAN]
  /\ crowded \in BOOLEAN /\ contended \in BOOLEAN

\* The handler, the customers and the cards are the actors.
LEMMA CoreActs == "core" \in Actors /\ Customers \subseteq Actors /\ Pans \subseteq Actors
  BY DEF Actors

\* An actor that goes to a place with what it needs there keeps its types.
LEMMA GoTyped ==
  ASSUME Control, NEW a, NEW label \in Labels, NEW m \in Memory,
         Fits(label, m), Go(a, label, m)
  PROVE  Control'
  BY DEF Control, Go

\* An empty memory fits the places that need none.
LEMMA BlankTyped == Blank \in Memory /\ \A label \in {"idle", "match", "reply", "own", "Authorize",
                      "StartTransaction", "StopTransaction"} : Fits(label, Blank)
  BY DEF Blank, Memory, Fits, Kinds

\* So does an actor that is done,
LEMMA LeaveTyped ==
  ASSUME Control, NEW a, Leave(a) PROVE Control'
<1>1. "idle" \in Labels
  BY DEF Labels
<1> QED
  BY <1>1, BlankTyped, GoTyped DEF Leave

\* the handler that answers,
LEMMA AnswersTyped ==
  ASSUME Control, NEW r, Answers(r) PROVE Control'
<1>1. "reply" \in Labels
  BY DEF Labels
<1> QED
  BY <1>1, BlankTyped, GoTyped DEF Answers

\* and one that is refused.
LEMMA TurnedDownTyped ==
  ASSUME Control, NEW a, TurnedDown(a), reply \in [ok : BOOLEAN, tx : Nat]
  PROVE  Control' /\ reply' \in [ok : BOOLEAN, tx : Nat]
<1>1. Refused \in [ok : BOOLEAN, tx : Nat]
  BY DEF Refused
<1> QED
  BY <1>1, LeaveTyped, AnswersTyped DEF TurnedDown, Answers

\* A row's status is set.
LEMMA SetStatusTyped ==
  ASSUME Table, NEW r, NEW s \in Statuses, SetStatus(r, s), UNCHANGED <<made, latest>>
  PROVE  Table'
  BY DEF Table, SetStatus, Rows

\* Bookings are closed.
LEMMA CloseAllTyped ==
  ASSUME Shelf, NEW B, CloseAll(B), UNCHANGED booked PROVE Shelf'
<1>1. \A b \in Places : [bookings[b] EXCEPT !.open = FALSE] \in Bookings
  BY DEF Shelf, Bookings
<1> QED
  BY <1>1 DEF Shelf, CloseAll

\* A nonempty set of numbers up to n has a greatest one.
LEMMA Least ==
  ASSUME NEW T \in SUBSET Nat, T # {}
  PROVE  \E x \in T : \A y \in T : x <= y
<1> DEFINE R == {ss \in Nat \X Nat : ss[1] < ss[2]}
<1>1. IsWellFoundedOn(R, Nat)
  BY NatLessThanWellFounded, Zenon DEF OpToRel
<1>2. PICK x \in T : \A y \in T : ~ (<<y, x>> \in R)
  <2> HIDE DEF R
  <2> QED
    BY <1>1, WFMin, Zenon
<1>3. ASSUME NEW y \in T PROVE x <= y
  <2>1. <<y, x>> \in Nat \X Nat /\ <<y, x>> \notin R
    BY <1>2
  <2> QED
    BY <2>1
<1> QED
  BY <1>3

\* A set of numbers has a greatest one.
LEMMA Greatest ==
  ASSUME NEW n \in Nat, NEW S \in SUBSET (1..n), S # {}
  PROVE  \E x \in S : \A y \in S : y <= x
<1> DEFINE T == {n - s : s \in S}
<1>1. \A s \in S : n - s \in Nat
  OBVIOUS
<1>2. T \in SUBSET Nat /\ T # {}
  BY <1>1
<1>3. PICK x \in T : \A y \in T : x <= y
  <2> HIDE DEF T
  <2> QED
    BY <1>2, Least
<1>4. PICK s \in S : x = n - s
  BY <1>3
<1>5. ASSUME NEW y \in S PROVE y <= s
  <2>1. n - s <= n - y
    BY <1>3, <1>4
  <2>2. y \in 1..n /\ s \in 1..n
    BY Zenon
  <2> QED
    BY <2>1, <2>2
<1> QED
  BY <1>5

\* A query for the newest row returns one it asked for, or none.
LEMMA NewestIs ==
  ASSUME NEW R \in SUBSET Slots
  PROVE  IF R = {} THEN Newest(R) = 0 ELSE Newest(R) \in R
<1>1. ASSUME R # {} PROVE \E x \in R : \A y \in R : y <= x
  BY <1>1, Greatest, SessionsAssumption DEF Slots
<1> QED
  BY <1>1 DEF Newest

\* The row an event is for has its tag, and one of the statuses it looked for.
LEMMA FirstOfIs ==
  ASSUME NEW k1, NEW k2, NEW k3, NEW r, r = FirstOf(<<k1, k2, k3>>)
  PROVE  \/ r = 0
         \/ r \in Slots /\ rows[r].tag = dev.tag /\ rows[r].status \in {k1, k2, k3}
<1>1. ASSUME NEW k, NEW n, n = Newest(Found(k, dev.tag))
      PROVE  n = 0 \/ (n \in Slots /\ rows[n].tag = dev.tag /\ rows[n].status = k)
  <2>1. Found(k, dev.tag) \in SUBSET Slots
    BY DEF Found
  <2>2. n = 0 \/ n \in Found(k, dev.tag)
    BY <1>1, <2>1, NewestIs
  <2> QED
    BY <2>2 DEF Found
<1>2. \E k \in {k1, k2, k3} : r = Newest(Found(k, dev.tag))
  BY DEF FirstOf
<1> QED
  BY <1>1, <1>2
\* A row's fields and what an actor has in hand can be set to values of their types.
LEMMA MemoryTyped ==
  ASSUME NEW m \in Memory
  PROVE  /\ \A r \in Slots \cup {0} : [m EXCEPT !.row = r] \in Memory
         /\ \A t \in Tags \cup {0} : [m EXCEPT !.tag = t] \in Memory
         /\ \A b \in Places \cup {0} : [m EXCEPT !.place = b] \in Memory
         /\ \A b \in Places, n \in {"expired", "any", "other", "save", "idle"} :
              [m EXCEPT !.place = b, !.next = n] \in Memory
         /\ [m EXCEPT !.next = "idle"] \in Memory
  BY DEF Memory

\* A row is exchanged for another one.
LEMMA RowTyped ==
  ASSUME Table, NEW r, NEW row \in Rows, rows' = [rows EXCEPT ![r] = row]
  PROVE  rows' \in [Slots -> Rows]
  BY DEF Table

\* The places, by name.
LEMMA LabelsAre ==
  {"idle", "busy", "booking", "close", "find", "supersede", "insert", "count",
   "link", "send", "rejected", "own", "any", "other", "save", "reserve", "cancel",
   "Authorize", "match", "authorize", "StartTransaction", "authorizeFirst", "start",
   "StopTransaction", "stop", "reply"} = Labels
  BY DEF Labels

\* A request that begins has its kind and its tag.
LEMMA BeginsTyped ==
  ASSUME Control, latest \in Nat, NEW a, NEW label \in {"busy", "find"}, NEW kind \in Kinds,
         NEW tag \in Tags \cup {0}, Begins(a, label, kind, tag)
  PROVE  Control'
<1> DEFINE m == [Blank EXCEPT !.latest = latest, !.kind = kind, !.tag = tag]
<1>1. m \in Memory
  BY DEF Memory, Blank
<1>2. Fits(label, m)
  BY DEF Fits, Blank
<1>3. label \in Labels
  BY DEF Labels
<1> HIDE DEF m
<1>4. Go(a, label, m)
  BY DEF Begins, m
<1> QED
  BY <1>1, <1>2, <1>3, <1>4, GoTyped

\* A request goes on without a booking.
LEMMA WithoutBookingTyped ==
  ASSUME Control, NEW a \in Actors, mem[a].kind \in Kinds, WithoutBooking(a)
  PROVE  Control'
<1>1. mem[a] \in Memory /\ "find" \in Labels
  BY LabelsAre DEF Control
<1>2. CASE Go(a, "find", mem[a])
  BY <1>1, <1>2, GoTyped DEF Fits
<1>3. ASSUME NEW t \in FreshTags, Go(a, "find", [mem[a] EXCEPT !.tag = t]) PROVE Control'
  <2>1. [mem[a] EXCEPT !.tag = t] \in Memory
    BY <1>1, MemoryTyped DEF Tags
  <2>2. Fits("find", [mem[a] EXCEPT !.tag = t])
    BY <1>1 DEF Fits, Memory
  <2> QED
    BY <1>1, <1>3, <2>1, <2>2, GoTyped
<1> QED
  BY <1>2, <1>3 DEF WithoutBooking

\* The steps that make a session keep the types.
LEMMA MakingTyped ==
  ASSUME Typed, NEW a \in Actors, Making(a) PROVE Typed'
<1>0. /\ mem[a] \in Memory /\ Fits(pc[a], mem[a])
      /\ Control /\ Table /\ Shelf /\ Wire /\ Rest
  BY DEF Typed, Control
<1>t. UNCHANGED table => Table'
  BY <1>0 DEF Table, table
<1>s. UNCHANGED shelf => Shelf'
  BY <1>0 DEF Shelf, shelf
<1>w. UNCHANGED wire => Wire'
  BY <1>0 DEF Wire, wire
<1>r. UNCHANGED <<closed, jobs, missed, bound>> => Rest'
  BY <1>0 DEF Rest
<1>1. CASE CheckBusy(a)
  <2>1. mem[a].kind \in Kinds
    BY <1>0, <1>1 DEF CheckBusy, Fits
  <2>2. Control' /\ reply' \in [ok : BOOLEAN, tx : Nat]
    <3>1. CASE TurnedDown(a)
      BY <1>0, <3>1, TurnedDownTyped DEF Wire
    <3>2. CASE Go(a, "booking", mem[a]) /\ UNCHANGED reply
      BY <1>0, <2>1, <3>2, LabelsAre, GoTyped DEF Wire, Fits
    <3> QED
      BY <1>1, <3>1, <3>2 DEF CheckBusy
  <2>3. Wire'
    BY <1>0, <1>1, <2>2 DEF CheckBusy, Wire
  <2> QED
    BY <1>1, <1>t, <1>s, <1>r, <2>2, <2>3 DEF CheckBusy, Typed
<1>2. CASE CheckBooking(a)
  <2>1. mem[a].kind \in Kinds
    BY <1>0, <1>2 DEF CheckBooking, Fits
  <2>2. Control' /\ reply' \in [ok : BOOLEAN, tx : Nat]
    <3>1. CASE WithoutBooking(a) /\ UNCHANGED reply
      BY <1>0, <2>1, <3>1, WithoutBookingTyped DEF Wire
    <3>2. CASE TurnedDown(a)
      BY <1>0, <3>2, TurnedDownTyped DEF Wire
    <3>3. ASSUME NEW b \in Open, UNCHANGED reply,
                 \/ Go(a, "close", [mem[a] EXCEPT !.place = b, !.next = "expired"])
                 \/ Go(a, "find", [mem[a] EXCEPT !.tag = bookings[b].tag])
          PROVE  Control' /\ reply' \in [ok : BOOLEAN, tx : Nat]
      <4>1. b \in Places /\ bookings[b].tag \in Tags \cup {0}
        BY <1>0 DEF Open, Shelf, Bookings
      <4>2. /\ [mem[a] EXCEPT !.place = b, !.next = "expired"] \in Memory
            /\ [mem[a] EXCEPT !.tag = bookings[b].tag] \in Memory
        BY <1>0, <4>1, MemoryTyped
      <4>3. /\ Fits("close", [mem[a] EXCEPT !.place = b, !.next = "expired"])
            /\ Fits("find", [mem[a] EXCEPT !.tag = bookings[b].tag])
        BY <1>0, <2>1 DEF Fits, Memory
      <4> QED
        BY <1>0, <3>3, <4>2, <4>3, LabelsAre, GoTyped DEF Wire
    <3> QED
      BY <1>2, <3>1, <3>2, <3>3 DEF CheckBooking
  <2>3. Wire'
    BY <1>0, <1>2, <2>2 DEF CheckBooking, Wire
  <2> QED
    BY <1>2, <1>t, <1>s, <1>r, <2>2, <2>3 DEF CheckBooking, Typed
<1>3. CASE Close(a)
  <2>1. mem[a].next \in {"expired", "any", "other", "save", "idle"}
    BY <1>0, <1>3 DEF Close, Fits, Memory
  <2>2. Control'
    <3>1. CASE mem[a].next = "expired"
      BY <1>0, <1>3, <3>1, WithoutBookingTyped DEF Close, Fits
    <3>2. CASE mem[a].next # "expired"
      <4>1. [mem[a] EXCEPT !.place = 0] \in Memory
        BY <1>0, MemoryTyped
      <4>2. Fits(mem[a].next, [mem[a] EXCEPT !.place = 0])
        BY <2>1, <3>2 DEF Fits
      <4> QED
        BY <1>0, <1>3, <2>1, <3>2, <4>1, <4>2, LabelsAre, GoTyped DEF Close
    <3> QED
      BY <3>1, <3>2
  <2>3. Shelf'
    BY <1>0, <1>3, CloseAllTyped DEF Close
  <2> QED
    BY <1>3, <1>t, <1>w, <1>r, <2>2, <2>3 DEF Close, Typed
<1>4. CASE FindOld(a)
  <2> DEFINE old == Newest(Found(mem[a].kind, mem[a].tag))
             m == [mem[a] EXCEPT !.row = old]
  <2>1. old \in Slots \cup {0}
    <3>1. Found(mem[a].kind, mem[a].tag) \in SUBSET Slots
      BY DEF Found
    <3> QED
      BY <3>1, NewestIs
  <2> HIDE DEF old
  <2>2. m \in Memory
    BY <1>0, <2>1, MemoryTyped
  <2>3. Fits(IF old = 0 THEN "insert" ELSE "supersede", m)
    BY <1>0, <1>4, <2>1 DEF FindOld, Fits, Memory
  <2>4. Go(a, IF old = 0 THEN "insert" ELSE "supersede", m)
    BY <1>4 DEF FindOld, old
  <2>5. Control'
    <3> HIDE DEF m
    <3>1. CASE old = 0
      BY <1>0, <2>2, <2>3, <2>4, <3>1, LabelsAre, GoTyped
    <3>2. CASE old # 0
      BY <1>0, <2>2, <2>3, <2>4, <3>2, LabelsAre, GoTyped
    <3> QED
      BY <3>1, <3>2
  <2> QED
    BY <1>4, <1>t, <1>s, <1>w, <1>r, <2>5 DEF FindOld, Typed
<1>5. CASE Supersede(a)
  <2>1. [mem[a] EXCEPT !.row = 0] \in Memory
    BY <1>0, MemoryTyped
  <2>2. Fits("insert", [mem[a] EXCEPT !.row = 0])
    BY <1>0, <1>5 DEF Supersede, Fits, Memory
  <2>3. Control'
    BY <1>0, <1>5, <2>1, <2>2, LabelsAre, GoTyped DEF Supersede
  <2>4. CancelledStatus \in Statuses
    BY DEF CancelledStatus, Statuses
  <2>5. Table'
    BY <1>0, <1>5, <2>4, SetStatusTyped DEF Supersede
  <2> QED
    BY <1>5, <1>s, <1>w, <1>r, <2>3, <2>5 DEF Supersede, Typed
<1>6. CASE Insert(a)
  <2>1. made + 1 \in Slots
    BY <1>0, <1>6, SessionsAssumption DEF Insert, Table, Slots
  <2>2. [mem[a] EXCEPT !.row = made + 1] \in Memory
    BY <1>0, <2>1, MemoryTyped
  <2>3. Fits("count", [mem[a] EXCEPT !.row = made + 1])
    BY <1>0, <1>6, <2>1 DEF Insert, Fits, Memory
  <2>4. Control'
    BY <1>0, <1>6, <2>2, <2>3, LabelsAre, GoTyped DEF Insert
  <2>5. [status |-> mem[a].kind, tag |-> mem[a].tag, by |-> a, ended |-> FALSE,
         id |-> mem[a].latest + 1] \in Rows
    <3>1. mem[a].kind \in Statuses
      BY <1>0, <1>6 DEF Insert, Fits, Statuses
    <3>2. mem[a].tag \in Tags \cup {0} /\ mem[a].latest + 1 \in Nat
      BY <1>0 DEF Memory
    <3> QED
      BY <3>1, <3>2 DEF Rows
  <2>6. rows' \in [Slots -> Rows]
    BY <1>0, <1>6, <2>5, RowTyped DEF Insert
  <2>7. Table'
    BY <1>0, <1>6, <2>1, <2>6, SessionsAssumption DEF Insert, Table, Slots
  <2> QED
    BY <1>6, <1>s, <1>w, <1>r, <2>4, <2>7 DEF Insert, Typed
<1>7. CASE Count(a)
  <2>1. Control'
    BY <1>0, <1>7, LabelsAre, LeaveTyped, GoTyped DEF Count, Fits
  <2>2. Table'
    BY <1>0, <1>7 DEF Count, NumberOf, Table, Memory
  <2> QED
    BY <1>7, <1>s, <1>w, <1>r, <2>1, <2>2 DEF Count, Typed
<1>8. CASE Link(a)
  <2>1. Control'
    <3>1. CASE Go(a, "match", Blank)
      BY <1>0, <3>1, BlankTyped, LabelsAre, GoTyped
    <3>2. CASE Go(a, "send", mem[a])
      BY <1>0, <1>8, <3>2, LabelsAre, GoTyped DEF Fits, Link
    <3> QED
      BY <1>8, <3>1, <3>2 DEF Link
  <2>2. Shelf'
    <3>1. mem[a].row \in Slots \cup {0}
      BY <1>0 DEF Memory
    <3>2. \A b \in Places : [bookings[b] EXCEPT !.row = mem[a].row] \in Bookings
      BY <1>0, <3>1 DEF Shelf, Bookings
    <3> QED
      BY <1>0, <1>8, <3>2 DEF Link, Shelf
  <2> QED
    BY <1>8, <1>t, <1>w, <1>r, <2>1, <2>2 DEF Link, Typed
<1>9. CASE Send(a)
  <2>1. Control'
    BY <1>0, <1>9, LabelsAre, LeaveTyped, GoTyped DEF Send, Fits
  <2>2. Wire'
    <3>1. mem[a].tag \in Tags \cup {0}
      BY <1>0 DEF Memory
    <3>2. dev' = dev \/ dev' = [at |-> "ready", tag |-> mem[a].tag, tx |-> 0]
      BY <1>9 DEF Send, Free
    <3>3. UNCHANGED <<reply, tries>>
      BY <1>9 DEF Send
    <3> QED
      BY <1>0, <3>1, <3>2, <3>3 DEF Wire
  <2> QED
    BY <1>9, <1>t, <1>s, <1>r, <2>1, <2>2 DEF Send, Typed
<1>10. CASE Rejected(a)
  <2>1. CancelledStatus \in Statuses
    BY DEF CancelledStatus, Statuses
  <2>2. Table'
    BY <1>0, <1>10, <2>1, SetStatusTyped DEF Rejected
  <2> QED
    BY <1>0, <1>10, <1>s, <1>w, <1>r, <2>2, LeaveTyped DEF Rejected, Typed
<1> QED
  BY <1>1, <1>2, <1>3, <1>4, <1>5, <1>6, <1>7, <1>8, <1>9, <1>10 DEF Making
\* The steps of a customer's booking keep the types.
LEMMA BookingTyped ==
  ASSUME Typed, NEW c \in Customers,
         Reserve(c) \/ CancelReservation(c) \/ Booking(c)
  PROVE  Typed'
<1>0. /\ c \in Actors /\ mem[c] \in Memory /\ Fits(pc[c], mem[c])
      /\ Control /\ Table /\ Shelf /\ Wire /\ Rest
  BY CoreActs DEF Typed, Control
<1>1. UNCHANGED <<table, wire, closed, jobs, missed, bound>>
  BY DEF Reserve, CancelReservation, Booking, CheckBookings, Save, AsksCharger, shelf
<1>2. Table' /\ Wire' /\ Rest'
  BY <1>0, <1>1 DEF table, wire, Table, Wire, Rest
<1>s. UNCHANGED shelf => Shelf'
  BY <1>0 DEF Shelf, shelf
<1>3. CASE Reserve(c)
  BY <1>0, <1>2, <1>3, <1>s, BlankTyped, LabelsAre, GoTyped DEF Reserve, Typed
<1>4. CASE CancelReservation(c)
  <2>1. PICK b \in Mine(c, "own") : Go(c, "cancel", [Blank EXCEPT !.place = b])
    BY <1>4 DEF CancelReservation
  <2>2. b \in Places
    BY DEF Mine, Open
  <2>3. [Blank EXCEPT !.place = b] \in Memory /\ Fits("cancel", [Blank EXCEPT !.place = b])
    BY <2>2, BlankTyped, MemoryTyped DEF Fits
  <2>4. Control'
    BY <1>0, <2>1, <2>3, LabelsAre, GoTyped
  <2> QED
    BY <1>2, <1>4, <1>s, <2>4 DEF CancelReservation, Typed
<1>5. ASSUME NEW label \in {"own", "any", "other"}, CheckBookings(c, label) PROVE Typed'
  <2>1. After(label) \in {"any", "other", "save"}
    BY DEF After
  <2>2. CASE Go(c, After(label), mem[c])
    <3>1. Fits(After(label), mem[c])
      BY <2>1 DEF Fits
    <3>2. Control'
      BY <1>0, <2>1, <2>2, <3>1, LabelsAre, GoTyped
    <3> QED
      BY <1>2, <1>5, <1>s, <3>2 DEF CheckBookings, Typed
  <2>3. ASSUME NEW b \in Mine(c, label),
               Go(c, "close", [mem[c] EXCEPT !.place = b, !.next = After(label)])
        PROVE  Typed'
    <3> DEFINE m == [mem[c] EXCEPT !.place = b, !.next = After(label)]
    <3>1. m \in Memory
      <4>1. b \in Places
        BY DEF Mine, Open
      <4> QED
        BY <1>0, <2>1, <4>1, MemoryTyped
    <3>2. Fits("close", m)
      BY <1>0, <2>1 DEF Fits, Memory
    <3>3. Control'
      <4> HIDE DEF m
      <4> QED
        BY <1>0, <2>3, <3>1, <3>2, LabelsAre, GoTyped DEF m
    <3> QED
      BY <1>2, <1>5, <1>s, <3>3 DEF CheckBookings, Typed
  <2>4. CASE Leave(c)
    BY <1>0, <1>2, <1>5, <1>s, <2>4, LeaveTyped DEF CheckBookings, Typed
  <2> QED
    BY <1>5, <2>2, <2>3, <2>4 DEF CheckBookings
<1>6. CASE Save(c)
  <2>1. booked + 1 \in Places
    BY <1>0, <1>6, SessionsAssumption DEF Save, Shelf, Places
  <2>2. [Blank EXCEPT !.place = booked + 1] \in Memory
    BY <2>1, BlankTyped, MemoryTyped
  <2>3. Fits("reserve", [Blank EXCEPT !.place = booked + 1])
    BY DEF Fits
  <2>4. Control'
    BY <1>0, <1>6, <2>2, <2>3, LabelsAre, GoTyped DEF Save
  <2>5. Shelf'
    <3>1. \A t \in FreshTags : [customer |-> c, tag |-> t, row |-> 0, open |-> TRUE,
                                expired |-> FALSE] \in Bookings
      BY <1>0 DEF Bookings, Tags
    <3>2. bookings' \in [Places -> Bookings]
      BY <1>0, <1>6, <3>1 DEF Save, Shelf
    <3>3. booked' \in 0..MaxBookings
      BY <1>0, <1>6, SessionsAssumption DEF Save, Shelf
    <3> QED
      BY <3>2, <3>3 DEF Shelf
  <2> QED
    BY <1>2, <2>4, <2>5 DEF Typed
<1>7. CASE AsksCharger(c)
  <2>1. [mem[c] EXCEPT !.next = "idle"] \in Memory
    BY <1>0, MemoryTyped
  <2>2. Fits("close", [mem[c] EXCEPT !.next = "idle"])
    BY <1>0 DEF Fits, Memory
  <2>3. Control'
    BY <1>0, <1>7, <2>1, <2>2, LabelsAre, LeaveTyped, GoTyped DEF AsksCharger
  <2> QED
    BY <1>2, <1>7, <1>s, <2>3 DEF AsksCharger, Typed
<1> QED
  BY <1>3, <1>4, <1>5, <1>6, <1>7 DEF Booking

\* What the charger hears keeps the types of the wire.
LEMMA HearsTyped ==
  ASSUME Control, Wire, NEW r \in [ok : BOOLEAN, tx : Nat], Hears(r)
  PROVE  Control' /\ Wire'
<1>1. Control'
  BY LeaveTyped DEF Hears
<1>2. reply' \in [ok : BOOLEAN, tx : Nat] /\ tries' \in 0..MaxTries
  BY SessionsAssumption DEF Hears, Refused
<1>3. dev.tag \in Tags \cup {0} /\ dev.tx \in Nat /\ r.tx \in Nat
  BY DEF Wire
<1> DEFINE Devices == [at : {"free", "ready", "authorizing", "starting", "charging", "stopping"},
                       tag : Tags \cup {0}, tx : Nat]
<1>4. [dev EXCEPT !.at = "ready"] \in Devices
  BY DEF Wire
<1>5. [dev EXCEPT !.at = "charging", !.tx = r.tx] \in Devices
  BY <1>3 DEF Wire
<1>6. Free \in Devices
  BY DEF Free
<1>7. dev' \in Devices
  <2> HIDE DEF Devices
  <2> QED
    BY <1>4, <1>5, <1>6 DEF Hears
<1> QED
  BY <1>1, <1>2, <1>7 DEF Wire

\* The charger's calls and the steps of their handlers keep the types.
LEMMA CallTyped ==
  ASSUME Typed, NEW at \in {"authorizing", "starting", "stopping"},
         NEW entry \in {"Authorize", "StartTransaction", "StopTransaction"},
         NEW tag \in Tags \cup {0}, Calls(at, entry, tag)
  PROVE  Typed'
<1>1. Control'
  BY BlankTyped, LabelsAre, GoTyped DEF Calls, Typed
<1>2. Wire'
  <2>1. tries' \in 0..MaxTries
    BY SessionsAssumption DEF Calls
  <2>2. dev' = [at |-> at, tag |-> tag, tx |-> dev.tx] /\ reply' = reply
    BY DEF Calls, Typed, Wire
  <2>3. dev.tx \in Nat /\ reply \in [ok : BOOLEAN, tx : Nat]
    BY DEF Typed, Wire
  <2> QED
    BY <2>1, <2>2, <2>3 DEF Wire
<1>3. Table' /\ Shelf' /\ Rest'
  BY DEF Calls, Typed, Table, Shelf, Rest, table, shelf
<1> QED
  BY <1>1, <1>2, <1>3 DEF Typed

\* The handler's steps and the charger's calls keep the types.
LEMMA HandlerTyped ==
  ASSUME Typed, Handler \/ Delivered \/ Lost PROVE Typed'
<1>0. /\ "core" \in Actors /\ mem["core"] \in Memory /\ Fits(pc["core"], mem["core"])
      /\ Control /\ Table /\ Shelf /\ Wire /\ Rest
  BY CoreActs DEF Typed, Control
<1>t. UNCHANGED table => Table'
  BY <1>0 DEF Table, table
<1>1. UNCHANGED <<shelf, closed>>
  BY DEF Handler, Delivered, Lost, Authorize, Match, AuthorizeRow, StartTransaction,
         AuthorizeFirst, StartRow, StopTransaction, StopRow
<1>2. Shelf'
  BY <1>0, <1>1 DEF Shelf, shelf
<1>r. UNCHANGED <<jobs, missed, bound>> => Rest'
  BY <1>0, <1>1 DEF Rest
<1>3. Refused \in [ok : BOOLEAN, tx : Nat] /\ [Refused EXCEPT !.ok = TRUE] \in [ok : BOOLEAN, tx : Nat]
  BY DEF Refused
<1>a. ASSUME NEW r \in [ok : BOOLEAN, tx : Nat], Answers(r), UNCHANGED <<tries, dev>>
      PROVE  Control' /\ Wire'
  BY <1>0, <1>a, AnswersTyped DEF Answers, Wire
<1>b. ASSUME NEW label \in {"authorize", "authorizeFirst", "start", "stop"}, NEW r \in Slots,
             Go("core", label, [Blank EXCEPT !.row = r])
      PROVE  Control'
  <2>1. [Blank EXCEPT !.row = r] \in Memory
    BY BlankTyped, MemoryTyped
  <2>2. Fits(label, [Blank EXCEPT !.row = r])
    BY DEF Fits, Blank
  <2> QED
    BY <1>0, <1>b, <2>1, <2>2, LabelsAre, GoTyped
<1>w. UNCHANGED <<reply, tries, dev>> => Wire'
  BY <1>0 DEF Wire
<1>4. CASE Authorize
  <2>1. CASE Go("core", "match", Blank) /\ UNCHANGED reply
    BY <1>0, <1>2, <1>4, <1>t, <1>r, <1>w, <2>1, BlankTyped, LabelsAre, GoTyped
    DEF Authorize, Typed
  <2>2. CASE Answers(Refused)
    BY <1>2, <1>3, <1>4, <1>t, <1>r, <1>a, <2>2 DEF Authorize, Typed
  <2>3. CASE Begins("core", "busy", "rfid", dev.tag) /\ UNCHANGED reply
    <3>1. dev.tag \in Tags \cup {0}
      BY <1>0 DEF Wire
    <3>2. Control'
      BY <1>0, <2>3, <3>1, BeginsTyped DEF Kinds, Table
    <3> QED
      BY <1>2, <1>4, <1>t, <1>r, <1>w, <2>3, <3>2 DEF Authorize, Typed
  <2> QED
    BY <1>4, <2>1, <2>2, <2>3 DEF Authorize
<1>5. CASE Match
  <2>1. PICK r : r = FirstOf(<<"preauth", "remote-started", "rfid">>)
    OBVIOUS
  <2>2. CASE Answers(Refused)
    BY <1>2, <1>3, <1>5, <1>t, <1>r, <1>a, <2>2 DEF Match, Typed
  <2>3. CASE r # 0 /\ Go("core", "authorize", [Blank EXCEPT !.row = r]) /\ UNCHANGED reply
    <3>1. r \in Slots
      BY <2>1, <2>3, FirstOfIs
    <3> QED
      BY <1>2, <1>5, <1>t, <1>r, <1>w, <1>b, <2>3, <3>1 DEF Match, Typed
  <2> QED
    BY <1>5, <2>1, <2>2, <2>3 DEF Match
<1>6. CASE AuthorizeRow
  <2>1. Table'
    BY <1>0, <1>6, SetStatusTyped DEF AuthorizeRow, Statuses
  <2> QED
    BY <1>2, <1>3, <1>6, <1>r, <1>a, <2>1 DEF AuthorizeRow, Typed
<1>7. CASE StartTransaction
  <2>1. PICK r : r = MatchStart
    OBVIOUS
  <2>2. CASE Answers(Refused)
    BY <1>2, <1>3, <1>7, <1>t, <1>r, <1>a, <2>2 DEF StartTransaction, Typed
  <2>3. CASE /\ r # 0 /\ UNCHANGED reply
             /\ Go("core", IF rows[r].status = "authorized" THEN "start" ELSE "authorizeFirst",
                   [Blank EXCEPT !.row = r])
    <3>1. r \in Slots
      BY <2>1, <2>3, FirstOfIs DEF MatchStart
    <3>2. Control'
      BY <1>b, <2>3, <3>1
    <3> QED
      BY <1>2, <1>7, <1>t, <1>r, <1>w, <2>3, <3>2 DEF StartTransaction, Typed
  <2> QED
    BY <1>7, <2>1, <2>2, <2>3 DEF StartTransaction
<1>8. CASE AuthorizeFirst
  <2>1. Table'
    BY <1>0, <1>8, SetStatusTyped DEF AuthorizeFirst, Statuses
  <2>2. Control'
    BY <1>0, <1>8, LabelsAre, GoTyped DEF AuthorizeFirst, Fits
  <2> QED
    BY <1>2, <1>8, <1>r, <1>w, <2>1, <2>2 DEF AuthorizeFirst, Typed, wire
<1>9. CASE StartRow
  <2>1. Table'
    BY <1>0, <1>9, SetStatusTyped DEF StartRow, Statuses
  <2>2. mem["core"].row \in Slots
    BY <1>0, <1>9 DEF StartRow, Fits
  <2>3. [ok |-> TRUE, tx |-> rows[mem["core"].row].id] \in [ok : BOOLEAN, tx : Nat]
    BY <1>0, <2>2 DEF Table, Rows
  <2>4. Rest'
    BY <1>0, <1>9, <2>2 DEF StartRow, Rest
  <2> QED
    BY <1>2, <1>9, <1>a, <2>1, <2>3, <2>4 DEF StartRow, Typed
<1>10. CASE StopTransaction
  <2>1. Rest'
    BY <1>0, <1>10 DEF StopTransaction, Rest
  <2>2. CASE Answers(Refused)
    BY <1>2, <1>3, <1>10, <1>t, <1>a, <2>1, <2>2 DEF StopTransaction, Typed
  <2>a. [Refused EXCEPT !.ok = TRUE] \in [ok : BOOLEAN, tx : Nat]
    BY DEF Refused
  <2>4. CASE Answers([Refused EXCEPT !.ok = TRUE])
    BY <1>2, <1>10, <1>t, <1>a, <2>1, <2>4, <2>a DEF StopTransaction, Typed
  <2>3. ASSUME NEW r \in Numbered(dev.tx), UNCHANGED reply,
               Go("core", "stop", [Blank EXCEPT !.row = r])
        PROVE  Typed'
    <3>1. r \in Slots
      BY DEF Numbered
    <3> QED
      BY <1>2, <1>10, <1>t, <1>w, <1>b, <2>1, <2>3, <3>1 DEF StopTransaction, Typed
  <2> QED
    BY <1>10, <2>2, <2>3, <2>4 DEF StopTransaction
<1>11. CASE StopRow
  <2>1. Table'
    BY <1>0, <1>11 DEF StopRow, Table, Rows
  <2>2. Rest'
    BY <1>0, <1>11 DEF StopRow, Rest, Fits
  <2> QED
    BY <1>2, <1>3, <1>11, <1>a, <2>1, <2>2 DEF StopRow, Typed
<1>12. CASE Delivered
  <2>1. reply \in [ok : BOOLEAN, tx : Nat]
    BY <1>0 DEF Wire
  <2> QED
    BY <1>0, <1>2, <1>12, <1>t, <1>r, <2>1, HearsTyped DEF Delivered, Typed
<1>13. CASE Lost
  <2>1. Rest'
    BY <1>0, <1>13 DEF Lost, Rest
  <2>2. CASE /\ tries < MaxTries /\ tries' = tries + 1 /\ reply' = Refused /\ UNCHANGED dev
             /\ Go("core", Entry, Blank)
    <3>1. Entry \in {"Authorize", "StartTransaction", "StopTransaction"}
      BY DEF Entry
    <3>2. Control'
      BY <1>0, <2>2, <3>1, BlankTyped, LabelsAre, GoTyped
    <3>3. Wire'
      BY <1>0, <1>3, <2>2, SessionsAssumption DEF Wire
    <3> QED
      BY <1>2, <1>13, <1>t, <2>1, <3>2, <3>3 DEF Lost, Typed
  <2>3. CASE Hears(Refused)
    BY <1>0, <1>2, <1>3, <1>13, <1>t, <2>1, <2>3, HearsTyped DEF Lost, Typed
  <2> QED
    BY <1>13, <2>2, <2>3 DEF Lost
<1> QED
  BY <1>4, <1>5, <1>6, <1>7, <1>8, <1>9, <1>10, <1>11, <1>12, <1>13 DEF Handler
\* Every step keeps the types.
LEMMA StepTyped ==
  ASSUME Typed, Step PROVE Typed'
<1>0. Control /\ Table /\ Shelf /\ Wire /\ Rest
  BY DEF Typed
<1>u. ASSUME UNCHANGED <<pc, mem, wire>> PROVE Control' /\ Wire'
  BY <1>0, <1>u DEF Control, Wire, wire
<1>1. ASSUME NEW c \in Customers, RemoteStart(c) \/ Reserve(c) \/ CancelReservation(c) \/ Booking(c)
      PROVE  Typed'
  <2>1. CASE RemoteStart(c)
    <3>1. Control'
      BY <1>0, <2>1, BeginsTyped DEF RemoteStart, Kinds, Table
    <3> QED
      BY <1>0, <2>1, <3>1 DEF RemoteStart, Typed, Table, Shelf, Wire, Rest, table, shelf, wire
  <2> QED
    BY <1>1, <2>1, BookingTyped
<1>2. ASSUME NEW p \in Pans, Preauth(p) PROVE Typed'
  <2>1. Control'
    BY <1>0, <1>2, BeginsTyped DEF Preauth, Kinds, Table, Tags
  <2> QED
    BY <1>0, <1>2, <2>1 DEF Preauth, Typed, Table, Shelf, Wire, Rest, table, shelf, wire
<1>3. ASSUME NEW a \in Actors, Making(a) PROVE Typed'
  BY <1>3, MakingTyped
<1>4. ASSUME NEW t \in Tags, CallsAuthorize(t) \/ CallsStart(t) PROVE Typed'
  BY <1>4, CallTyped DEF CallsAuthorize, CallsStart
<1>5. CASE CallsStop
  <2>1. dev.tag \in Tags \cup {0}
    BY <1>0 DEF Wire
  <2> QED
    BY <1>5, <2>1, CallTyped DEF CallsStop
<1>6. CASE Handler \/ Delivered \/ Lost
  BY <1>6, HandlerTyped
<1>7. ASSUME NEW b \in Places, Expires(b) PROVE Typed'
  <2>1. Shelf'
    BY <1>0, <1>7 DEF Expires, Shelf, Bookings
  <2> QED
    BY <1>0, <1>u, <1>7, <2>1 DEF Expires, Typed, Table, Rest, table
<1>8. CASE FaultReported
  BY <1>0, <1>u, <1>8, CloseAllTyped DEF FaultReported, Typed, Table, Rest, table
<1>9. CASE OpensOrCloses
  BY <1>0, <1>u, <1>9 DEF OpensOrCloses, Typed, Table, Shelf, Rest, table, shelf
<1>10. ASSUME NEW r \in Slots, NEW calculated \in BOOLEAN, StopJob(r, calculated) PROVE Typed'
  <2>1. Rest'
    BY <1>0, <1>10 DEF StopJob, Rest
  <2>2. Table' /\ Shelf'
    <3>1. CASE UNCHANGED <<rows, bookings>>
      BY <1>0, <1>10, <3>1 DEF StopJob, Table, Shelf
    <3>2. CASE SetStatus(r, "finished") /\ CloseAll({b \in Places : bookings[b].row = r})
      BY <1>0, <1>10, <3>2, SetStatusTyped, CloseAllTyped DEF StopJob, Statuses
    <3> QED
      BY <1>10, <3>1, <3>2 DEF StopJob
  <2> QED
    BY <1>u, <1>10, <2>1, <2>2 DEF StopJob, Typed
<1>11. ASSUME NEW r \in Slots, NEW s \in {"finished", "cancelled"}, PaymentEnds(r, s) PROVE Typed'
  <2>1. Table'
    BY <1>0, <1>11 DEF PaymentEnds, Table, Rows, Statuses
  <2> QED
    BY <1>0, <1>u, <1>11, <2>1 DEF PaymentEnds, Typed, Shelf, Rest, shelf
<1> QED
  BY <1>1, <1>2, <1>3, <1>4, <1>5, <1>6, <1>7, <1>8, <1>9, <1>10, <1>11 DEF Step

\* The types, and the history's.
LEMMA TypedAlways == SafeSpec => [](Typed /\ History)
<1>1. Init => Typed /\ History
  <2> SUFFICES ASSUME Init PROVE Typed /\ History
    OBVIOUS
  <2>1. Control
    <3>1. "idle" \in Labels
      BY DEF Labels
    <3> QED
      BY <3>1, BlankTyped DEF Init, Control
  <2>2. Table
    <3>1. NoRow \in Rows
      BY CoreActs DEF NoRow, Rows, Statuses
    <3> QED
      BY <3>1, SessionsAssumption DEF Init, Table
  <2>3. Shelf
    <3>1. NoBooking \in Bookings
      BY CoreActs DEF NoBooking, Bookings
    <3> QED
      BY <3>1, SessionsAssumption DEF Init, Shelf
  <2>4. Wire
    BY SessionsAssumption DEF Init, Wire, Free, Refused
  <2>5. Rest /\ History
    BY DEF Init, Rest, History
  <2> QED
    BY <2>1, <2>2, <2>3, <2>4, <2>5 DEF Typed
<1>2. Typed /\ History /\ [Next]_vars => Typed' /\ History'
  <2> SUFFICES ASSUME Typed, History, [Next]_vars PROVE Typed' /\ History'
    OBVIOUS
  <2>1. CASE Next
    <3>1. History'
      <4>1. stale' \in [Actors -> BOOLEAN]
        BY <2>1 DEF Next, NoteHistory
      <4>2. crowded' \in BOOLEAN /\ contended' \in BOOLEAN
        BY <2>1 DEF Next, NoteHistory, History
      <4> QED
        BY <4>1, <4>2 DEF History
    <3> QED
      BY <2>1, <3>1, StepTyped DEF Next
  <2>2. CASE UNCHANGED vars
    BY <2>2 DEF vars, table, shelf, wire, Typed, Control, Table, Shelf, Wire, Rest, History
  <2> QED
    BY <2>1, <2>2
<1> QED
  BY <1>1, <1>2, PTL DEF SafeSpec

\* The variables keep their types.
THEOREM TypeCorrect == SafeSpec => []TypeOK
<1>1. Typed /\ History => TypeOK
  BY DEF Typed, Control, Table, Shelf, Wire, Rest, History, TypeOK
<1> QED
  BY <1>1, TypedAlways, PTL

------------------------------------------------------------------------------
(* One open booking, one row to a number, and sessions that only move on: each is an     *)
(* invariant about what an actor still knows of what it read, as long as it was alone.    *)

\* Where an actor goes, and what it knows there.
LEMMA MoveIs ==
  ASSUME Typed, NEW a, NEW label, NEW m, Go(a, label, m), NEW b \in Actors
  PROVE  /\ pc'[b] = IF b = a THEN label ELSE pc[b]
         /\ mem'[b] = IF b = a THEN m ELSE mem[b]
  BY DEF Typed, Control, Go

\* A handler's call begins at its entry.
LEMMA EntryIs == Entry \in {"Authorize", "StartTransaction", "StopTransaction"}
  BY DEF Entry

\* Where a handler goes, and with what in hand.
LEMMA HandlerMoves ==
  ASSUME Handler
  PROVE  \/ \E r : Answers(r)
         \/ Begins("core", "busy", "rfid", dev.tag)
         \/ Go("core", "match", Blank)
         \/ \E label \in {"authorize", "start", "authorizeFirst", "stop"}, r \in Slots \cup {0} :
              Go("core", label, [Blank EXCEPT !.row = r])
         \/ pc["core"] = "authorizeFirst" /\ Go("core", "start", mem["core"])
<1>1. CASE Authorize \/ AuthorizeRow \/ AuthorizeFirst \/ StartRow \/ StopRow
  BY <1>1 DEF Authorize, AuthorizeRow, AuthorizeFirst, StartRow, StopRow
<1>2. CASE Match
  <2>1. FirstOf(<<"preauth", "remote-started", "rfid">>) \in Slots \cup {0}
    BY FirstOfIs
  <2> QED
    BY <1>2, <2>1 DEF Match
<1>3. CASE StartTransaction
  <2>1. MatchStart \in Slots \cup {0}
    BY FirstOfIs DEF MatchStart
  <2> QED
    BY <1>3, <2>1 DEF StartTransaction
<1>4. CASE StopTransaction
  BY <1>4 DEF StopTransaction, Numbered
<1> QED
  BY <1>1, <1>2, <1>3, <1>4 DEF Handler

------------------------------------------------------------------------------
(* One open booking *)

\* An actor that has looked for bookings knows that there is none, or only the one
\* it is going to close.
Clear(a) ==
  /\ pc[a] \in {"other", "save"} => Open = {}
  /\ pc[a] = "close" /\ mem[a].next \in {"other", "save"} => Open \subseteq {mem[a].place}
BookInv ==
  ~contended =>
    /\ \A a, b \in Actors : a # b => ~(MakesBooking(a) /\ MakesBooking(b))
    /\ \A b, d \in Open : b = d
    /\ \A a \in Actors : Clear(a)

\* Only Save opens a booking.
LEMMA OpenShrinks ==
  ASSUME Typed, Step PROVE Open' \subseteq Open \/ \E c \in Customers : Save(c)
<1>1. bookings' = bookings => Open' \subseteq Open
  BY DEF Open
<1>2. ASSUME NEW B, CloseAll(B) PROVE Open' \subseteq Open
  BY <1>2 DEF CloseAll, Open, Typed, Shelf, Bookings
<1>3. ASSUME NEW a \in Actors, Making(a) PROVE Open' \subseteq Open
  <2>1. CASE Close(a)
    BY <1>2, <2>1 DEF Close
  <2>2. CASE Link(a)
    BY <2>2 DEF Link, Open, Typed, Shelf, Bookings
  <2> QED
    BY <1>1, <1>3, <2>1, <2>2 DEF Making, CheckBusy, CheckBooking, FindOld, Supersede, Insert,
                                  Count, Send, Rejected, shelf
<1>4. ASSUME NEW c \in Customers,
             RemoteStart(c) \/ Reserve(c) \/ CancelReservation(c) \/ Booking(c)
      PROVE  Open' \subseteq Open \/ Save(c)
  BY <1>1, <1>4 DEF RemoteStart, Reserve, CancelReservation, Booking, CheckBookings,
                    AsksCharger, shelf
<1>5. CASE Handler \/ Delivered \/ Lost
  BY <1>1, <1>5 DEF Handler, Delivered, Lost, Authorize, Match, AuthorizeRow, StartTransaction,
                    AuthorizeFirst, StartRow, StopTransaction, StopRow, shelf
<1>6. ASSUME NEW b \in Places, Expires(b) PROVE Open' \subseteq Open
  BY <1>6 DEF Expires, Open, Typed, Shelf, Bookings
<1>7. CASE FaultReported
  BY <1>2, <1>7 DEF FaultReported
<1>8. ASSUME NEW r \in Slots, NEW calculated \in BOOLEAN, StopJob(r, calculated)
      PROVE  Open' \subseteq Open
  BY <1>1, <1>2, <1>8 DEF StopJob
<1>9. ASSUME NEW p \in Pans, Preauth(p) PROVE Open' \subseteq Open
  BY <1>1, <1>9 DEF Preauth, shelf
<1>10. ASSUME NEW t \in Tags, CallsAuthorize(t) \/ CallsStart(t) PROVE Open' \subseteq Open
  BY <1>1, <1>10 DEF CallsAuthorize, CallsStart, Calls, shelf
<1>11. CASE CallsStop
  BY <1>1, <1>11 DEF CallsStop, Calls, shelf
<1>12. CASE OpensOrCloses
  BY <1>1, <1>12 DEF OpensOrCloses, shelf
<1>13. ASSUME NEW r \in Slots, NEW s, PaymentEnds(r, s) PROVE Open' \subseteq Open
  BY <1>1, <1>13 DEF PaymentEnds, shelf
<1> QED
  BY <1>3, <1>4, <1>5, <1>6, <1>7, <1>8, <1>9, <1>10, <1>11, <1>12, <1>13 DEF Step

\* How actors come to the labels at which they know of the open bookings.
Steps(a) ==
  \/ pc'[a] = pc[a] /\ mem'[a] = mem[a]
  \/ pc'[a] \notin {"other", "save", "close"}
  \/ pc'[a] = "close" /\ mem'[a].next \notin {"other", "save"}
  \/ a \in Customers /\ \E label \in {"own", "any", "other"} : CheckBookings(a, label)
  \/ Close(a)

\* Every step is one of Steps, for every actor.
LEMMA StepsSo ==
  ASSUME Typed, Step, NEW a \in Actors PROVE Steps(a)
<1>0. \A b \in Actors : mem[b] \in Memory
  BY DEF Typed, Control
<1>1. ASSUME UNCHANGED <<pc, mem>> PROVE Steps(a)
  BY <1>1 DEF Steps
<1>2. ASSUME NEW b, NEW label, NEW m, Go(b, label, m), label \notin {"other", "save", "close"}
      PROVE  Steps(a)
  BY <1>2, MoveIs DEF Steps
<1>3. ASSUME NEW b, Leave(b) PROVE Steps(a)
  BY <1>2, <1>3 DEF Leave
<1>4. ASSUME NEW r, Answers(r) PROVE Steps(a)
  BY <1>2, <1>4 DEF Answers
<1>5. ASSUME NEW b, WithoutBooking(b) PROVE Steps(a)
  <2>1. \E m : Go(b, "find", m)
    BY <1>5 DEF WithoutBooking
  <2> QED
    BY <1>2, <2>1
<1>c. ASSUME NEW b, NEW m, Go(b, "close", m), m.next \notin {"other", "save"} PROVE Steps(a)
  BY <1>c, MoveIs DEF Steps
<1>6. ASSUME NEW b \in Actors, Making(b) PROVE Steps(a)
  <2>1. CASE CheckBusy(b)
    BY <1>2, <1>3, <1>4, <2>1 DEF CheckBusy, TurnedDown
  <2>2. CASE CheckBooking(b)
    <3>1. ASSUME NEW d, Go(b, "close", [mem[b] EXCEPT !.place = d, !.next = "expired"])
          PROVE  Steps(a)
      <4>1. [mem[b] EXCEPT !.place = d, !.next = "expired"].next = "expired"
        BY <1>0 DEF Memory
      <4> QED
        BY <1>c, <3>1, <4>1
    <3>2. CASE TurnedDown(b)
      BY <1>3, <1>4, <3>2 DEF TurnedDown
    <3>3. ASSUME NEW d, Go(b, "find", [mem[b] EXCEPT !.tag = bookings[d].tag]) PROVE Steps(a)
      BY <1>2, <3>3
    <3> QED
      BY <1>5, <2>2, <3>1, <3>2, <3>3 DEF CheckBooking
  <2>3. CASE Close(b)
    <3>1. CASE a = b
      BY <2>3, <3>1 DEF Steps
    <3>2. CASE a # b
      <4>1. \E label, m : Go(b, label, m)
        BY <2>3 DEF Close, WithoutBooking
      <4> QED
        BY <3>2, <4>1, MoveIs DEF Steps
    <3> QED
      BY <3>1, <3>2
  <2>4. CASE FindOld(b)
    BY <1>2, <2>4 DEF FindOld
  <2>5. CASE Supersede(b) \/ Insert(b) \/ Count(b) \/ Link(b) \/ Send(b) \/ Rejected(b)
    BY <1>2, <1>3, <2>5 DEF Supersede, Insert, Count, Link, Send, Rejected
  <2> QED
    BY <1>6, <2>1, <2>2, <2>3, <2>4, <2>5 DEF Making
<1>7. ASSUME NEW c \in Customers,
             RemoteStart(c) \/ Reserve(c) \/ CancelReservation(c) \/ Booking(c)
      PROVE  Steps(a)
  <2>0. mem[c] \in Memory
    BY <1>0, CoreActs
  <2>1. CASE RemoteStart(c) \/ Reserve(c) \/ CancelReservation(c) \/ Save(c)
    <3>1. \E label \in {"busy", "own", "cancel", "reserve"} : \E m : Go(c, label, m)
      BY <2>1 DEF RemoteStart, Begins, Reserve, CancelReservation, Save
    <3> QED
      BY <1>2, <3>1
  <2>2. ASSUME NEW label \in {"own", "any", "other"}, CheckBookings(c, label) PROVE Steps(a)
    <3>1. \E l, m : Go(c, l, m)
      BY <2>2 DEF CheckBookings, Leave
    <3>2. CASE a = c
      BY <2>2, <3>2 DEF Steps
    <3>3. CASE a # c
      BY <3>1, <3>3, MoveIs DEF Steps
    <3> QED
      BY <3>2, <3>3
  <2>3. CASE AsksCharger(c)
    <3>1. [mem[c] EXCEPT !.next = "idle"].next = "idle"
      BY <2>0 DEF Memory
    <3>2. CASE Go(c, "close", [mem[c] EXCEPT !.next = "idle"])
      BY <1>c, <3>1, <3>2
    <3> QED
      BY <1>3, <2>3, <3>2 DEF AsksCharger
  <2> QED
    BY <1>7, <2>1, <2>2, <2>3 DEF Booking
<1>8. CASE Handler
  <2>1. \/ \E r : Answers(r)
        \/ \E label \in {"match", "busy", "authorize", "start", "authorizeFirst", "stop"} : \E m :
             Go("core", label, m)
    BY <1>8, HandlerMoves DEF Begins
  <2> QED
    BY <1>2, <1>4, <2>1
<1>9. CASE Delivered \/ Lost
  BY <1>2, <1>3, <1>9, EntryIs DEF Delivered, Lost, Hears
<1>10. ASSUME NEW p \in Pans, Preauth(p) PROVE Steps(a)
  BY <1>2, <1>10 DEF Preauth, Begins
<1>11. ASSUME NEW t \in Tags, CallsAuthorize(t) \/ CallsStart(t) PROVE Steps(a)
  BY <1>2, <1>11 DEF CallsAuthorize, CallsStart, Calls
<1>12. CASE CallsStop
  BY <1>2, <1>12 DEF CallsStop, Calls
<1>13. CASE (\E b \in Places : Expires(b)) \/ FaultReported \/ OpensOrCloses
  BY <1>1, <1>13 DEF Expires, FaultReported, OpensOrCloses
<1>14. ASSUME NEW r \in Slots, NEW x,
              (x \in BOOLEAN /\ StopJob(r, x)) \/ (x \in {"finished", "cancelled"} /\ PaymentEnds(r, x))
       PROVE  Steps(a)
  BY <1>1, <1>14 DEF StopJob, PaymentEnds
<1> QED
  BY <1>6, <1>7, <1>8, <1>9, <1>10, <1>11, <1>12, <1>13, <1>14 DEF Step

\* An actor stays clear: the others are not booking, and it looks itself.
LEMMA StaysClear ==
  ASSUME Typed, BookInv, Step, ~contended, Open' \subseteq Open, NEW a \in Actors
  PROVE  Clear(a)'
<1>0. Clear(a) /\ (\A b, d \in Open : b = d) /\ mem[a] \in Memory
  BY DEF BookInv, Typed, Control
<1>1. CASE pc'[a] = pc[a] /\ mem'[a] = mem[a]
  BY <1>0, <1>1 DEF Clear
<1>2. CASE pc'[a] \notin {"other", "save", "close"}
  BY <1>2 DEF Clear
<1>3. CASE pc'[a] = "close" /\ mem'[a].next \notin {"other", "save"}
  BY <1>3 DEF Clear
<1>4. ASSUME NEW label \in {"own", "any", "other"}, CheckBookings(a, label) PROVE Clear(a)'
  <2>1. CASE Mine(a, label) = {} /\ Go(a, After(label), mem[a])
    <3>1. pc'[a] = After(label)
      BY <2>1, MoveIs
    <3>2. CASE label = "own"
      BY <3>1, <3>2 DEF After, Clear
    <3>3. CASE label = "any"
      <4>1. Open = {}
        BY <2>1, <3>3 DEF Mine
      <4> QED
        BY <3>1, <3>3, <4>1 DEF After, Clear
    <3>4. CASE label = "other"
      <4>1. pc[a] = "other"
        BY <1>4, <3>4 DEF CheckBookings
      <4>2. Open = {}
        BY <1>0, <4>1 DEF Clear
      <4> QED
        BY <3>1, <3>4, <4>2 DEF After, Clear
    <3> QED
      BY <3>2, <3>3, <3>4
  <2>2. ASSUME NEW b \in Mine(a, label),
               Go(a, "close", [mem[a] EXCEPT !.place = b, !.next = After(label)])
        PROVE  Clear(a)'
    <3>1. b \in Open
      BY DEF Mine
    <3>2. Open \subseteq {b}
      BY <1>0, <3>1
    <3>3. pc'[a] = "close" /\ mem'[a] = [mem[a] EXCEPT !.place = b, !.next = After(label)]
      BY <2>2, MoveIs
    <3>4. mem'[a].place = b
      BY <1>0, <3>3 DEF Memory
    <3> QED
      BY <3>2, <3>3, <3>4 DEF Clear
  <2>3. CASE Leave(a)
    <3>1. pc'[a] = "idle"
      BY <2>3, MoveIs DEF Leave
    <3> QED
      BY <3>1 DEF Clear
  <2> QED
    BY <1>4, <2>1, <2>2, <2>3 DEF CheckBookings
<1>5. CASE Close(a)
  <2>1. CASE mem[a].next = "expired"
    <3>1. \E m : Go(a, "find", m)
      BY <1>5, <2>1 DEF Close, WithoutBooking
    <3>2. pc'[a] = "find"
      BY <3>1, MoveIs
    <3> QED
      BY <3>2 DEF Clear
  <2>2. CASE mem[a].next # "expired"
    <3>1. pc'[a] = mem[a].next /\ pc[a] = "close"
      <4>1. Go(a, mem[a].next, [mem[a] EXCEPT !.place = 0]) /\ pc[a] = "close"
        BY <1>5, <2>2 DEF Close
      <4> QED
        BY <4>1, MoveIs
    <3>2. mem[a].next # "close"
      BY <1>0 DEF Memory
    <3>3. ASSUME mem[a].next \in {"other", "save"} PROVE Open' = {}
      <4>1. Open \subseteq {mem[a].place}
        BY <1>0, <3>1, <3>3 DEF Clear
      <4>2. mem[a].place \notin Open'
        BY <1>5 DEF Close, CloseAll, Open, Typed, Shelf, Bookings
      <4> QED
        BY <4>1, <4>2
    <3> QED
      BY <3>1, <3>2, <3>3 DEF Clear
  <2> QED
    BY <2>1, <2>2
<1> QED
  BY <1>1, <1>2, <1>3, <1>4, <1>5, StepsSo DEF Steps

\* Bookings stay apart.
LEMMA BookStep ==
  ASSUME Typed, BookInv, Step, NoteHistory PROVE BookInv'
<1> SUFFICES ASSUME ~contended'
             PROVE  /\ \A a, b \in Actors : a # b => ~(MakesBooking(a)' /\ MakesBooking(b)')
                    /\ \A b, d \in Open' : b = d
                    /\ \A a \in Actors : Clear(a)'
  BY DEF BookInv
<1>1. ~contended /\ \A a, b \in Actors : a # b => ~(MakesBooking(a)' /\ MakesBooking(b)')
  BY DEF NoteHistory
<1>2. CASE Open' \subseteq Open
  BY <1>1, <1>2, StaysClear DEF BookInv
<1>3. ASSUME NEW c \in Customers, Save(c) PROVE BookInv'
  <2>0. c \in Actors /\ pc[c] = "save"
    BY <1>3, CoreActs DEF Save
  <2>1. Open = {}
    BY <1>1, <2>0 DEF BookInv, Clear
  <2>2. Open' \subseteq {booked + 1}
    BY <1>3, <2>1 DEF Save, Open, Typed, Shelf
  <2>3. ASSUME NEW a \in Actors PROVE Clear(a)'
    <3>1. CASE a = c
      <4>1. pc'[a] = "reserve"
        BY <1>3, <3>1, MoveIs DEF Save
      <4> QED
        BY <4>1 DEF Clear
    <3>2. CASE a # c
      <4>1. ~MakesBooking(a)
        BY <1>1, <2>0, <3>2 DEF BookInv, MakesBooking
      <4>2. pc'[a] = pc[a] /\ mem'[a] = mem[a]
        BY <1>3, <3>2, MoveIs DEF Save
      <4> QED
        BY <4>1, <4>2 DEF Clear, MakesBooking
    <3> QED
      BY <3>1, <3>2
  <2> QED
    BY <1>1, <2>2, <2>3 DEF BookInv
<1> QED
  BY <1>2, <1>3, OpenShrinks DEF BookInv

\* So the invariant holds.
LEMMA BookAlways == SafeSpec => []BookInv
<1>1. Init => BookInv
  <2> SUFFICES ASSUME Init PROVE BookInv
    OBVIOUS
  <2>1. Open = {}
    BY DEF Init, Open, NoBooking
  <2>2. \A a \in Actors : ~MakesBooking(a)
    BY DEF Init, MakesBooking, Blank
  <2> QED
    BY <2>1, <2>2 DEF BookInv, Clear
<1>2. Typed /\ BookInv /\ [Next]_vars => BookInv'
  <2>1. ASSUME UNCHANGED vars PROVE BookInv' = BookInv
    BY <2>1 DEF vars, shelf, BookInv, MakesBooking, Open, Clear
  <2> QED
    BY <2>1, BookStep DEF Next
<1> QED
  BY <1>1, <1>2, TypedAlways, PTL DEF SafeSpec

\* A charger has one open booking, as long as no two customers were booking at once.
THEOREM OneBookingHolds == SafeSpec => []OneBooking
<1>1. BookInv => OneBooking
  BY DEF BookInv, OneBooking
<1> QED
  BY <1>1, BookAlways, PTL

\* Who is about to look for bookings goes on by looking.
LEMMA LooksFirst ==
  ASSUME Typed, Step, NEW a \in Actors, pc[a] = "booking", pc'[a] # "booking"
  PROVE  CheckBooking(a)
<1>1. ASSUME NEW b, NEW label, NEW m, Go(b, label, m) PROVE b = a
  BY <1>1, MoveIs
<1>2. pc' # pc
  OBVIOUS
<1>3. ASSUME NEW b \in Actors, Making(b) PROVE CheckBooking(a)
  <2>1. CASE CheckBooking(b)
    <3>1. \E label, m : Go(b, label, m)
      BY <2>1 DEF CheckBooking, TurnedDown, Answers, Leave, WithoutBooking
    <3> QED
      BY <1>1, <2>1, <3>1
  <2>2. CASE CheckBusy(b) \/ Close(b) \/ FindOld(b) \/ Supersede(b) \/ Insert(b) \/ Count(b)
               \/ Link(b) \/ Send(b) \/ Rejected(b)
    <3>1. pc[b] # "booking"
      BY <2>2 DEF CheckBusy, Close, FindOld, Supersede, Insert, Count, Link, Send, Rejected
    <3>2. \E label, m : Go(b, label, m)
      <4>1. CheckBusy(b) \/ Close(b) => \E label, m : Go(b, label, m)
        BY DEF CheckBusy, Close, TurnedDown, Answers, Leave, WithoutBooking
      <4>2. CASE FindOld(b) \/ Supersede(b) \/ Insert(b) \/ Count(b) \/ Link(b) \/ Send(b)
                   \/ Rejected(b)
        BY <4>2 DEF FindOld, Supersede, Insert, Count, Link, Send, Rejected, Leave
      <4> QED
        BY <2>2, <4>1, <4>2
    <3> QED
      BY <1>1, <3>1, <3>2
  <2> QED
    BY <1>3, <2>1, <2>2 DEF Making
<1>4. ASSUME NEW c \in Customers,
             RemoteStart(c) \/ Reserve(c) \/ CancelReservation(c) \/ Booking(c)
      PROVE  FALSE
  <2>1. pc[c] # "booking"
    BY <1>4 DEF RemoteStart, Reserve, CancelReservation, Booking, CheckBookings, Save, AsksCharger
  <2>2. \E label, m : Go(c, label, m)
    BY <1>4 DEF RemoteStart, Begins, Reserve, CancelReservation, Booking, CheckBookings, Save,
                AsksCharger, Leave
  <2> QED
    BY <1>1, <2>1, <2>2
<1>5. ~Handler
  <2> SUFFICES ASSUME Handler PROVE FALSE
    OBVIOUS
  <2>1. pc["core"] # "booking"
    BY DEF Handler, Authorize, Match, AuthorizeRow, StartTransaction, AuthorizeFirst, StartRow,
           StopTransaction, StopRow
  <2>2. \E label, m : Go("core", label, m)
    BY HandlerMoves DEF Answers, Begins
  <2> QED
    BY <1>1, <2>1, <2>2
<1>6. ~(Delivered \/ Lost)
  <2> SUFFICES ASSUME Delivered \/ Lost PROVE FALSE
    OBVIOUS
  <2>1. pc["core"] # "booking" /\ \E label, m : Go("core", label, m)
    BY DEF Delivered, Lost, Hears, Leave
  <2> QED
    BY <1>1, <2>1
<1>7. ASSUME NEW p \in Pans, Preauth(p) PROVE FALSE
  BY <1>1, <1>7 DEF Preauth, Begins
<1>8. ~\E t \in Tags : CallsAuthorize(t) \/ CallsStart(t)
  BY <1>1 DEF CallsAuthorize, CallsStart, Calls
<1>9. ~CallsStop
  BY <1>1 DEF CallsStop, Calls
<1>10. ~((\E b \in Places : Expires(b)) \/ FaultReported \/ OpensOrCloses)
  BY <1>2 DEF Expires, FaultReported, OpensOrCloses
<1>11. ASSUME NEW r \in Slots, NEW x,
              (x \in BOOLEAN /\ StopJob(r, x)) \/ (x \in {"finished", "cancelled"} /\ PaymentEnds(r, x))
       PROVE  FALSE
  BY <1>2, <1>11 DEF StopJob, PaymentEnds
<1> QED
  BY <1>3, <1>4, <1>5, <1>6, <1>7, <1>8, <1>9, <1>10, <1>11 DEF Step

\* Who finds the charger booked by somebody else is turned down, as long as no two
\* customers were booking at once: there is no second booking it could have looked at.
THEOREM ReservationsHold == SafeSpec => ReservationHolds
<1> DEFINE Held == \A a \in Actors, b \in Places :
       pc[a] = "booking" /\ pc'[a] \in {"find", "close"} /\ bookings[b].open
         => bookings[b].expired \/ bookings[b].customer = a \/ contended
<1>1. Typed /\ BookInv /\ Next => Held
  <2> SUFFICES ASSUME Typed, BookInv, Step, ~contended, NEW a \in Actors, NEW b \in Places,
                      pc[a] = "booking", pc'[a] \in {"find", "close"}, bookings[b].open
               PROVE  bookings[b].expired \/ bookings[b].customer = a
    BY DEF Next
  <2>1. CheckBooking(a)
    BY LooksFirst
  <2>2. b \in Open /\ \A d \in Open : d = b
    BY DEF Open, BookInv
  <2>3. ~TurnedDown(a)
    <3>1. TurnedDown(a) => \E label \in {"reply", "idle"} : \E m : Go(a, label, m)
      BY DEF TurnedDown, Answers, Leave
    <3> QED
      BY <3>1, MoveIs
  <2>4. ~Blocks(b, a)
    BY <2>1, <2>2, <2>3 DEF CheckBooking
  <2> QED
    BY <2>4 DEF Blocks
<1>2. [][Held]_vars => ReservationHolds
  BY DEF ReservationHolds
<1> HIDE DEF Held
<1> QED
  BY <1>1, <1>2, BookAlways, TypedAlways, PTL DEF SafeSpec
------------------------------------------------------------------------------
(* One row to a number *)

\* The one actor that makes a session has read the present number; only the row it
\* inserted may be ahead of it, until it is counted.
IdInv ==
  ~crowded =>
    /\ \A a, b \in Actors : a # b => ~(MakesSession(a) /\ MakesSession(b))
    /\ \A a \in Actors : MakesSession(a) => mem[a].latest = latest
    /\ \A r \in 1..made :
         \/ rows[r].id <= latest
         \/ rows[r].id = latest + 1 /\ \E a \in Actors : pc[a] = "count" /\ mem[a].row = r
    /\ \A r, q \in 1..made : r # q => rows[r].id # rows[q].id

\* Steps that insert and count nothing leave the numbers alone ...
NumbersKept ==
  made' = made /\ latest' = latest /\ \A r \in Slots : rows'[r].id = rows[r].id

\* Only an insert and a count touch the numbers.
LEMMA NumbersStay ==
  ASSUME Typed, Step PROVE NumbersKept \/ \E a \in Actors : Insert(a) \/ Count(a)
<1>1. UNCHANGED table => NumbersKept
  BY DEF table, NumbersKept
<1>2. ASSUME NEW r, NEW x, SetStatus(r, x), UNCHANGED <<made, latest>> PROVE NumbersKept
  BY <1>2 DEF SetStatus, NumbersKept, Typed, Table, Rows
<1>3. ASSUME NEW a \in Actors, Making(a), ~Insert(a), ~Count(a) PROVE NumbersKept
  BY <1>1, <1>2, <1>3 DEF Making, CheckBusy, CheckBooking, Close, FindOld, Supersede, Link, Send,
                          Rejected
<1>4. CASE Handler
  <2>1. CASE StopRow
    BY <2>1 DEF StopRow, NumbersKept, Typed, Table, Rows
  <2> QED
    BY <1>1, <1>2, <1>4, <2>1 DEF Handler, Authorize, Match, AuthorizeRow, StartTransaction,
                                  AuthorizeFirst, StartRow, StopTransaction
<1>5. ASSUME NEW c \in Customers,
             RemoteStart(c) \/ Reserve(c) \/ CancelReservation(c) \/ Booking(c)
      PROVE  NumbersKept
  BY <1>1, <1>5 DEF RemoteStart, Reserve, CancelReservation, Booking, CheckBookings, Save,
                    AsksCharger
<1>6. ASSUME NEW r \in Slots, NEW calculated \in BOOLEAN, StopJob(r, calculated) PROVE NumbersKept
  BY <1>1, <1>2, <1>6 DEF StopJob, table
<1>7. ASSUME NEW r \in Slots, NEW x, PaymentEnds(r, x) PROVE NumbersKept
  BY <1>7 DEF PaymentEnds, NumbersKept, Typed, Table, Rows
<1>8. ASSUME NEW x, Preauth(x) \/ CallsAuthorize(x) \/ CallsStart(x) \/ Expires(x) PROVE NumbersKept
  BY <1>1, <1>8 DEF Preauth, CallsAuthorize, CallsStart, Calls, Expires
<1>9. CASE CallsStop \/ Delivered \/ Lost \/ FaultReported \/ OpensOrCloses
  BY <1>1, <1>9 DEF CallsStop, Calls, Delivered, Lost, FaultReported, OpensOrCloses
<1> QED
  BY <1>3, <1>4, <1>5, <1>6, <1>7, <1>8, <1>9 DEF Step

\* ... and the number an actor has in hand, or is the start of a request.
Knows(a) ==
  /\ \/ ~MakesSession(a)'
     \/ mem'[a].latest = latest
     \/ MakesSession(a) /\ mem'[a].latest = mem[a].latest
  /\ pc[a] = "count" => pc'[a] = pc[a] /\ mem'[a] = mem[a]

\* What an actor knows of the numbers stays, but for its insert and its count.
LEMMA KnowsStill ==
  ASSUME Typed, Step, NEW a \in Actors, ~Insert(a), ~Count(a) PROVE Knows(a)
<1>0. \A b \in Actors : mem[b] \in Memory
  BY DEF Typed, Control
<1>1. ASSUME UNCHANGED <<pc, mem>> PROVE Knows(a)
  BY <1>1 DEF Knows, MakesSession
<1>2. ASSUME NEW b, NEW label, NEW m, Go(b, label, m), pc[b] # "count",
             \/ m.kind = "none" \/ label \in {"link", "send", "rejected"} \/ m.latest = latest
             \/ /\ m.kind = mem[b].kind /\ m.latest = mem[b].latest
                /\ pc[b] \notin {"link", "send", "rejected"}
      PROVE  Knows(a)
  <2>1. CASE a # b
    BY <1>2, <2>1, MoveIs DEF Knows, MakesSession
  <2>2. CASE a = b
    <3>1. pc'[a] = label /\ mem'[a] = m
      BY <1>2, <2>2, MoveIs
    <3> QED
      BY <1>2, <2>2, <3>1 DEF Knows, MakesSession
  <2> QED
    BY <2>1, <2>2
<1>3. ASSUME NEW b, NEW label, Go(b, label, Blank), pc[b] # "count" PROVE Knows(a)
  <2>1. Blank.kind = "none"
    BY DEF Blank
  <2> QED
    BY <1>2, <1>3, <2>1
<1>4. ASSUME NEW b, Leave(b), pc[b] # "count" PROVE Knows(a)
  BY <1>3, <1>4 DEF Leave
<1>5. ASSUME NEW r, Answers(r), pc["core"] # "count" PROVE Knows(a)
  BY <1>3, <1>5 DEF Answers
<1>6. ASSUME NEW b, NEW label, NEW kind, NEW tag, Begins(b, label, kind, tag), pc[b] # "count"
      PROVE  Knows(a)
  <2>1. [Blank EXCEPT !.latest = latest, !.kind = kind, !.tag = tag].latest = latest
    BY DEF Blank
  <2> QED
    BY <1>2, <1>6, <2>1 DEF Begins
<1>7. ASSUME NEW b \in Actors, WithoutBooking(b), pc[b] \in {"booking", "close"} PROVE Knows(a)
  <2>1. \A t : [mem[b] EXCEPT !.tag = t].kind = mem[b].kind
               /\ [mem[b] EXCEPT !.tag = t].latest = mem[b].latest
    BY <1>0 DEF Memory
  <2> QED
    BY <1>2, <1>7, <2>1 DEF WithoutBooking
<1>8. ASSUME NEW b \in Actors, Making(b) PROVE Knows(a)
  <2>1. CASE CheckBusy(b)
    BY <1>2, <1>4, <1>5, <2>1 DEF CheckBusy, TurnedDown
  <2>2. CASE CheckBooking(b)
    <3>1. pc[b] = "booking"
      BY <2>2 DEF CheckBooking
    <3>2. CASE TurnedDown(b)
      BY <1>4, <1>5, <3>1, <3>2 DEF TurnedDown
    <3>3. ASSUME NEW d, \/ Go(b, "close", [mem[b] EXCEPT !.place = d, !.next = "expired"])
                        \/ Go(b, "find", [mem[b] EXCEPT !.tag = bookings[d].tag])
          PROVE  Knows(a)
      <4>1. /\ [mem[b] EXCEPT !.place = d, !.next = "expired"].kind = mem[b].kind
            /\ [mem[b] EXCEPT !.place = d, !.next = "expired"].latest = mem[b].latest
            /\ [mem[b] EXCEPT !.tag = bookings[d].tag].kind = mem[b].kind
            /\ [mem[b] EXCEPT !.tag = bookings[d].tag].latest = mem[b].latest
        BY <1>0 DEF Memory
      <4> QED
        BY <1>2, <3>1, <3>3, <4>1
    <3> QED
      BY <1>7, <2>2, <3>1, <3>2, <3>3 DEF CheckBooking
  <2>3. CASE Close(b)
    <3>1. [mem[b] EXCEPT !.place = 0].kind = mem[b].kind /\ [mem[b] EXCEPT !.place = 0].latest = mem[b].latest
      BY <1>0 DEF Memory
    <3> QED
      BY <1>2, <1>7, <2>3, <3>1 DEF Close
  <2>4. CASE FindOld(b) \/ Supersede(b)
    <3>1. \A r : [mem[b] EXCEPT !.row = r].kind = mem[b].kind
                 /\ [mem[b] EXCEPT !.row = r].latest = mem[b].latest
      BY <1>0 DEF Memory
    <3> QED
      BY <1>2, <2>4, <3>1 DEF FindOld, Supersede
  <2>5. CASE Insert(b) \/ Count(b)
    <3>1. \E label, m : Go(b, label, m)
      BY <2>5 DEF Insert, Count, Leave
    <3>2. a # b
      BY <2>5
    <3> QED
      BY <3>1, <3>2, MoveIs DEF Knows, MakesSession
  <2>6. CASE Link(b)
    BY <1>2, <1>3, <2>6 DEF Link
  <2>7. CASE Send(b) \/ Rejected(b)
    BY <1>2, <1>4, <2>7 DEF Send, Rejected
  <2> QED
    BY <1>8, <2>1, <2>2, <2>3, <2>4, <2>5, <2>6, <2>7 DEF Making
<1>9. ASSUME NEW c \in Customers,
             RemoteStart(c) \/ Reserve(c) \/ CancelReservation(c) \/ Booking(c)
      PROVE  Knows(a)
  <2>0. mem[c] \in Memory
    BY <1>0, CoreActs
  <2>1. CASE RemoteStart(c)
    BY <1>6, <2>1 DEF RemoteStart
  <2>2. CASE Reserve(c)
    BY <1>3, <2>2 DEF Reserve
  <2>3. CASE CancelReservation(c)
    <3>1. \A b : [Blank EXCEPT !.place = b].kind = "none"
      BY DEF Blank
    <3> QED
      BY <1>2, <2>3, <3>1 DEF CancelReservation
  <2>4. ASSUME NEW label \in {"own", "any", "other"}, CheckBookings(c, label) PROVE Knows(a)
    <3>0. pc[c] \in {"own", "any", "other"}
      BY <2>4 DEF CheckBookings
    <3>1. \A b, n : [mem[c] EXCEPT !.place = b, !.next = n].kind = mem[c].kind
                    /\ [mem[c] EXCEPT !.place = b, !.next = n].latest = mem[c].latest
      BY <2>0 DEF Memory
    <3>2. CASE Go(c, After(label), mem[c])
      BY <1>2, <3>0, <3>2
    <3>3. ASSUME NEW b, Go(c, "close", [mem[c] EXCEPT !.place = b, !.next = After(label)])
          PROVE  Knows(a)
      BY <1>2, <3>0, <3>1, <3>3
    <3> QED
      BY <1>4, <2>4, <3>0, <3>2, <3>3 DEF CheckBookings
  <2>5. CASE Save(c)
    <3>1. [Blank EXCEPT !.place = booked + 1].kind = "none"
      BY DEF Blank
    <3> QED
      BY <1>2, <2>5, <3>1 DEF Save
  <2>6. CASE AsksCharger(c)
    <3>1. [mem[c] EXCEPT !.next = "idle"].kind = mem[c].kind
          /\ [mem[c] EXCEPT !.next = "idle"].latest = mem[c].latest
      BY <2>0 DEF Memory
    <3> QED
      BY <1>2, <1>4, <2>6, <3>1 DEF AsksCharger
  <2> QED
    BY <1>9, <2>1, <2>2, <2>3, <2>4, <2>5, <2>6 DEF Booking
<1>10. CASE Handler
  <2>1. pc["core"] # "count"
    BY <1>10 DEF Handler, Authorize, Match, AuthorizeRow, StartTransaction, AuthorizeFirst,
                 StartRow, StopTransaction, StopRow
  <2>2. \A r : [Blank EXCEPT !.row = r].kind = "none"
    BY DEF Blank
  <2> QED
    BY <1>2, <1>3, <1>5, <1>6, <1>10, <2>1, <2>2, HandlerMoves
<1>11. CASE Delivered \/ Lost
  BY <1>3, <1>4, <1>11 DEF Delivered, Lost, Hears
<1>12. ASSUME NEW p \in Pans, Preauth(p) PROVE Knows(a)
  BY <1>6, <1>12 DEF Preauth
<1>13. ASSUME NEW t \in Tags, CallsAuthorize(t) \/ CallsStart(t) PROVE Knows(a)
  BY <1>3, <1>13 DEF CallsAuthorize, CallsStart, Calls
<1>14. CASE CallsStop
  BY <1>3, <1>14 DEF CallsStop, Calls
<1>15. CASE (\E b \in Places : Expires(b)) \/ FaultReported \/ OpensOrCloses
  BY <1>1, <1>15 DEF Expires, FaultReported, OpensOrCloses
<1>16. ASSUME NEW r \in Slots, NEW x,
              (x \in BOOLEAN /\ StopJob(r, x)) \/ (x \in {"finished", "cancelled"} /\ PaymentEnds(r, x))
       PROVE  Knows(a)
  BY <1>1, <1>16 DEF StopJob, PaymentEnds
<1> QED
  BY <1>8, <1>9, <1>10, <1>11, <1>12, <1>13, <1>14, <1>15, <1>16 DEF Step

\* Numbers stay apart.
LEMMA IdStep ==
  ASSUME Typed, IdInv, Step, NoteHistory PROVE IdInv'
<1> SUFFICES ASSUME ~crowded' PROVE IdInv'
  BY DEF IdInv
<1>1. ~crowded /\ \A a, b \in Actors : a # b => ~(MakesSession(a)' /\ MakesSession(b)')
  BY DEF NoteHistory
<1>2. /\ \A a, b \in Actors : a # b => ~(MakesSession(a) /\ MakesSession(b))
      /\ \A a \in Actors : MakesSession(a) => mem[a].latest = latest
      /\ \A r \in 1..made :
           \/ rows[r].id <= latest
           \/ rows[r].id = latest + 1 /\ \E a \in Actors : pc[a] = "count" /\ mem[a].row = r
      /\ \A r, q \in 1..made : r # q => rows[r].id # rows[q].id
  BY <1>1 DEF IdInv
<1>3. /\ made \in 0..MaxRows /\ latest \in Nat /\ 1..made \subseteq Slots
      /\ \A r \in Slots : rows[r].id \in Nat
      /\ \A a \in Actors : mem[a] \in Memory
      /\ \A a \in Actors : pc[a] \in {"insert", "count"} => MakesSession(a)
  <2>1. made \in 0..MaxRows /\ latest \in Nat /\ \A r \in Slots : rows[r].id \in Nat
    BY DEF Typed, Table, Rows
  <2>2. 1..made \subseteq Slots
    BY <2>1, SessionsAssumption DEF Slots
  <2>3. ASSUME NEW a \in Actors, pc[a] \in {"insert", "count"} PROVE MakesSession(a)
    BY <2>3 DEF Typed, Control, Fits, MakesSession, Kinds
  <2> QED
    BY <2>1, <2>2, <2>3 DEF Typed, Control
<1>4. ASSUME NEW a \in Actors, Insert(a) PROVE IdInv'
  <2>1. MakesSession(a) /\ mem[a].latest = latest
    BY <1>2, <1>3, <1>4 DEF Insert
  <2>2. \A r \in 1..made : rows[r].id <= latest
    <3>1. \A b \in Actors : pc[b] # "count"
      BY <1>2, <1>3, <1>4, <2>1 DEF Insert
    <3> QED
      BY <1>2, <3>1
  <2>3. /\ made' = made + 1 /\ latest' = latest /\ made + 1 \in Slots
        /\ rows'[made + 1].id = latest + 1
        /\ \A r \in 1..made : rows'[r].id = rows[r].id
    <3>1. made + 1 \in Slots
      BY <1>3, <1>4, SessionsAssumption DEF Insert, Slots
    <3>2. rows'[made + 1].id = latest + 1
      BY <1>4, <2>1, <3>1 DEF Insert, Typed, Table
    <3>3. \A r \in 1..made : r # made + 1
      BY <1>3
    <3>4. \A r \in 1..made : rows'[r] = rows[r]
      BY <1>3, <1>4, <3>3 DEF Insert, Typed, Table
    <3> QED
      BY <1>4, <3>1, <3>2, <3>4 DEF Insert
  <2>4. pc'[a] = "count" /\ mem'[a].row = made + 1 /\ mem'[a].latest = latest
    <3>1. pc'[a] = "count" /\ mem'[a] = [mem[a] EXCEPT !.row = made + 1]
      BY <1>4, MoveIs DEF Insert
    <3> QED
      BY <1>3, <2>1, <3>1 DEF Memory
  <2>5. \A b \in Actors : MakesSession(b)' => mem'[b].latest = latest'
    <3>1. ASSUME NEW b \in Actors, b # a PROVE ~MakesSession(b)'
      <4>1. ~MakesSession(b)
        BY <1>2, <2>1, <3>1
      <4> QED
        BY <1>4, <3>1, <4>1, MoveIs DEF Insert, MakesSession
    <3> QED
      BY <2>3, <2>4, <3>1
  <2>6. \A r \in 1..made' : r = made + 1 \/ r \in 1..made
    BY <1>3, <2>3
  <2>7. \A r \in 1..made' :
           \/ rows'[r].id <= latest'
           \/ rows'[r].id = latest' + 1 /\ \E b \in Actors : pc'[b] = "count" /\ mem'[b].row = r
    BY <2>2, <2>3, <2>4, <2>6
  <2>8. \A r, q \in 1..made' : r # q => rows'[r].id # rows'[q].id
    <3>1. \A r \in 1..made : rows'[r].id # rows'[made + 1].id
      <4>1. \A r \in 1..made : rows[r].id \in Nat /\ rows[r].id # latest + 1
        BY <1>3, <2>2
      <4> QED
        BY <2>3, <4>1
    <3> QED
      BY <1>2, <2>3, <2>6, <3>1
  <2> QED
    BY <1>1, <2>5, <2>7, <2>8 DEF IdInv
<1>5. ASSUME NEW a \in Actors, Count(a) PROVE IdInv'
  <2>1. MakesSession(a) /\ mem[a].latest = latest
    BY <1>2, <1>3, <1>5 DEF Count
  <2>2. made' = made /\ rows' = rows /\ latest' = latest + 1
    BY <1>5, <2>1 DEF Count, NumberOf
  <2>3. \A b \in Actors : ~MakesSession(b)'
    <3>1. ~MakesSession(a)'
      <4>1. CASE Leave(a)
        BY <4>1, MoveIs DEF Leave, MakesSession, Blank
      <4>2. CASE Go(a, "link", mem[a])
        BY <4>2, MoveIs DEF MakesSession
      <4> QED
        BY <1>5, <4>1, <4>2 DEF Count
    <3>2. ASSUME NEW b \in Actors, b # a PROVE ~MakesSession(b)'
      <4>1. ~MakesSession(b)
        BY <1>2, <2>1, <3>2
      <4>2. \E label, m : Go(a, label, m)
        BY <1>5 DEF Count, Leave
      <4> QED
        BY <3>2, <4>1, <4>2, MoveIs DEF MakesSession
    <3> QED
      BY <3>1, <3>2
  <2>4. \A r \in 1..made : rows[r].id \in Nat /\ rows[r].id <= latest + 1
    BY <1>2, <1>3
  <2> QED
    BY <1>1, <1>2, <2>2, <2>3, <2>4 DEF IdInv
<1>6. CASE NumbersKept /\ ~(\E a \in Actors : Insert(a) \/ Count(a))
  <2>1. \A a \in Actors : Knows(a)
    BY <1>6, KnowsStill
  <2>2. ASSUME NEW a \in Actors, MakesSession(a)' PROVE mem'[a].latest = latest'
    BY <1>2, <1>6, <2>1, <2>2 DEF Knows, NumbersKept
  <2>3. ASSUME NEW r \in 1..made
        PROVE  \/ rows'[r].id <= latest
               \/ rows'[r].id = latest + 1 /\ \E b \in Actors : pc'[b] = "count" /\ mem'[b].row = r
    <3>1. rows'[r].id = rows[r].id
      BY <1>3, <1>6 DEF NumbersKept
    <3>2. ASSUME NEW b \in Actors, pc[b] = "count" PROVE pc'[b] = "count" /\ mem'[b] = mem[b]
      BY <2>1, <3>2 DEF Knows
    <3> QED
      BY <1>2, <3>1, <3>2
  <2>4. \A r, q \in 1..made : r # q => rows'[r].id # rows'[q].id
    BY <1>2, <1>3, <1>6 DEF NumbersKept
  <2>5. made' = made /\ latest' = latest
    BY <1>6 DEF NumbersKept
  <2> QED
    BY <1>1, <2>2, <2>3, <2>4, <2>5 DEF IdInv
<1> QED
  BY <1>4, <1>5, <1>6, NumbersStay

\* The number of a session belongs to one session, as long as no two were being made at
\* the same time.
THEOREM IdsAreUnique == SafeSpec => []IdsUnique
<1>1. Init => IdInv
  <2> SUFFICES ASSUME Init PROVE IdInv
    OBVIOUS
  <2>1. \A a \in Actors : ~MakesSession(a)
    BY DEF Init, MakesSession, Blank
  <2>2. 1..made = {}
    BY DEF Init
  <2> QED
    BY <2>1, <2>2 DEF IdInv
<1>2. Typed /\ IdInv /\ [Next]_vars => IdInv'
  <2>1. ASSUME UNCHANGED vars PROVE IdInv' = IdInv
    BY <2>1 DEF vars, table, IdInv, MakesSession
  <2> QED
    BY <2>1, IdStep DEF Next
<1>3. IdInv => IdsUnique
  BY DEF IdInv, IdsUnique
<1> QED
  BY <1>1, <1>2, <1>3, TypedAlways, PTL DEF SafeSpec
------------------------------------------------------------------------------
(* Sessions only move on *)

\* The status an actor that has decided about a row expects it to have.
Expects(label, s) ==
  /\ label \in {"supersede", "count", "link", "send", "rejected", "authorize", "authorizeFirst"}
       => s \in Kinds
  /\ label = "start" => s = "authorized"
Deciding == {"supersede", "count", "link", "send", "rejected", "authorize", "authorizeFirst", "start"}
MoveInv ==
  /\ \A r \in Slots : r > made => rows[r].status = "unborn"
  /\ \A a \in Actors : mem[a].row <= made
  /\ \A r \in jobs : r <= made
  /\ \A a \in Actors : mem[a].row # 0 /\ ~stale[a] => Expects(pc[a], rows[mem[a].row].status)

\* A row is inserted, written by an actor that is at the write, finished by its job or
\* ended by its payment, or keeps its status.
Written(r) ==
  \/ rows'[r].status = rows[r].status
  \/ \E a \in Actors : Insert(a) /\ r = made + 1 /\ rows'[r].status \in Kinds
  \/ \E a \in Actors :
       /\ mem[a].row = r /\ pc'[a] # pc[a]
       /\ \/ pc[a] \in {"supersede", "rejected"} /\ rows'[r].status = "cancelled"
          \/ pc[a] \in {"authorize", "authorizeFirst"} /\ rows'[r].status = "authorized"
          \/ pc[a] = "start" /\ rows'[r].status = "started"
  \/ r \in jobs /\ rows'[r].status = "finished"
  \/ rows[r].status # "unborn" /\ rows[r].tag \in Pans /\ rows'[r].status \in {"finished", "cancelled"}

\* Every step writes a row as Written says.
LEMMA WrittenSo ==
  ASSUME Typed, Step, NEW r \in Slots PROVE Written(r)
<1>0. rows \in [Slots -> Rows] /\ \A q \in Slots : \A s : [rows[q] EXCEPT !.status = s].status = s
  BY DEF Typed, Table, Rows
<1>1. UNCHANGED rows => Written(r)
  BY DEF Written
<1>2. ASSUME NEW q, NEW s, SetStatus(q, s)
      PROVE  rows'[r].status = rows[r].status \/ (q = r /\ rows'[r].status = s)
  <2>1. CASE q = r
    <3>1. rows'[r] = [rows[r] EXCEPT !.status = s]
      BY <1>0, <1>2, <2>1 DEF SetStatus
    <3> QED
      BY <1>0, <2>1, <3>1
  <2>2. CASE q # r
    BY <1>0, <1>2, <2>2 DEF SetStatus
  <2> QED
    BY <2>1, <2>2
<1>3. ASSUME NEW a \in Actors, Making(a) PROVE Written(r)
  <2>1. CASE Supersede(a)
    <3>1. pc[a] = "supersede" /\ pc'[a] = "insert"
      BY <2>1, MoveIs DEF Supersede
    <3> QED
      BY <1>2, <2>1, <3>1 DEF Supersede, CancelledStatus, Written
  <2>2. CASE Rejected(a)
    <3>1. pc[a] = "rejected" /\ pc'[a] = "idle"
      BY <2>2, MoveIs DEF Rejected, Leave
    <3> QED
      BY <1>2, <2>2, <3>1 DEF Rejected, CancelledStatus, Written
  <2>3. CASE Insert(a)
    <3>1. CASE r = made + 1
      <4>1. rows'[r].status = mem[a].kind
        BY <1>0, <2>3, <3>1 DEF Insert
      <4>2. mem[a].kind \in Kinds
        BY <2>3 DEF Insert, Typed, Control, Fits
      <4> QED
        BY <2>3, <3>1, <4>1, <4>2 DEF Written
    <3>2. CASE r # made + 1
      BY <1>0, <2>3, <3>2 DEF Insert, Written
    <3> QED
      BY <3>1, <3>2
  <2> QED
    BY <1>1, <1>3, <2>1, <2>2, <2>3
    DEF Making, CheckBusy, CheckBooking, Close, FindOld, Count, Link, Send, table
<1>4. CASE Handler
  <2>1. CASE AuthorizeRow
    <3>1. "core" \in Actors /\ pc["core"] = "authorize" /\ pc'["core"] = "reply"
      BY <2>1, MoveIs DEF AuthorizeRow, Answers
    <3> QED
      BY <1>2, <2>1, <3>1 DEF AuthorizeRow, Written
  <2>2. CASE AuthorizeFirst
    <3>1. "core" \in Actors /\ pc["core"] = "authorizeFirst" /\ pc'["core"] = "start"
      BY <2>2, MoveIs DEF AuthorizeFirst
    <3> QED
      BY <1>2, <2>2, <3>1 DEF AuthorizeFirst, Written
  <2>3. CASE StartRow
    <3>1. "core" \in Actors /\ pc["core"] = "start" /\ pc'["core"] = "reply"
      BY <2>3, MoveIs DEF StartRow, Answers
    <3> QED
      BY <1>2, <2>3, <3>1 DEF StartRow, Written
  <2>4. CASE StopRow
    <3>1. rows'[r].status = rows[r].status
      BY <2>4 DEF StopRow, Typed, Table, Rows
    <3> QED
      BY <3>1 DEF Written
  <2> QED
    BY <1>1, <1>4, <2>1, <2>2, <2>3, <2>4
    DEF Handler, Authorize, Match, StartTransaction, StopTransaction, table
<1>5. ASSUME NEW q \in Slots, NEW calculated \in BOOLEAN, StopJob(q, calculated) PROVE Written(r)
  BY <1>1, <1>2, <1>5 DEF StopJob, Written
<1>6. ASSUME NEW q \in Slots, NEW s \in {"finished", "cancelled"}, PaymentEnds(q, s) PROVE Written(r)
  <2>1. CASE q = r
    <3>1. rows'[r].status = s
      BY <1>0, <1>6, <2>1 DEF PaymentEnds, Rows
    <3> QED
      BY <1>6, <2>1, <3>1 DEF PaymentEnds, Written
  <2>2. CASE q # r
    BY <1>0, <1>6, <2>2 DEF PaymentEnds, Written
  <2> QED
    BY <2>1, <2>2
<1>7. ASSUME NEW c \in Customers,
             RemoteStart(c) \/ Reserve(c) \/ CancelReservation(c) \/ Booking(c)
      PROVE  Written(r)
  BY <1>1, <1>7 DEF RemoteStart, Reserve, CancelReservation, Booking, CheckBookings, Save,
                    AsksCharger, table
<1>8. ASSUME NEW x, Preauth(x) \/ CallsAuthorize(x) \/ CallsStart(x) \/ Expires(x) PROVE Written(r)
  BY <1>1, <1>8 DEF Preauth, CallsAuthorize, CallsStart, Calls, Expires, table
<1>9. CASE CallsStop \/ Delivered \/ Lost \/ FaultReported \/ OpensOrCloses
  BY <1>1, <1>9 DEF CallsStop, Calls, Delivered, Lost, FaultReported, OpensOrCloses, table
<1> QED
  BY <1>3, <1>4, <1>5, <1>6, <1>7, <1>8, <1>9 DEF Step

\* A row is not taken back by a step, but by an actor that decided before it changed.
LEMMA MovesOn ==
  ASSUME Typed, MoveInv, Step, NEW r \in Slots,
         \/ Rank(rows'[r].status) < Rank(rows[r].status)
         \/ /\ rows[r].status = "started" /\ rows'[r].status = "cancelled"
            /\ rows[r].tag \notin Pans
  PROVE  \E a \in Actors : mem[a].row = r /\ stale[a] /\ pc'[a] # pc[a]
<1>0. \A s \in Statuses : /\ Rank(s) \in 0..4 /\ (Rank(s) = 0 => s = "unborn")
                          /\ (s \in Kinds => Rank(s) = 1)
                          /\ (s = "authorized" => Rank(s) = 2) /\ (s = "started" => Rank(s) = 3)
                          /\ (s \in {"finished", "cancelled"} => Rank(s) = 4)
                          /\ (s = "unborn" => Rank(s) = 0)
  BY DEF Statuses, Rank, Kinds
<1>1. rows[r].status \in Statuses /\ rows'[r].status \in Statuses
  <2>1. Typed'
    BY StepTyped
  <2> QED
    BY <2>1 DEF Typed, Table, Rows
<1>2. CASE rows'[r].status = rows[r].status
  BY <1>0, <1>1, <1>2
<1>3. CASE \E a \in Actors : Insert(a) /\ r = made + 1 /\ rows'[r].status \in Kinds
  <2>1. rows[r].status = "unborn"
    BY <1>3 DEF MoveInv, Typed, Table
  <2> QED
    BY <1>0, <1>1, <2>1
<1>4. ASSUME NEW a \in Actors, mem[a].row = r, pc'[a] # pc[a],
             \/ pc[a] \in {"supersede", "rejected"} /\ rows'[r].status = "cancelled"
             \/ pc[a] \in {"authorize", "authorizeFirst"} /\ rows'[r].status = "authorized"
             \/ pc[a] = "start" /\ rows'[r].status = "started"
      PROVE  stale[a]
  <2>1. SUFFICES ASSUME ~stale[a] PROVE FALSE
    BY DEF Typed
  <2>2. r # 0
    BY DEF Slots
  <2>3. Expects(pc[a], rows[r].status)
    BY <1>4, <2>1, <2>2 DEF MoveInv
  <2>4. CASE pc[a] \in {"supersede", "rejected", "authorize", "authorizeFirst"}
    <3>1. rows[r].status \in Kinds
      BY <2>3, <2>4 DEF Expects
    <3> QED
      BY <1>0, <1>1, <1>4, <2>4, <3>1 DEF Kinds
  <2>5. CASE pc[a] = "start"
    <3>1. rows[r].status = "authorized" /\ rows'[r].status = "started"
      BY <1>4, <2>3, <2>5 DEF Expects
    <3> QED
      BY <1>0, <1>1, <3>1
  <2> QED
    BY <1>4, <2>4, <2>5
<1>5. CASE r \in jobs /\ rows'[r].status = "finished"
  BY <1>0, <1>1, <1>5
<1>6. CASE rows[r].tag \in Pans /\ rows'[r].status \in {"finished", "cancelled"}
  BY <1>0, <1>1, <1>6
<1> QED
  BY <1>2, <1>3, <1>4, <1>5, <1>6, WrittenSo DEF Written
\* How an actor comes to have decided about a row: it stays, comes to a label at which
\* nothing is decided, has just found the row or written it as it expects, or goes on
\* with it to the next query.
GoesOn(a) == pc[a] \in {"count", "link", "send"} /\ pc'[a] \in {"link", "send", "rejected"}
Decides(a) ==
  \/ pc'[a] = pc[a] /\ mem'[a].row = mem[a].row
  \/ pc'[a] \notin Deciding /\ mem'[a].row \in {0, mem[a].row}
  \/ /\ Expects(pc'[a], rows'[mem'[a].row].status)
     /\ \/ mem'[a].row \in {mem[a].row, made'}
        \/ mem'[a].row \in Slots /\ rows[mem'[a].row].status # "unborn"
  \/ GoesOn(a) /\ rows' = rows /\ mem'[a].row = mem[a].row

\* Every step decides as Decides says.
LEMMA DecidesSo ==
  ASSUME Typed, Step, NEW a \in Actors PROVE Decides(a)
<1>0. /\ \A b \in Actors : mem[b] \in Memory
      /\ rows \in [Slots -> Rows] /\ "core" \in Actors
  BY CoreActs DEF Typed, Control, Table
<1>1. ASSUME UNCHANGED <<pc, mem>> PROVE Decides(a)
  BY <1>1 DEF Decides
<1>2. ASSUME NEW b, NEW label, NEW m, Go(b, label, m), label \notin Deciding,
             m.row = 0 \/ m.row = mem[b].row
      PROVE  Decides(a)
  BY <1>2, MoveIs DEF Decides
<1>3. ASSUME NEW b, NEW label, Go(b, label, Blank), label \notin Deciding PROVE Decides(a)
  <2>1. Blank.row = 0
    BY DEF Blank
  <2> QED
    BY <1>2, <1>3, <2>1
<1>4. ASSUME NEW b, Leave(b) PROVE Decides(a)
  BY <1>3, <1>4 DEF Leave, Deciding
<1>5. ASSUME NEW r, Answers(r) PROVE Decides(a)
  BY <1>3, <1>5 DEF Answers, Deciding
<1>6. ASSUME NEW b, NEW label \in {"busy", "find"}, NEW kind, NEW tag, Begins(b, label, kind, tag)
      PROVE  Decides(a)
  <2>1. [Blank EXCEPT !.latest = latest, !.kind = kind, !.tag = tag].row = 0
    BY DEF Blank
  <2> QED
    BY <1>2, <1>6, <2>1 DEF Begins, Deciding
<1>7. ASSUME NEW b \in Actors, WithoutBooking(b) PROVE Decides(a)
  <2>1. \A t : [mem[b] EXCEPT !.tag = t].row = mem[b].row
    BY <1>0 DEF Memory
  <2> QED
    BY <1>2, <1>7, <2>1 DEF WithoutBooking, Deciding
<1>8. ASSUME NEW b, NEW label, NEW m, Go(b, label, m), Expects(label, rows'[m.row].status),
             m.row \in {mem[b].row, made'} \/ (m.row \in Slots /\ rows[m.row].status # "unborn")
      PROVE  Decides(a)
  <2>1. CASE a = b
    <3>1. pc'[a] = label /\ mem'[a] = m
      BY <1>8, <2>1, MoveIs
    <3> QED
      BY <1>8, <2>1, <3>1 DEF Decides
  <2>2. CASE a # b
    BY <1>8, <2>2, MoveIs DEF Decides
  <2> QED
    BY <2>1, <2>2
<1>9. ASSUME NEW b \in Actors, NEW label, Go(b, label, mem[b]), UNCHANGED rows,
             pc[b] \in {"count", "link", "send"}, label \in {"link", "send", "rejected"}
      PROVE  Decides(a)
  <2>1. CASE a = b
    <3>1. pc'[a] = label /\ mem'[a] = mem[b]
      BY <1>9, <2>1, MoveIs
    <3> QED
      BY <1>9, <2>1, <3>1 DEF Decides, GoesOn
  <2>2. CASE a # b
    BY <1>9, <2>2, MoveIs DEF Decides
  <2> QED
    BY <2>1, <2>2
<1>10. ASSUME NEW b \in Actors, Making(b) PROVE Decides(a)
  <2>1. CASE CheckBusy(b)
    BY <1>2, <1>4, <1>5, <2>1 DEF CheckBusy, TurnedDown, Deciding
  <2>2. CASE CheckBooking(b)
    <3>1. CASE TurnedDown(b)
      BY <1>4, <1>5, <3>1 DEF TurnedDown
    <3>2. ASSUME NEW d, \/ Go(b, "close", [mem[b] EXCEPT !.place = d, !.next = "expired"])
                        \/ Go(b, "find", [mem[b] EXCEPT !.tag = bookings[d].tag])
          PROVE  Decides(a)
      <4>1. /\ [mem[b] EXCEPT !.place = d, !.next = "expired"].row = mem[b].row
            /\ [mem[b] EXCEPT !.tag = bookings[d].tag].row = mem[b].row
        BY <1>0 DEF Memory
      <4> QED
        BY <1>2, <3>2, <4>1 DEF Deciding
    <3> QED
      BY <1>7, <2>2, <3>1, <3>2 DEF CheckBooking
  <2>3. CASE Close(b)
    <3>1. [mem[b] EXCEPT !.place = 0].row = mem[b].row
      BY <1>0 DEF Memory
    <3>2. mem[b].next \notin Deciding
      BY <1>0 DEF Memory, Deciding
    <3> QED
      BY <1>2, <1>7, <2>3, <3>1, <3>2 DEF Close
  <2>4. CASE FindOld(b)
    <3> DEFINE old == Newest(Found(mem[b].kind, mem[b].tag))
    <3>0. \A r : [mem[b] EXCEPT !.row = r].row = r
      BY <1>0 DEF Memory
    <3>1. old = 0 \/ old \in Found(mem[b].kind, mem[b].tag)
      <4>1. Found(mem[b].kind, mem[b].tag) \in SUBSET Slots
        BY DEF Found
      <4> QED
        BY <4>1, NewestIs
    <3>2. CASE old = 0
      <4>1. Go(b, "insert", [mem[b] EXCEPT !.row = 0])
        BY <2>4, <3>2 DEF FindOld
      <4> QED
        BY <1>2, <3>0, <4>1 DEF Deciding
    <3>3. CASE old # 0
      <4>1. old \in Slots /\ rows[old].status = mem[b].kind
        BY <3>1, <3>3 DEF Found
      <4>2. mem[b].kind \in Kinds
        BY <2>4 DEF FindOld, Typed, Control, Fits
      <4>3. Go(b, "supersede", [mem[b] EXCEPT !.row = old]) /\ rows' = rows
        BY <2>4, <3>3 DEF FindOld, table
      <4>4. Expects("supersede", rows[old].status) /\ rows[old].status # "unborn"
        BY <4>1, <4>2 DEF Expects, Kinds
      <4> HIDE DEF old
      <4> QED
        BY <1>8, <3>0, <4>1, <4>3, <4>4
    <3> QED
      BY <3>2, <3>3
  <2>5. CASE Supersede(b)
    <3>1. [mem[b] EXCEPT !.row = 0].row = 0
      BY <1>0 DEF Memory
    <3> QED
      BY <1>2, <2>5, <3>1 DEF Supersede, Deciding
  <2>6. CASE Insert(b)
    <3>1. [mem[b] EXCEPT !.row = made + 1].row = made + 1 /\ made' = made + 1
      BY <1>0, <2>6 DEF Memory, Insert
    <3>2. rows'[made + 1].status \in Kinds
      <4>1. made + 1 \in Slots
        BY <2>6, SessionsAssumption DEF Insert, Typed, Table, Slots
      <4>2. rows'[made + 1].status = mem[b].kind
        BY <1>0, <2>6, <4>1 DEF Insert
      <4> QED
        BY <2>6, <4>2 DEF Insert, Typed, Control, Fits
    <3>3. Go(b, "count", [mem[b] EXCEPT !.row = made + 1])
      BY <2>6 DEF Insert
    <3>4. Expects("count", rows'[made + 1].status)
      BY <3>2 DEF Expects
    <3> QED
      BY <1>8, <3>1, <3>3, <3>4
  <2>7. CASE Count(b)
    BY <1>4, <1>9, <2>7 DEF Count
  <2>8. CASE Link(b)
    BY <1>3, <1>9, <2>8 DEF Link, Deciding, table
  <2>9. CASE Send(b)
    BY <1>4, <1>9, <2>9 DEF Send, table
  <2>10. CASE Rejected(b)
    BY <1>4, <2>10 DEF Rejected
  <2> QED
    BY <1>10, <2>1, <2>2, <2>3, <2>4, <2>5, <2>6, <2>7, <2>8, <2>9, <2>10 DEF Making
<1>11. ASSUME NEW c \in Customers,
              RemoteStart(c) \/ Reserve(c) \/ CancelReservation(c) \/ Booking(c)
       PROVE  Decides(a)
  <2>0. mem[c] \in Memory
    BY <1>0, CoreActs
  <2>1. CASE RemoteStart(c)
    BY <1>6, <2>1 DEF RemoteStart
  <2>2. CASE Reserve(c)
    BY <1>3, <2>2 DEF Reserve, Deciding
  <2>3. ASSUME NEW label \in {"cancel", "reserve"}, NEW b, Go(c, label, [Blank EXCEPT !.place = b])
        PROVE  Decides(a)
    <3>1. [Blank EXCEPT !.place = b].row = 0
      BY DEF Blank
    <3> QED
      BY <1>2, <2>3, <3>1 DEF Deciding
  <2>4. ASSUME NEW label \in {"own", "any", "other"}, CheckBookings(c, label) PROVE Decides(a)
    <3>1. After(label) \notin Deciding
      BY DEF After, Deciding
    <3>2. CASE Go(c, After(label), mem[c])
      BY <1>2, <3>1, <3>2
    <3>3. ASSUME NEW b, Go(c, "close", [mem[c] EXCEPT !.place = b, !.next = After(label)])
          PROVE  Decides(a)
      <4>1. [mem[c] EXCEPT !.place = b, !.next = After(label)].row = mem[c].row
        BY <2>0 DEF Memory
      <4> QED
        BY <1>2, <3>3, <4>1 DEF Deciding
    <3> QED
      BY <1>4, <2>4, <3>2, <3>3 DEF CheckBookings
  <2>5. CASE AsksCharger(c)
    <3>1. [mem[c] EXCEPT !.next = "idle"].row = mem[c].row
      BY <2>0 DEF Memory
    <3> QED
      BY <1>2, <1>4, <2>5, <3>1 DEF AsksCharger, Deciding
  <2> QED
    BY <1>11, <2>1, <2>2, <2>3, <2>4, <2>5 DEF Booking, CancelReservation, Save
<1>12. CASE Handler
  <2>1. \A r : [Blank EXCEPT !.row = r].row = r
    BY DEF Blank
  <2>2. CASE Authorize
    BY <1>3, <1>5, <1>6, <2>2 DEF Authorize, Deciding
  <2>3. CASE Match
    <3>1. PICK r : r = FirstOf(<<"preauth", "remote-started", "rfid">>)
      OBVIOUS
    <3>2. CASE r # 0 /\ Go("core", "authorize", [Blank EXCEPT !.row = r])
      <4>1. r \in Slots /\ rows[r].status \in Kinds /\ rows' = rows
        BY <2>3, <3>1, <3>2, FirstOfIs DEF Match, Kinds, table
      <4>2. Expects("authorize", rows'[r].status) /\ rows[r].status # "unborn"
        BY <4>1 DEF Expects, Kinds
      <4> QED
        BY <1>8, <2>1, <3>2, <4>1, <4>2
    <3> QED
      BY <1>5, <2>3, <3>1, <3>2 DEF Match
  <2>4. CASE StartTransaction
    <3>1. PICK r : r = MatchStart
      OBVIOUS
    <3>2. CASE /\ r # 0
               /\ Go("core", IF rows[r].status = "authorized" THEN "start" ELSE "authorizeFirst",
                     [Blank EXCEPT !.row = r])
      <4>1. r \in Slots /\ rows[r].status \in {"authorized", "preauth", "remote-started"}
            /\ rows' = rows
        BY <2>4, <3>1, <3>2, FirstOfIs DEF StartTransaction, MatchStart, table
      <4>2. rows[r].status # "unborn"
            /\ Expects(IF rows[r].status = "authorized" THEN "start" ELSE "authorizeFirst",
                       rows'[r].status)
        BY <4>1 DEF Expects, Kinds
      <4> QED
        BY <1>8, <2>1, <3>2, <4>1, <4>2
    <3> QED
      BY <1>5, <2>4, <3>1, <3>2 DEF StartTransaction
  <2>5. CASE AuthorizeFirst
    <3>1. mem["core"].row \in Slots
      BY <2>5 DEF AuthorizeFirst, Typed, Control, Fits
    <3>2. rows'[mem["core"].row].status = "authorized"
      BY <1>0, <2>5, <3>1 DEF AuthorizeFirst, SetStatus, Rows
    <3>3. Expects("start", rows'[mem["core"].row].status)
      BY <3>2 DEF Expects
    <3> QED
      BY <1>8, <2>5, <3>3 DEF AuthorizeFirst
  <2>6. CASE StopTransaction
    <3>1. ASSUME NEW r \in Numbered(dev.tx), Go("core", "stop", [Blank EXCEPT !.row = r])
          PROVE  Decides(a)
      <4>1. r \in Slots /\ rows[r].status # "unborn"
        BY DEF Numbered
      <4>2. Expects("stop", rows'[r].status)
        BY DEF Expects
      <4> QED
        BY <1>8, <2>1, <3>1, <4>1, <4>2
    <3> QED
      BY <1>5, <2>6, <3>1 DEF StopTransaction
  <2>7. CASE AuthorizeRow \/ StartRow \/ StopRow
    BY <1>5, <2>7 DEF AuthorizeRow, StartRow, StopRow
  <2> QED
    BY <1>12, <2>2, <2>3, <2>4, <2>5, <2>6, <2>7 DEF Handler
<1>13. CASE Delivered \/ Lost
  <2>1. Entry \notin Deciding
    BY EntryIs DEF Deciding
  <2> QED
    BY <1>3, <1>4, <1>13, <2>1 DEF Delivered, Lost, Hears
<1>14. ASSUME NEW p \in Pans, Preauth(p) PROVE Decides(a)
  BY <1>6, <1>14 DEF Preauth
<1>15. ASSUME NEW t \in Tags, CallsAuthorize(t) \/ CallsStart(t) PROVE Decides(a)
  BY <1>3, <1>15 DEF CallsAuthorize, CallsStart, Calls, Deciding
<1>16. CASE CallsStop
  BY <1>3, <1>16 DEF CallsStop, Calls, Deciding
<1>17. CASE (\E b \in Places : Expires(b)) \/ FaultReported \/ OpensOrCloses
  BY <1>1, <1>17 DEF Expires, FaultReported, OpensOrCloses
<1>18. ASSUME NEW r \in Slots, NEW x,
              (x \in BOOLEAN /\ StopJob(r, x)) \/ (x \in {"finished", "cancelled"} /\ PaymentEnds(r, x))
       PROVE  Decides(a)
  BY <1>1, <1>18 DEF StopJob, PaymentEnds
<1> QED
  BY <1>10, <1>11, <1>12, <1>13, <1>14, <1>15, <1>16, <1>17, <1>18 DEF Step

\* Sessions move forward.
LEMMA MoveStep ==
  ASSUME Typed, MoveInv, Step, NoteHistory PROVE MoveInv'
<1>0. /\ made \in 0..MaxRows /\ rows \in [Slots -> Rows] /\ jobs \subseteq Slots
      /\ \A a \in Actors : mem[a] \in Memory
      /\ \A r \in Slots : r \in Nat
  BY DEF Typed, Table, Rest, Control, Slots
<1>1. made' = made \/ (made' = made + 1 /\ \E a \in Actors : Insert(a))
  <2>1. CASE NumbersKept
    BY <2>1 DEF NumbersKept
  <2>2. ASSUME NEW a \in Actors, Insert(a) \/ Count(a) PROVE made' = made \/ (made' = made + 1 /\ Insert(a))
    BY <2>2 DEF Insert, Count
  <2> QED
    BY <2>1, <2>2, NumbersStay
<1>2. ASSUME NEW r \in Slots, r > made' PROVE rows'[r].status = "unborn"
  <2>1. (r > made /\ r # made + 1) \/ (r > made /\ made' = made)
    BY <1>0, <1>1, <1>2
  <2>2. rows[r].status = "unborn" /\ r \notin jobs
    BY <1>0, <2>1 DEF MoveInv
  <2>3. \A a \in Actors : mem[a].row # r
    BY <1>0, <2>1 DEF MoveInv, Memory
  <2>4. ASSUME NEW a \in Actors, Insert(a), r = made + 1 PROVE FALSE
    <3>1. made' = made + 1
      BY <2>4 DEF Insert
    <3> QED
      BY <1>0, <1>2, <2>4, <3>1
  <2> QED
    BY <2>2, <2>3, <2>4, WrittenSo DEF Written
<1>3. ASSUME NEW r \in Slots, rows[r].status # "unborn" PROVE r <= made
  BY <1>0, <1>3 DEF MoveInv
<1>4. ASSUME NEW a \in Actors PROVE mem'[a].row <= made'
  <2>1. mem[a].row <= made /\ mem[a].row \in Nat
    BY <1>0 DEF MoveInv, Memory, Slots
  <2>2. mem'[a].row \in {0, mem[a].row, made'} \/ mem'[a].row <= made
    BY <1>3, DecidesSo DEF Decides
  <2>3. CASE mem'[a].row \in {0, mem[a].row, made'}
    BY <1>0, <1>1, <2>1, <2>3
  <2>4. CASE mem'[a].row <= made
    <3>1. mem'[a].row \in Slots \cup {0}
      <4>1. Typed'
        BY StepTyped
      <4> QED
        BY <4>1 DEF Typed, Control, Memory
    <3> QED
      BY <1>0, <1>1, <2>4, <3>1
  <2> QED
    BY <2>2, <2>3, <2>4
<1>5. ASSUME NEW r \in jobs' PROVE r <= made'
  <2>1. r \in jobs \/ r = mem["core"].row
    <3>1. CASE StopRow
      BY <3>1 DEF StopRow
    <3>2. ASSUME NEW q \in Slots, NEW calculated \in BOOLEAN, StopJob(q, calculated) PROVE r \in jobs
      BY <3>2 DEF StopJob
    <3>3. ASSUME UNCHANGED jobs PROVE r \in jobs
      BY <3>3
    <3>4. ASSUME NEW c \in Customers,
                 RemoteStart(c) \/ Reserve(c) \/ CancelReservation(c) \/ Booking(c)
          PROVE  UNCHANGED jobs
      BY <3>4 DEF RemoteStart, Reserve, CancelReservation, Booking, CheckBookings, Save, AsksCharger
    <3>5. ASSUME NEW a \in Actors, Making(a) PROVE UNCHANGED jobs
      BY <3>5 DEF Making, CheckBusy, CheckBooking, Close, FindOld, Supersede, Insert, Count,
                  Link, Send, Rejected
    <3>6. ASSUME Handler, ~StopRow PROVE UNCHANGED jobs
      BY <3>6 DEF Handler, Authorize, Match, AuthorizeRow, StartTransaction, AuthorizeFirst,
                  StartRow, StopTransaction
    <3>7. ASSUME NEW x, \/ Preauth(x) \/ CallsAuthorize(x) \/ CallsStart(x) \/ Expires(x)
                        \/ \E s : PaymentEnds(x, s)
          PROVE  UNCHANGED jobs
      BY <3>7 DEF Preauth, CallsAuthorize, CallsStart, Calls, Expires, PaymentEnds
    <3>8. ASSUME CallsStop \/ Delivered \/ Lost \/ FaultReported \/ OpensOrCloses
          PROVE  UNCHANGED jobs
      BY <3>8 DEF CallsStop, Calls, Delivered, Lost, FaultReported, OpensOrCloses
    <3> QED
      BY <3>1, <3>2, <3>3, <3>4, <3>5, <3>6, <3>7, <3>8 DEF Step
  <2>2. r <= made /\ r \in Nat
    <3>1. mem["core"].row <= made /\ mem["core"].row \in Nat
      BY <1>0, CoreActs DEF MoveInv, Memory, Slots
    <3>2. \A q \in jobs : q <= made /\ q \in Nat
      BY <1>0 DEF MoveInv
    <3> QED
      BY <2>1, <3>1, <3>2
  <2> QED
    BY <1>0, <1>1, <2>2
<1>6. ASSUME NEW a \in Actors, mem'[a].row # 0, ~stale'[a]
      PROVE  Expects(pc'[a], rows'[mem'[a].row].status)
  <2>1. stale'[a] = (/\ mem[a].row # 0 /\ mem'[a].row = mem[a].row /\ pc'[a] # "idle"
                     /\ stale[a] \/ (pc'[a] = pc[a] /\ rows'[mem[a].row] # rows[mem[a].row]))
    BY DEF NoteHistory
  <2>2. CASE pc'[a] \notin Deciding
    BY <2>2 DEF Deciding, Expects
  <2>3. CASE pc'[a] \in Deciding /\ mem'[a].row = mem[a].row
    <3>1. ~stale[a] /\ (pc'[a] = pc[a] => rows'[mem[a].row] = rows[mem[a].row])
      BY <1>6, <2>1, <2>3 DEF Deciding
    <3>2. Expects(pc[a], rows[mem[a].row].status)
      BY <1>6, <2>3, <3>1 DEF MoveInv
    <3>3. CASE pc'[a] = pc[a]
      BY <2>3, <3>1, <3>2, <3>3
    <3>4. CASE GoesOn(a) /\ rows' = rows
      BY <2>3, <3>2, <3>4 DEF GoesOn, Expects
    <3> QED
      BY <2>3, <3>3, <3>4, DecidesSo DEF Decides
  <2>4. CASE pc'[a] \in Deciding /\ mem'[a].row # mem[a].row
    BY <1>6, <2>4, DecidesSo DEF Decides
  <2> QED
    BY <2>2, <2>3, <2>4
<1> QED
  BY <1>2, <1>4, <1>5, <1>6 DEF MoveInv

\* What is known of a session when it is written.
LEMMA MoveAlways == SafeSpec => []MoveInv
<1>1. Init => MoveInv
  <2> SUFFICES ASSUME Init PROVE MoveInv
    OBVIOUS
  <2>1. \A r \in Slots : rows[r].status = "unborn"
    BY DEF Init, NoRow
  <2>2. \A a \in Actors : mem[a].row = 0 /\ made = 0 /\ jobs = {}
    BY DEF Init, Blank
  <2> QED
    BY <2>1, <2>2, CoreActs DEF MoveInv
<1>2. Typed /\ MoveInv /\ [Next]_vars => MoveInv'
  <2>1. ASSUME UNCHANGED vars PROVE MoveInv' = MoveInv
    BY <2>1 DEF vars, table, MoveInv
  <2> QED
    BY <2>1, MoveStep DEF Next
<1> QED
  BY <1>1, <1>2, TypedAlways, PTL DEF SafeSpec

\* A session only moves on, but by an actor that decided before its row changed.
THEOREM SessionsMoveForward == SafeSpec => SessionMovesForward
<1> DEFINE Onward == \A r \in Slots :
       LET was == rows[r].status
           is == rows'[r].status
       IN  Rank(is) < Rank(was) \/ (was = "started" /\ is = "cancelled" /\ rows[r].tag \notin Pans)
           => \E a \in Actors : mem[a].row = r /\ stale[a] /\ pc'[a] # pc[a]
<1>1. Typed /\ MoveInv /\ [Next]_vars => [Onward]_vars
  BY MovesOn DEF Next
<1>2. [][Onward]_vars => SessionMovesForward
  BY DEF SessionMovesForward
<1> HIDE DEF Onward
<1> QED
  BY <1>1, <1>2, TypedAlways, MoveAlways, PTL DEF SafeSpec

------------------------------------------------------------------------------
(* The running session is the one the charger charges *)

\* The charger waits for the answer to the call that the core handles.
CoreMakes == {"busy", "booking", "close", "find", "supersede", "insert", "count", "link"}
Calling ==
  /\ mem["core"].next \in {"none", "expired"}
  /\ \/ pc["core"] = "idle" /\ dev.at \in {"free", "ready", "charging"}
     \/ pc["core"] \in CoreMakes \cup {"Authorize", "match", "authorize"} /\ dev.at = "authorizing"
     \/ pc["core"] \in {"StartTransaction", "authorizeFirst", "start"} /\ dev.at = "starting"
     \/ pc["core"] \in {"StopTransaction", "stop"} /\ dev.at = "stopping"
     \/ pc["core"] = "reply" /\ dev.at \in {"authorizing", "starting", "stopping"}

\* Only the core's own steps move it.
LEMMA CoreStays ==
  ASSUME Typed, NEW a, a # "core", NEW label, NEW m, Go(a, label, m)
  PROVE  pc'["core"] = pc["core"] /\ mem'["core"] = mem["core"]
  BY MoveIs, CoreActs

\* The steps that move neither the core nor the charger, nor tell of a lost call.
Apart == UNCHANGED <<dev, reply, bound, missed>> /\ pc'["core"] = pc["core"] /\ mem'["core"] = mem["core"]

\* A step is the handler's or the charger's, or concerns neither.
LEMMA ApartOrCore ==
  ASSUME Typed, Step
  PROVE  \/ Apart
         \/ Making("core") \/ Handler \/ Delivered \/ Lost \/ CallsStop
         \/ \E t \in Tags : CallsAuthorize(t) \/ CallsStart(t)
         \/ \E a \in Actors : Send(a) /\ dev.at = "free" /\ dev'.at = "ready" /\ a # "core"
              /\ pc'["core"] = pc["core"] /\ mem'["core"] = mem["core"]
<1>1. ASSUME NEW a \in Actors, Making(a), a # "core"
      PROVE  Apart \/ (/\ Send(a) /\ dev.at = "free" /\ dev'.at = "ready"
                       /\ pc'["core"] = pc["core"] /\ mem'["core"] = mem["core"])
  <2>1. \E label, m : Go(a, label, m)
    BY <1>1 DEF Making, CheckBusy, CheckBooking, Close, FindOld, Supersede, Insert, Count, Link,
                Send, Rejected, TurnedDown, Leave, WithoutBooking
  <2>2. pc'["core"] = pc["core"] /\ mem'["core"] = mem["core"]
    BY <1>1, <2>1, CoreStays
  <2>3. CASE Send(a)
    <3>1. UNCHANGED <<reply, bound, missed>>
      BY <2>3 DEF Send
    <3>2. UNCHANGED dev \/ (dev.at = "free" /\ dev'.at = "ready")
      BY <2>3 DEF Send, Free
    <3> QED
      BY <2>2, <2>3, <3>1, <3>2 DEF Apart
  <2>4. CASE ~Send(a)
    <3>1. UNCHANGED <<dev, reply, bound, missed>>
      BY <1>1, <2>4 DEF Making, CheckBusy, CheckBooking, Close, FindOld, Supersede, Insert, Count,
                        Link, Rejected, TurnedDown, wire
    <3> QED
      BY <2>2, <3>1 DEF Apart
  <2> QED
    BY <2>3, <2>4
<1>2. ASSUME NEW c \in Customers,
             RemoteStart(c) \/ Reserve(c) \/ CancelReservation(c) \/ Booking(c)
      PROVE  Apart
  <2>1. \E label, m : Go(c, label, m)
    BY <1>2 DEF RemoteStart, Begins, Reserve, CancelReservation, Booking, CheckBookings, Save,
                AsksCharger, Leave
  <2>2. UNCHANGED <<dev, reply, bound, missed>>
    BY <1>2 DEF RemoteStart, Reserve, CancelReservation, Booking, CheckBookings, Save,
                AsksCharger, wire
  <2>3. c # "core"
    BY SessionsAssumption
  <2> QED
    BY <2>1, <2>2, <2>3, CoreStays DEF Apart
<1>3. ASSUME NEW p \in Pans, Preauth(p) PROVE Apart
  <2>1. p # "core"
    BY SessionsAssumption
  <2> QED
    BY <1>3, <2>1, CoreStays DEF Preauth, Begins, Apart, wire
<1>4. CASE (\E b \in Places : Expires(b)) \/ FaultReported \/ OpensOrCloses
  BY <1>4 DEF Expires, FaultReported, OpensOrCloses, Apart, wire
<1>5. ASSUME NEW r \in Slots, NEW x,
             (x \in BOOLEAN /\ StopJob(r, x)) \/ (x \in {"finished", "cancelled"} /\ PaymentEnds(r, x))
      PROVE  Apart
  BY <1>5 DEF StopJob, PaymentEnds, Apart, wire
<1> QED
  BY <1>1, <1>2, <1>3, <1>4, <1>5 DEF Step

\* The charger's call and the handler stay in step.
LEMMA CallingStep ==
  ASSUME Typed, Calling, Step PROVE Calling'
<1>0. /\ "core" \in Actors /\ mem["core"] \in Memory
      /\ "core" \notin Customers /\ "core" \notin Pans
  BY CoreActs, SessionsAssumption DEF Typed, Control
<1>1. ASSUME NEW label, NEW m, Go("core", label, m)
      PROVE  pc'["core"] = label /\ mem'["core"] = m
  BY <1>0, <1>1, MoveIs
<1>2. Blank.next = "none" /\ \A r : [Blank EXCEPT !.row = r].next = "none"
  BY DEF Blank
<1>3. CASE Apart
  BY <1>3 DEF Apart, Calling
<1>4. CASE Making("core")
  <2>0. pc["core"] \in CoreMakes \cup {"send", "rejected"}
    BY <1>4 DEF Making, CheckBusy, CheckBooking, Close, FindOld, Supersede, Insert, Count, Link,
                Send, Rejected, CoreMakes
  <2>1. dev.at = "authorizing" /\ pc["core"] \in CoreMakes
    BY <2>0 DEF Calling, CoreMakes
  <2>2. dev' = dev /\ ~Send("core") /\ ~Rejected("core")
    BY <1>4, <2>1 DEF Making, CheckBusy, CheckBooking, Close, FindOld, Supersede, Insert, Count,
                      Link, Send, Rejected, CoreMakes, wire
  <2>3. ASSUME NEW label \in CoreMakes \cup {"match", "reply"}, NEW m, Go("core", label, m),
               m.next \in {"none", "expired"}
        PROVE  Calling'
    BY <1>1, <2>1, <2>2, <2>3 DEF Calling
  <2>4. ASSUME NEW r, Answers(r) PROVE Calling'
    BY <1>2, <2>3, <2>4 DEF Answers
  <2>5. ASSUME WithoutBooking("core") PROVE Calling'
    <3>1. \A t : [mem["core"] EXCEPT !.tag = t].next = mem["core"].next
      BY <1>0 DEF Memory
    <3>2. "find" \in CoreMakes /\ mem["core"].next \in {"none", "expired"}
      BY DEF CoreMakes, Calling
    <3> QED
      BY <2>3, <2>5, <3>1, <3>2 DEF WithoutBooking
  <2>6. mem["core"].next \in {"none", "expired"}
    BY DEF Calling
  <2>7. \A r : [mem["core"] EXCEPT !.row = r].next = mem["core"].next
    BY <1>0 DEF Memory
  <2>8. CASE CheckBusy("core")
    BY <2>3, <2>4, <2>6, <2>8 DEF CheckBusy, TurnedDown, CoreMakes
  <2>9. CASE CheckBooking("core")
    <3>1. \A b : [mem["core"] EXCEPT !.place = b, !.next = "expired"].next = "expired"
      BY <1>0 DEF Memory
    <3>2. \A b : [mem["core"] EXCEPT !.tag = bookings[b].tag].next = mem["core"].next
      BY <1>0 DEF Memory
    <3>3. ASSUME NEW b, \/ Go("core", "close", [mem["core"] EXCEPT !.place = b, !.next = "expired"])
                        \/ Go("core", "find", [mem["core"] EXCEPT !.tag = bookings[b].tag])
          PROVE  Calling'
      BY <2>3, <2>6, <3>1, <3>2, <3>3 DEF CoreMakes
    <3> QED
      BY <2>4, <2>5, <2>9, <3>3 DEF CheckBooking, TurnedDown
  <2>10. CASE Close("core")
    <3>1. mem["core"].next = "expired"
      BY <2>6, <2>10 DEF Close, Typed, Control, Fits
    <3> QED
      BY <2>5, <2>10, <3>1 DEF Close
  <2>11. CASE FindOld("core") \/ Supersede("core") \/ Insert("core")
    <3>1. \E label \in {"insert", "supersede", "count"} : \E r :
            Go("core", label, [mem["core"] EXCEPT !.row = r])
      BY <2>11 DEF FindOld, Supersede, Insert
    <3> QED
      BY <2>3, <2>6, <2>7, <3>1 DEF CoreMakes
  <2>12. CASE Count("core")
    <3>1. Go("core", "link", mem["core"])
      BY <1>0, <2>12 DEF Count
    <3> QED
      BY <2>3, <2>6, <3>1 DEF CoreMakes
  <2>13. CASE Link("core")
    BY <1>2, <2>3, <2>13 DEF Link
  <2> QED
    BY <1>4, <2>2, <2>8, <2>9, <2>10, <2>11, <2>12, <2>13 DEF Making
<1>5. CASE Handler
  <2>1. dev' = dev
    BY <1>5 DEF Handler, Authorize, Match, AuthorizeRow, StartTransaction, AuthorizeFirst,
                StartRow, StopTransaction, StopRow, wire
  <2>2. /\ dev.at \in {"authorizing", "starting", "stopping"}
        /\ dev.at = "authorizing" <=> pc["core"] \in {"Authorize", "match", "authorize"}
        /\ dev.at = "starting" <=> pc["core"] \in {"StartTransaction", "authorizeFirst", "start"}
    BY <1>5 DEF Calling, CoreMakes, Handler, Authorize, Match, AuthorizeRow, StartTransaction,
                AuthorizeFirst, StartRow, StopTransaction, StopRow
  <2>3. ASSUME NEW r, Answers(r) PROVE Calling'
    <3>1. pc'["core"] = "reply" /\ mem'["core"] = Blank
      BY <1>1, <2>3 DEF Answers
    <3> QED
      BY <1>2, <2>1, <2>2, <3>1 DEF Calling
  <2>4. CASE Authorize
    <3>1. dev.at = "authorizing"
      BY <2>2, <2>4 DEF Authorize
    <3>2. CASE Begins("core", "busy", "rfid", dev.tag)
      <4>1. pc'["core"] = "busy" /\ mem'["core"].next = "none"
        <5>1. [Blank EXCEPT !.latest = latest, !.kind = "rfid", !.tag = dev.tag].next = "none"
          BY DEF Blank
        <5> QED
          BY <1>1, <3>2, <5>1 DEF Begins
      <4> QED
        BY <2>1, <3>1, <4>1 DEF Calling, CoreMakes
    <3>3. CASE Go("core", "match", Blank)
      <4>1. pc'["core"] = "match" /\ mem'["core"].next = "none"
        BY <1>1, <1>2, <3>3
      <4> QED
        BY <2>1, <3>1, <4>1 DEF Calling
    <3> QED
      BY <2>3, <2>4, <3>2, <3>3 DEF Authorize
  <2>5. ASSUME NEW label, NEW r, Go("core", label, [Blank EXCEPT !.row = r]),
               \/ pc["core"] = "match" /\ label = "authorize"
               \/ pc["core"] = "StartTransaction" /\ label \in {"start", "authorizeFirst"}
               \/ pc["core"] = "StopTransaction" /\ label = "stop"
        PROVE  Calling'
    <3>1. pc'["core"] = label /\ mem'["core"].next = "none"
      BY <1>1, <1>2, <2>5
    <3>2. dev.at = CASE label = "authorize" -> "authorizing" [] label = "stop" -> "stopping"
                     [] OTHER -> "starting"
      BY <2>2, <2>5
    <3> QED
      BY <2>1, <2>5, <3>1, <3>2 DEF Calling
  <2>6. CASE Match
    BY <2>3, <2>5, <2>6 DEF Match
  <2>7. CASE StartTransaction
    BY <2>3, <2>5, <2>7 DEF StartTransaction
  <2>8. CASE StopTransaction
    BY <2>3, <2>5, <2>8 DEF StopTransaction
  <2>9. CASE AuthorizeFirst
    <3>1. pc'["core"] = "start" /\ mem'["core"] = mem["core"] /\ dev.at = "starting"
      BY <1>1, <2>2, <2>9 DEF AuthorizeFirst
    <3> QED
      BY <2>1, <3>1 DEF Calling
  <2>10. CASE AuthorizeRow \/ StartRow \/ StopRow
    BY <2>3, <2>10 DEF AuthorizeRow, StartRow, StopRow
  <2> QED
    BY <1>5, <2>4, <2>6, <2>7, <2>8, <2>9, <2>10 DEF Handler
<1>6. ASSUME NEW r, Hears(r) PROVE Calling'
  <2>1. pc'["core"] = "idle" /\ mem'["core"].next = "none"
    BY <1>1, <1>2, <1>6 DEF Hears, Leave
  <2>2. dev'.at \in {"free", "ready", "charging"}
    BY <1>6 DEF Hears, Free, Typed, Wire
  <2> QED
    BY <2>1, <2>2 DEF Calling
<1>7. CASE Lost
  <2>1. CASE Go("core", Entry, Blank) /\ UNCHANGED dev
    <3>1. pc'["core"] = Entry /\ mem'["core"].next = "none"
      BY <1>1, <1>2, <2>1
    <3>2. dev.at \in {"authorizing", "starting", "stopping"}
      BY <1>7 DEF Lost, Calling, CoreMakes
    <3> QED
      BY <2>1, <3>1, <3>2 DEF Entry, Calling
  <2> QED
    BY <1>6, <1>7, <2>1 DEF Lost
<1>8. ASSUME NEW at, NEW entry, NEW tag, Calls(at, entry, tag),
             <<at, entry>> \in {<<"authorizing", "Authorize">>, <<"starting", "StartTransaction">>,
                                <<"stopping", "StopTransaction">>}
      PROVE  Calling'
  <2>1. pc'["core"] = entry /\ mem'["core"].next = "none"
    BY <1>1, <1>2, <1>8 DEF Calls
  <2>2. dev'.at = at
    BY <1>8 DEF Calls, Typed, Wire
  <2> QED
    BY <1>8, <2>1, <2>2 DEF Calling
<1>9. ASSUME NEW t, CallsAuthorize(t) \/ CallsStart(t) PROVE Calling'
  BY <1>8, <1>9 DEF CallsAuthorize, CallsStart
<1>10. CASE CallsStop
  BY <1>8, <1>10 DEF CallsStop
<1>11. CASE dev.at = "free" /\ dev'.at = "ready" /\ pc'["core"] = pc["core"] /\ mem'["core"] = mem["core"]
  BY <1>11 DEF Calling
<1> QED
  BY <1>3, <1>4, <1>5, <1>6, <1>7, <1>9, <1>10, <1>11, ApartOrCore DEF Delivered

\* The charger's call and the handler are in step.
LEMMA CallingAlways == SafeSpec => []Calling
<1>1. Init => Calling
  BY CoreActs DEF Init, Calling, Blank, Free
<1>2. Typed /\ Calling /\ [Next]_vars => Calling'
  <2>1. ASSUME UNCHANGED vars PROVE Calling' = Calling
    BY <2>1 DEF vars, wire, Calling
  <2> QED
    BY <2>1, CallingStep DEF Next
<1> QED
  BY <1>1, <1>2, TypedAlways, PTL DEF SafeSpec

\* A running session is the one the charger charges under its number, was told of in the
\* answer that is on its way, or is stopping.
Running(r) == rows[r].status = "started" /\ ~rows[r].ended
Tied(r) ==
  /\ r = bound
  /\ \/ dev.at = "charging" /\ dev.tx = rows[r].id
     \/ /\ dev.at = "starting" /\ pc["core"] = "reply"
        /\ reply.ok /\ reply.tx = rows[r].id
     \/ /\ dev.at = "stopping" /\ dev.tx = rows[r].id
        /\ pc["core"] = "StopTransaction" \/ (pc["core"] = "stop" /\ mem["core"].row = r)
BooksInv == ~missed /\ ~crowded => \A r \in Slots : Running(r) => Tied(r)

\* Only StartRow makes a session a running one.
LEMMA RunsSince ==
  ASSUME Typed, Step, NEW r \in Slots, Running(r)'
  PROVE  \/ Running(r) /\ rows'[r].id = rows[r].id
         \/ StartRow /\ mem["core"].row = r
<1>0. /\ rows \in [Slots -> Rows]
      /\ \A q \in Slots : \A s : [rows[q] EXCEPT !.status = s].status = s
  BY DEF Typed, Table, Rows
<1>1. ASSUME rows'[r] = rows[r] PROVE Running(r) /\ rows'[r].id = rows[r].id
  BY <1>1 DEF Running
<1>2. ASSUME NEW q, NEW s, SetStatus(q, s) PROVE rows'[r] = rows[r] \/ (q = r /\ rows'[r].status = s)
  <2>1. CASE q = r
    <3>1. rows'[r] = [rows[r] EXCEPT !.status = s]
      BY <1>0, <1>2, <2>1 DEF SetStatus
    <3> QED
      BY <1>0, <2>1, <3>1
  <2>2. CASE q # r
    BY <1>0, <1>2, <2>2 DEF SetStatus
  <2> QED
    BY <2>1, <2>2
<1>3. ASSUME NEW q, NEW s, SetStatus(q, s), s # "started"
      PROVE  Running(r) /\ rows'[r].id = rows[r].id
  BY <1>1, <1>2, <1>3 DEF Running
<1>4. ASSUME NEW a \in Actors, Making(a) PROVE Running(r) /\ rows'[r].id = rows[r].id
  <2>1. CASE Insert(a)
    <3>1. CASE r = made + 1
      <4>1. rows'[r].status = mem[a].kind
        BY <1>0, <2>1, <3>1 DEF Insert
      <4>2. mem[a].kind \in Kinds
        BY <2>1 DEF Insert, Typed, Control, Fits
      <4> QED
        BY <4>1, <4>2 DEF Running, Kinds
    <3>2. CASE r # made + 1
      BY <1>0, <1>1, <2>1, <3>2 DEF Insert
    <3> QED
      BY <3>1, <3>2
  <2>2. CASE Supersede(a) \/ Rejected(a)
    BY <1>3, <2>2 DEF Supersede, Rejected, CancelledStatus
  <2> QED
    BY <1>1, <1>4, <2>1, <2>2
    DEF Making, CheckBusy, CheckBooking, Close, FindOld, Count, Link, Send, table
<1>5. CASE Handler
  <2>1. CASE StartRow
    BY <1>1, <1>2, <2>1 DEF StartRow
  <2>2. CASE AuthorizeRow \/ AuthorizeFirst
    BY <1>3, <2>2 DEF AuthorizeRow, AuthorizeFirst
  <2>3. CASE StopRow
    <3>1. CASE r = mem["core"].row
      BY <1>0, <2>3, <3>1 DEF StopRow, Running, Rows
    <3>2. CASE r # mem["core"].row
      BY <1>0, <1>1, <2>3, <3>2 DEF StopRow
    <3> QED
      BY <3>1, <3>2
  <2> QED
    BY <1>1, <1>5, <2>1, <2>2, <2>3
    DEF Handler, Authorize, Match, StartTransaction, StopTransaction, table
<1>6. ASSUME NEW q \in Slots, NEW calculated \in BOOLEAN, StopJob(q, calculated)
      PROVE  Running(r) /\ rows'[r].id = rows[r].id
  BY <1>1, <1>3, <1>6 DEF StopJob
<1>7. ASSUME NEW q \in Slots, NEW s \in {"finished", "cancelled"}, PaymentEnds(q, s)
      PROVE  Running(r) /\ rows'[r].id = rows[r].id
  <2>1. CASE q = r
    <3>1. rows'[r].status = s
      BY <1>0, <1>7, <2>1 DEF PaymentEnds, Rows
    <3> QED
      BY <3>1 DEF Running
  <2>2. CASE q # r
    BY <1>0, <1>1, <1>7, <2>2 DEF PaymentEnds
  <2> QED
    BY <2>1, <2>2
<1>8. ASSUME NEW c \in Customers,
             RemoteStart(c) \/ Reserve(c) \/ CancelReservation(c) \/ Booking(c)
      PROVE  Running(r) /\ rows'[r].id = rows[r].id
  BY <1>1, <1>8 DEF RemoteStart, Reserve, CancelReservation, Booking, CheckBookings, Save,
                    AsksCharger, table
<1>9. ASSUME NEW x, Preauth(x) \/ CallsAuthorize(x) \/ CallsStart(x) \/ Expires(x)
      PROVE  Running(r) /\ rows'[r].id = rows[r].id
  BY <1>1, <1>9 DEF Preauth, CallsAuthorize, CallsStart, Calls, Expires, table
<1>10. CASE CallsStop \/ Delivered \/ Lost \/ FaultReported \/ OpensOrCloses
  BY <1>1, <1>10 DEF CallsStop, Calls, Delivered, Lost, FaultReported, OpensOrCloses, table
<1> QED
  BY <1>4, <1>5, <1>6, <1>7, <1>8, <1>9, <1>10 DEF Step

\* A call that was missed stays noted.
LEMMA MissedStays == ASSUME Step, missed PROVE missed'
<1>1. ASSUME NEW a \in Actors, Making(a) PROVE UNCHANGED missed
  BY <1>1 DEF Making, CheckBusy, CheckBooking, Close, FindOld, Supersede, Insert, Count, Link,
              Send, Rejected
<1>2. ASSUME NEW c \in Customers,
             RemoteStart(c) \/ Reserve(c) \/ CancelReservation(c) \/ Booking(c)
      PROVE  UNCHANGED missed
  BY <1>2 DEF RemoteStart, Reserve, CancelReservation, Booking, CheckBookings, Save, AsksCharger
<1>3. ASSUME Handler PROVE missed'
  BY <1>3 DEF Handler, Authorize, Match, AuthorizeRow, StartTransaction, AuthorizeFirst, StartRow,
              StopTransaction, StopRow
<1>4. ASSUME NEW x, \/ Preauth(x) \/ CallsAuthorize(x) \/ CallsStart(x) \/ Expires(x)
                    \/ \E s : StopJob(x, s) \/ PaymentEnds(x, s)
      PROVE  UNCHANGED missed
  BY <1>4 DEF Preauth, CallsAuthorize, CallsStart, Calls, Expires, StopJob, PaymentEnds
<1>5. ASSUME CallsStop \/ Delivered \/ Lost \/ FaultReported \/ OpensOrCloses PROVE missed'
  BY <1>5 DEF CallsStop, Calls, Delivered, Lost, FaultReported, OpensOrCloses
<1> QED
  BY <1>1, <1>2, <1>3, <1>4, <1>5 DEF Step

\* A running session stays tied to the charger.
LEMMA TiedStill ==
  ASSUME Typed, MoveInv, Calling, IdsUnique, Step, ~crowded, ~missed',
         NEW r \in Slots, Running(r), Tied(r), Running(r)', rows'[r].id = rows[r].id
  PROVE  Tied(r)'
<1>0. /\ "core" \in Actors /\ mem["core"] \in Memory
      /\ \A q : [Blank EXCEPT !.row = q].row = q
  BY CoreActs DEF Typed, Control, Blank
<1>1. dev.at \in {"charging", "starting", "stopping"} /\ (dev.at = "starting" => pc["core"] = "reply")
  BY DEF Tied
<1>2. CASE Apart
  BY <1>2 DEF Apart, Tied
<1>3. CASE Making("core")
  <2>1. pc["core"] \in CoreMakes \cup {"send", "rejected"}
    BY <1>3 DEF Making, CheckBusy, CheckBooking, Close, FindOld, Supersede, Insert, Count, Link,
                Send, Rejected, CoreMakes
  <2> QED
    BY <1>1, <2>1 DEF Calling, CoreMakes
<1>4. CASE Handler
  <2>1. CASE StopTransaction
    <3>1. pc["core"] = "StopTransaction" /\ dev.at = "stopping" /\ dev.tx = rows[r].id
      BY <1>1, <2>1 DEF StopTransaction, Calling, CoreMakes, Tied
    <3>2. r \in Numbered(dev.tx) /\ ~closed
      BY <2>1, <3>1 DEF Numbered, Running, StopTransaction
    <3>3. PICK q \in Numbered(dev.tx) : Go("core", "stop", [Blank EXCEPT !.row = q])
      BY <2>1, <3>2 DEF StopTransaction
    <3>4. q = r
      <4>1. q \in Slots /\ rows[q].status # "unborn" /\ rows[q].id = rows[r].id
        BY <3>1, <3>3 DEF Numbered
      <4>2. q \in 1..made /\ r \in 1..made
        BY <4>1 DEF MoveInv, Slots, Running, Typed, Table
      <4> QED
        BY <4>1, <4>2 DEF IdsUnique
    <3>5. pc'["core"] = "stop" /\ mem'["core"].row = r
      <4>1. pc'["core"] = "stop" /\ mem'["core"] = [Blank EXCEPT !.row = q]
        BY <1>0, <3>3, MoveIs
      <4> QED
        BY <1>0, <3>4, <4>1
    <3>6. dev' = dev /\ bound' = bound
      BY <2>1 DEF StopTransaction
    <3> QED
      BY <3>1, <3>5, <3>6 DEF Tied
  <2>2. CASE StopRow
    <3>1. mem["core"].row = r
      BY <1>1, <2>2 DEF StopRow, Tied, Calling, CoreMakes
    <3>2. rows'[r].ended
      BY <2>2, <3>1 DEF StopRow, Typed, Table, Rows
    <3> QED
      BY <3>2 DEF Running
  <2>3. CASE Authorize \/ Match \/ AuthorizeRow \/ StartTransaction \/ AuthorizeFirst \/ StartRow
    BY <1>1, <2>3 DEF Authorize, Match, AuthorizeRow, StartTransaction, AuthorizeFirst, StartRow,
                      Calling, CoreMakes
  <2> QED
    BY <1>4, <2>1, <2>2, <2>3 DEF Handler
<1>5. CASE Delivered
  <2>1. pc["core"] = "reply" /\ dev.at = "starting" /\ reply.ok /\ reply.tx = rows[r].id
    BY <1>1, <1>5 DEF Delivered, Calling, CoreMakes, Tied
  <2>2. dev' = [dev EXCEPT !.at = "charging", !.tx = reply.tx]
    BY <1>5, <2>1 DEF Delivered, Hears
  <2>3. dev'.at = "charging" /\ dev'.tx = rows[r].id
    BY <2>1, <2>2 DEF Typed, Wire
  <2>4. bound' = bound
    BY <1>5 DEF Delivered
  <2> QED
    BY <2>3, <2>4 DEF Tied
<1>6. CASE Lost
  <2>1. pc["core"] # "StopTransaction" /\ ~(dev.at = "starting" /\ pc["core"] = "reply" /\ reply.ok)
    BY <1>6 DEF Lost
  <2>2. pc["core"] \in {"Authorize", "StartTransaction", "reply"}
    BY <1>6, <2>1 DEF Lost
  <2> QED
    BY <1>1, <2>1, <2>2 DEF Calling, CoreMakes, Tied
<1>7. CASE CallsStop
  <2>1. dev.at = "charging" /\ pc["core"] = "idle"
    BY <1>7 DEF CallsStop, Calls
  <2>2. pc'["core"] = "StopTransaction"
    BY <1>0, <1>7, MoveIs DEF CallsStop, Calls
  <2>3. dev'.at = "stopping" /\ dev'.tx = dev.tx /\ bound' = bound
    BY <1>7 DEF CallsStop, Calls, Typed, Wire
  <2> QED
    BY <2>1, <2>2, <2>3 DEF Tied
<1>8. ASSUME NEW t, CallsAuthorize(t) \/ CallsStart(t) PROVE FALSE
  <2>1. dev.at \in {"free", "ready"}
    BY <1>8 DEF CallsAuthorize, CallsStart, Presents
  <2> QED
    BY <1>1, <2>1
<1>9. CASE dev.at = "free"
  BY <1>1, <1>9
<1> QED
  BY <1>2, <1>3, <1>4, <1>5, <1>6, <1>7, <1>8, <1>9, ApartOrCore

\* Started rows follow the charger.
LEMMA BooksStep ==
  ASSUME Typed, MoveInv, Calling, IdsUnique, BooksInv, Step, NoteHistory PROVE BooksInv'
<1> SUFFICES ASSUME ~missed', ~crowded', NEW r \in Slots, Running(r)' PROVE Tied(r)'
  BY DEF BooksInv
<1>1. ~missed /\ ~crowded
  BY MissedStays DEF NoteHistory
<1>2. CASE StartRow /\ mem["core"].row = r
  <2>1. "core" \in Actors /\ pc["core"] = "start" /\ dev.at = "starting"
    BY <1>2 DEF StartRow, Calling, CoreMakes
  <2>2. pc'["core"] = "reply"
    BY <1>2, <2>1, MoveIs DEF StartRow, Answers
  <2>3. bound' = r /\ dev' = dev /\ reply' = [ok |-> TRUE, tx |-> rows[r].id]
    BY <1>2 DEF StartRow, Answers
  <2>4. rows'[r].id = rows[r].id
    BY <1>2 DEF StartRow, SetStatus, Typed, Table, Rows
  <2> QED
    BY <2>1, <2>2, <2>3, <2>4 DEF Tied
<1>3. CASE Running(r) /\ rows'[r].id = rows[r].id
  BY <1>1, <1>3, TiedStill DEF BooksInv
<1> QED
  BY <1>2, <1>3, RunsSince

\* The sessions that count as running are the one the charger is charging.
THEOREM BooksFollow == SafeSpec => []BooksFollowCharger
<1>1. Init => BooksInv
  BY DEF Init, BooksInv, Running, NoRow
<1>2. Typed /\ MoveInv /\ Calling /\ IdsUnique /\ BooksInv /\ [Next]_vars => BooksInv'
  <2>1. ASSUME UNCHANGED vars PROVE BooksInv' = BooksInv
    BY <2>1 DEF vars, table, wire, BooksInv, Running, Tied
  <2> QED
    BY <2>1, BooksStep DEF Next
<1>3. BooksInv => BooksFollowCharger
  BY DEF BooksInv, BooksFollowCharger, Running, Tied
<1> QED
  BY <1>1, <1>2, <1>3, TypedAlways, MoveAlways, CallingAlways, IdsAreUnique, PTL DEF SafeSpec
=============================================================================
