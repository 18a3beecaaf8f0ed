--------------------------- MODULE PaymentPromise ---------------------------
(***************************************************************************)
(* What the core promises about the money of one card-paid session, seen   *)
(* from the card holder and the operator.  The provider moves the money on *)
(* its own; the books follow, perhaps never.  What they state about the    *)
(* row may be taken back, but never runs ahead of the money.  What they    *)
(* record is for good and in order: the document of the capture comes      *)
(* before the paid session and before its revenue.                         *)
(***************************************************************************)

VARIABLES
  money,         \* what the provider did with the card
  state,         \* what the payment row claims: "open" is a claim of nothing
  records        \* which of "documented", "paid", "revenue" are on record
vars == <<money, state, records>>

Init == money = "none" /\ state = "open" /\ records = {}

\* The provider authorises the card once, captures or releases what it holds, and
\* refunds what it captured.
Moves == {<<"none", "held">>, <<"held", "captured">>, <<"held", "released">>,
          <<"captured", "refunded">>}
Move ==
  /\ \E m \in Moves : money = m[1] /\ money' = m[2]
  /\ UNCHANGED <<state, records>>

Taken == money \in {"captured", "refunded"}
Covers(claim) ==
  /\ claim = "Processed" => Taken
  /\ claim = "Refunded" => money = "refunded"

Claim ==
  /\ \E claim \in {"open", "Processed", "Refunded"} : Covers(claim) /\ state' = claim
  /\ UNCHANGED <<money, records>>

Document ==
  /\ Taken
  /\ records' = records \cup {"documented"}
  /\ UNCHANGED <<money, state>>

\* The session is paid, or its revenue booked, on the document of the capture.
Record(entry) ==
  /\ "documented" \in records
  /\ records' = records \cup {entry}
  /\ UNCHANGED <<money, state>>

Next == Move \/ Claim \/ Document \/ \E entry \in {"paid", "revenue"} : Record(entry)

Spec == Init /\ [][Next]_vars
=============================================================================
