---------------------------- MODULE EventPromise ----------------------------
(***************************************************************************)
(* What the gateway promises a charger about an OCPP event it sends: one   *)
(* answer at most, a confirmation only for an event the core has carried   *)
(* out, and at most MaxRetries executions.  A refused event may still have *)
(* been, or later be, carried out: that is all the retries can give.       *)
(***************************************************************************)
EXTENDS Integers

CONSTANTS Events, MaxRetries

VARIABLES status, effects
vars == <<status, effects>>

Init ==
  /\ status = [e \in Events |-> "idle"]
  /\ effects = [e \in Events |-> 0]

Send(e) ==
  /\ status[e] = "idle"
  /\ status' = [status EXCEPT ![e] = "pending"]
  /\ UNCHANGED effects

Effect(e) ==
  /\ status[e] # "idle"
  /\ effects[e] < MaxRetries
  /\ effects' = [effects EXCEPT ![e] = @ + 1]
  /\ UNCHANGED status

Confirm(e) ==
  /\ status[e] = "pending"
  /\ effects[e] > 0
  /\ status' = [status EXCEPT ![e] = "confirmed"]
  /\ UNCHANGED effects

Refuse(e) ==
  /\ status[e] = "pending"
  /\ status' = [status EXCEPT ![e] = "refused"]
  /\ UNCHANGED effects

\* A crash of the gateway drops every event that waits for an answer.
Crash ==
  /\ status' = [e \in Events |-> IF status[e] = "pending" THEN "dropped" ELSE status[e]]
  /\ UNCHANGED effects

Next ==
  \/ \E e \in Events : Send(e) \/ Effect(e) \/ Confirm(e) \/ Refuse(e)
  \/ Crash

SafeSpec == Init /\ [][Next]_vars

Spec ==
  /\ SafeSpec
  /\ \A e \in Events : WF_vars(Confirm(e) \/ Refuse(e))
=============================================================================
