--------------------------- MODULE EventDelivery ---------------------------
(***************************************************************************)
(* How the gateway carries one charger's OCPP events to the core API and   *)
(* its replies back (apps/ocpp/modules/ocpp/ocpp-handlers-2.js): up to     *)
(* maxRetries posts, a pause between them, a retry only after a network    *)
(* error or a 5xx, the event's default response when it gives up.          *)
(*                                                                         *)
(* A post whose connection breaks may still be running in the core (a      *)
(* "stray"), so a retry can be carried out beside it or before it.         *)
(***************************************************************************)
EXTENDS Integers, FiniteSets

CONSTANTS
  Events,        \* the charger's events, numbered in the order it sends them
  MaxRetries,    \* maxRetries of processOcppEvent
  MaxCrashes     \* bound: restarts of the gateway

ASSUME DeliveryAssumption ==
  /\ Events \subseteq Nat
  /\ MaxRetries \in Nat \ {0}
  /\ MaxCrashes \in Nat

VARIABLES
  state,     \* processOcppEvent: where the gateway is with the event
  attempt,   \* its counter of failed attempts
  post,      \* the post it awaits, as the core sees it
  strays,    \* posts it no longer awaits that the core still has to carry out
  handled,   \* how often the core carried the event out
  answer,    \* what the charger was told
  gaveUp,    \* the charger stopped waiting for the answer
  overtaken, \* history: first carried out after a later event was
  broken,    \* history: a post was given up while the core had it
  crashes

deliveryVars == <<state, attempt, post, strays, handled, answer, gaveUp, overtaken,
                  broken, crashes>>

DeliveryInit ==
  /\ state = [e \in Events |-> "idle"]
  /\ attempt = [e \in Events |-> 0]
  /\ post = [e \in Events |-> "none"]
  /\ strays = [e \in Events |-> 0]
  /\ handled = [e \in Events |-> 0]
  /\ answer = [e \in Events |-> "none"]
  /\ gaveUp = [e \in Events |-> FALSE]
  /\ overtaken = [e \in Events |-> FALSE]
  /\ broken = [e \in Events |-> FALSE]
  /\ crashes = 0

\* A charger has one call of its own open at a time.
ChargerCalls(e) ==
  /\ state[e] = "idle"
  /\ \A d \in Events : d < e => answer[d] # "none" \/ state[d] = "dropped" \/ gaveUp[d]
  /\ state' = [state EXCEPT ![e] = "ready"]
  /\ UNCHANGED <<attempt, post, strays, handled, answer, gaveUp, overtaken,
                 broken, crashes>>

\* It stops waiting after its own timeout; the gateway does not learn of it.
ChargerGivesUp(e) ==
  /\ state[e] \in {"ready", "posted"}
  /\ ~gaveUp[e]
  /\ gaveUp' = [gaveUp EXCEPT ![e] = TRUE]
  /\ UNCHANGED <<state, attempt, post, strays, handled, answer, overtaken,
                 broken, crashes>>

\* One turn of the loop: axios.post, first or after the pause.
Post(e) ==
  /\ state[e] = "ready"
  /\ state' = [state EXCEPT ![e] = "posted"]
  /\ post' = [post EXCEPT ![e] = "sent"]
  /\ UNCHANGED <<attempt, strays, handled, answer, gaveUp, overtaken, broken,
                 crashes>>

\* The core's handler ran once more, for whichever post.
Handled(e) ==
  /\ handled' = [handled EXCEPT ![e] = @ + 1]
  /\ overtaken' = [overtaken EXCEPT ![e] =
                     @ \/ (handled[e] = 0 /\ \E f \in Events : f > e /\ handled[f] > 0)]

\* The core carries the awaited post out and replies; a handler that throws is
\* turned into a 400 by the controller, whatever it had done before.
CoreReplies(e, reply) ==
  /\ post[e] = "sent"
  /\ post' = [post EXCEPT ![e] = reply]
  /\ Handled(e)
  /\ UNCHANGED <<state, attempt, strays, answer, gaveUp, broken, crashes>>

\* The core carries out a post nobody waits for.
CoreHandlesStray(e) ==
  /\ strays[e] > 0
  /\ strays' = [strays EXCEPT ![e] = @ - 1]
  /\ Handled(e)
  /\ UNCHANGED <<state, attempt, post, answer, gaveUp, broken, crashes>>

\* getDefaultOcppResponse: a refusal, except for external chargers.
ExternalDefault == "core"
DefaultAnswer == "default"

Answer(e, a) ==
  /\ state' = [state EXCEPT ![e] = "answered"]
  /\ answer' = [answer EXCEPT ![e] = a]

\* A response with a 2xx status is passed on to the charger.
GotResponse(e) ==
  /\ state[e] = "posted"
  /\ post[e] = "ok"
  /\ post' = [post EXCEPT ![e] = "none"]
  /\ Answer(e, "core")
  /\ UNCHANGED <<attempt, strays, handled, gaveUp, overtaken, broken, crashes>>

\* A 4xx ends the loop with the default response.
GotClientError(e) ==
  /\ state[e] = "posted"
  /\ post[e] = "4xx"
  /\ post' = [post EXCEPT ![e] = "none"]
  /\ Answer(e, DefaultAnswer)
  /\ UNCHANGED <<attempt, strays, handled, gaveUp, overtaken, broken, crashes>>

\* The test that ends the loop, on the counter just incremented.
OffByOne(n) == n > MaxRetries
Exhausted(n) == n >= MaxRetries

\* The end of a failed turn of the loop: the default response, or the pause.
AnswerAtOnce(e) ==
  /\ state' = [state EXCEPT ![e] = IF Exhausted(attempt[e] + 1) THEN "answered" ELSE "ready"]
  /\ answer' = [answer EXCEPT ![e] = DefaultAnswer]
AfterFailure(e) ==
  IF Exhausted(attempt[e] + 1)
  THEN Answer(e, DefaultAnswer)
  ELSE /\ state' = [state EXCEPT ![e] = "ready"]
       /\ UNCHANGED answer

\* A network error or a 5xx: the post never reached the core, its reply got
\* lost, or (stray) the connection broke while the core was at it.
PostFails(e, stray) ==
  /\ state[e] = "posted"
  /\ stray => post[e] = "sent"
  /\ post' = [post EXCEPT ![e] = "none"]
  /\ strays' = [strays EXCEPT ![e] = IF stray THEN @ + 1 ELSE @]
  /\ broken' = [broken EXCEPT ![e] = @ \/ stray]
  /\ attempt' = [attempt EXCEPT ![e] = @ + 1]
  /\ AfterFailure(e)
  /\ UNCHANGED <<handled, gaveUp, overtaken, crashes>>

\* The gateway restarts: events in progress are never answered, and the posts
\* the core has already taken become strays.
GatewayCrashes ==
  /\ crashes < MaxCrashes
  /\ crashes' = crashes + 1
  /\ state' = [e \in Events |-> IF state[e] \in {"ready", "posted"} THEN "dropped"
                                ELSE state[e]]
  /\ strays' = [e \in Events |-> IF post[e] = "sent" THEN strays[e] + 1 ELSE strays[e]]
  /\ broken' = [e \in Events |-> broken[e] \/ post[e] = "sent"]
  /\ post' = [e \in Events |-> "none"]
  /\ UNCHANGED <<attempt, handled, answer, gaveUp, overtaken>>

DeliveryNext ==
  \/ \E e \in Events :
       \/ ChargerCalls(e) \/ ChargerGivesUp(e) \/ Post(e)
       \/ \E reply \in {"ok", "4xx"} : CoreReplies(e, reply)
       \/ CoreHandlesStray(e) \/ GotResponse(e) \/ GotClientError(e)
       \/ \E stray \in BOOLEAN : PostFails(e, stray)
  \/ GatewayCrashes

\* The timer of the pause fires, a reply that arrived is read, and a post that
\* gets no reply ends as a network error when its connection breaks.
DeliveryFairness ==
  \A e \in Events :
    /\ WF_deliveryVars(Post(e))
    /\ WF_deliveryVars(GotResponse(e) \/ GotClientError(e) \/ PostFails(e, FALSE) \/ PostFails(e, TRUE))

DeliverySpec == DeliveryInit /\ [][DeliveryNext]_deliveryVars /\ DeliveryFairness

----------------------------------------------------------------------------
(* Properties                                                              *)

DeliveryTypeOK ==
  /\ state \in [Events -> {"idle", "ready", "posted", "answered", "dropped"}]
  /\ attempt \in [Events -> 0..MaxRetries]
  /\ post \in [Events -> {"none", "sent", "ok", "4xx"}]
  /\ strays \in [Events -> Nat]
  /\ handled \in [Events -> Nat]
  /\ answer \in [Events -> {"none", "core", "default"}]
  /\ gaveUp \in [Events -> BOOLEAN]
  /\ overtaken \in [Events -> BOOLEAN]
  /\ broken \in [Events -> BOOLEAN]
  /\ crashes \in 0..MaxCrashes

\* The core carries an event out no more often than the gateway may post it,
\* with every post that is still on its way counted: retries, lost replies,
\* broken connections and a crash of the gateway together never add one.
ExecutionsBounded ==
  \A e \in Events :
    handled[e] + strays[e] + (IF post[e] = "sent" THEN 1 ELSE 0) <= MaxRetries

\* The events of a charger take effect in the order it sent them, unless the
\* charger gave up waiting for the answer, or a post was broken off while the
\* core was at it: the retries alone never reorder.
OrderKept == \A e \in Events : overtaken[e] => broken[e] \/ gaveUp[e]

\* The gateway keeps the promise of EventPromise.
Promised ==
  [e \in Events |->
     CASE state[e] = "idle" -> "idle"
       [] state[e] \in {"ready", "posted"} -> "pending"
       [] state[e] = "dropped" -> "dropped"
       [] state[e] = "answered" /\ answer[e] = "core" -> "confirmed"
       [] OTHER -> "refused"]
Promise == INSTANCE EventPromise WITH status <- Promised, effects <- handled
KeepsPromise == Promise!Spec
=============================================================================
