--------------------------- MODULE GatewayProofs ---------------------------
(***************************************************************************)
(* Theorems about the gateway.                                             *)
(*                                                                         *)
(* Gateway: its types, that the map holds only clients the gateway still   *)
(* listens to, that the newest connection keeps its entry, and that an     *)
(* undisturbed registration repairs the connection rows.                   *)
(*                                                                         *)
(* EventDelivery: its types, the bound on executions, the order of a       *)
(* charger's events, and that every step is one EventPromise allows.       *)
(***************************************************************************)
EXTENDS Gateway, EventDelivery, TLAPS

USE DEF sockVars, logVars, mapHist

\* Every variable of the registry keeps its type.
THEOREM TypeCorrect == Spec => []TypeOK
<1> USE GatewayAssumption DEF TypeOK, SockStates
<1>1. Init => TypeOK
  BY DEF Init, NoCall
<1>2. TypeOK /\ [Next]_vars => TypeOK'
  <2> SUFFICES ASSUME TypeOK, [Next]_vars PROVE TypeOK'
    OBVIOUS
  <2>1. ASSUME NEW c \in Conns, ConnNext(c) PROVE TypeOK'
    <3>1. ASSUME NEW s \in {"enabled", "disabled", "absent"}, Auth(c, s) PROVE TypeOK'
      BY <3>1 DEF Auth
    <3>2. CASE ClientConnected(c)
      BY <3>2 DEF ClientConnected
    <3>3. CASE RegisterUpdate(c)
      BY <3>3 DEF RegisterUpdate, MarkDisconnected
    <3>4. CASE RegisterInsert(c)
      BY <3>4 DEF RegisterInsert
    <3>5. CASE RegisterFails(c)
      BY <3>5 DEF RegisterFails
    <3>6. CASE ChargerSends(c)
      BY <3>6 DEF ChargerSends
    <3>7. CASE Message(c)
      BY <3>7 DEF Message, MapWith
    <3>8. CASE ConnectionLost(c)
      BY <3>8 DEF ConnectionLost
    <3>9. CASE Disconnect(c)
      BY <3>9 DEF Disconnect
    <3>10. CASE DisconnectUpdate(c)
      BY <3>10 DEF DisconnectUpdate, MarkDisconnected
    <3> QED
      BY <2>1, <3>1, <3>2, <3>3, <3>4, <3>5, <3>6, <3>7, <3>8, <3>9, <3>10 DEF ConnNext
  <2>2. ASSUME NEW i \in Identities, DisconnectClientApi(i) PROVE TypeOK'
    BY <2>2 DEF DisconnectClientApi
  <2>3. CASE Restart
    BY <2>3 DEF Restart
  <2>4. ASSUME NEW k \in Calls, CallNext(k) PROVE TypeOK'
    BY <2>4 DEF CallNext, TriggerRemoteEvent, CallAnswered, CallFails
  <2>5. CASE UNCHANGED vars
    BY <2>5 DEF vars
  <2> QED
    BY <2>1, <2>2, <2>3, <2>4, <2>5 DEF Next
<1> QED
  BY <1>1, <1>2, PTL DEF Spec

----------------------------------------------------------------------------
\* What MapEntryIsAttached and NewestKeepsEntry need besides themselves: the
\* history variable names a connection of the identity itself.
MapInv ==
  /\ TypeOK
  /\ MapEntryIsAttached
  /\ NewestKeepsEntry
  /\ \A i \in Identities : newest[i] # NoConn => IdentityOf[newest[i]] = i

\* The registry's invariant: no step of any connection, of the API or a restart
\* leaves a dangling entry, or takes the entry of the newest connection.
LEMMA MapInvariant == Spec => []MapInv
<1> USE GatewayAssumption DEF MapEntryIsAttached, NewestKeepsEntry, Attached
<1>1. Init => MapInv
  <2>1. Init => TypeOK
    BY DEF Init, NoCall, TypeOK, SockStates
  <2> QED
    BY <2>1 DEF Init, MapInv
<1>2. MapInv /\ TypeOK' /\ [Next]_vars => MapInv'
  <2> SUFFICES ASSUME MapInv, TypeOK', [Next]_vars PROVE MapInv'
    OBVIOUS
  <2> USE DEF MapInv
  <2>0. TypeOK /\ TypeOK'
    OBVIOUS
  <2>1. ASSUME NEW c \in Conns, ConnNext(c) PROVE MapInv'
    <3> USE DEF TypeOK
    <3>1. ASSUME NEW s \in {"enabled", "disabled", "absent"}, Auth(c, s) PROVE MapInv'
      BY <2>0, <3>1 DEF Auth
    <3>2. CASE ClientConnected(c)
      BY <2>0, <3>2 DEF ClientConnected
    <3>3. CASE RegisterUpdate(c) \/ RegisterInsert(c) \/ RegisterFails(c) \/ ChargerSends(c)
      BY <2>0, <3>3 DEF RegisterUpdate, RegisterInsert, RegisterFails, ChargerSends
    <3>4. CASE Message(c)
      <4>1. connected' = [connected EXCEPT ![IdentityOf[c]] = c]
        BY <3>4 DEF Message, MapWith
      <4>2. sock' = sock /\ newest' = newest /\ apiDeletes' = apiDeletes /\ Attached(c)
        BY <3>4 DEF Message
      <4>3. MapEntryIsAttached'
        BY <2>0, <4>1, <4>2
      <4>4. late' = [late EXCEPT ![IdentityOf[c]] = @ \/ c # newest[IdentityOf[c]]]
        BY <3>4 DEF Message
      <4>5. NewestKeepsEntry'
        <5> SUFFICES ASSUME NEW i \in Identities, newest[i] # NoConn, Attached(newest[i]),
                            ~late'[i], apiDeletes = 0
                     PROVE  connected'[i] = newest[i]
          BY <4>2
        <5>1. CASE i = IdentityOf[c]
          BY <2>0, <4>1, <4>4, <5>1
        <5>2. CASE i # IdentityOf[c]
          BY <2>0, <4>1, <4>2, <4>4, <5>2
        <5> QED
          BY <5>1, <5>2
      <4> QED
        BY <2>0, <4>2, <4>3, <4>5
    <3>5. CASE ConnectionLost(c)
      BY <2>0, <3>5 DEF ConnectionLost
    <3>6. CASE Disconnect(c)
      BY <2>0, <3>6 DEF Disconnect, IsCurrent
    <3>7. CASE DisconnectUpdate(c)
      BY <2>0, <3>7 DEF DisconnectUpdate
    <3> QED
      BY <2>1, <3>1, <3>2, <3>3, <3>4, <3>5, <3>6, <3>7 DEF ConnNext
  <2>2. ASSUME NEW i \in Identities, DisconnectClientApi(i) PROVE MapInv'
    BY <2>0, <2>2 DEF DisconnectClientApi, TypeOK
  <2>3. CASE Restart
    BY <2>0, <2>3 DEF Restart, TypeOK
  <2>4. ASSUME NEW k \in Calls, CallNext(k) PROVE MapInv'
    BY <2>0, <2>4 DEF CallNext, TriggerRemoteEvent, CallAnswered, CallFails
  <2>5. CASE UNCHANGED vars
    BY <2>0, <2>5 DEF vars
  <2> QED
    BY <2>1, <2>2, <2>3, <2>4, <2>5 DEF Next
<1> QED
  BY <1>1, <1>2, TypeCorrect, PTL DEF Spec

\* The map never points at a client whose disconnect was handled.
THEOREM MapIsAttached == Spec => []MapEntryIsAttached
BY MapInvariant, PTL DEF MapInv

\* The drop of an older connection never unregisters the newest one.
THEOREM NewestIsKept == Spec => []NewestKeepsEntry
BY MapInvariant, PTL DEF MapInv

----------------------------------------------------------------------------
\* Between the update and the insert of an undisturbed registration no row of
\* its table is CONNECTED, and a connection that was not accepted has no row.
RowInv ==
  /\ TypeOK
  /\ \A c \in Conns : sock[c] \in {"new", "accepted"} => regPc[c] = "idle"
  /\ \A c \in Conns : regPc[c] = "idle" => row[c] = "none"
  /\ \A c \in Conns : regPc[c] = "insert" /\ clean[c] => ConnectedRows(c) = {}

\* The rows of connections, as the gateway's steps keep them.
LEMMA RowInvariant == Spec => []RowInv
<1> USE GatewayAssumption DEF ConnectedRows, SameTable, Peers
<1>1. Init => RowInv
  <2>1. Init => TypeOK
    BY DEF Init, NoCall, TypeOK, SockStates
  <2> QED
    BY <2>1 DEF Init, RowInv
<1>2. RowInv /\ TypeOK' /\ [Next]_vars => RowInv'
  <2> SUFFICES ASSUME RowInv, TypeOK', [Next]_vars PROVE RowInv'
    OBVIOUS
  <2> USE DEF RowInv
  <2>0. TypeOK /\ TypeOK'
    OBVIOUS
  <2>1. ASSUME NEW c \in Conns, ConnNext(c) PROVE RowInv'
    <3> USE DEF TypeOK
    <3>1. ASSUME NEW s \in {"enabled", "disabled", "absent"}, Auth(c, s) PROVE RowInv'
      BY <2>0, <3>1 DEF Auth
    <3>2. CASE ClientConnected(c)
      BY <2>0, <3>2 DEF ClientConnected
    <3>3. CASE RegisterUpdate(c)
      BY <2>0, <3>3 DEF RegisterUpdate, MarkDisconnected
    <3>4. CASE RegisterInsert(c)
      <4>1. ASSUME NEW d \in Conns, regPc'[d] = "insert", clean'[d]
            PROVE  ConnectedRows(d)' = {}
        <5>1. d # c /\ regPc[d] = "insert" /\ clean[d] /\ d \notin SameTable(c)
          <6>1. regPc' = [regPc EXCEPT ![c] = "done"]
            BY <3>4 DEF RegisterInsert
          <6>2. d # c /\ regPc[d] = "insert"
            BY <2>0, <4>1, <6>1
          <6>3. clean' = [e \in Conns |-> clean[e] /\ (e = c \/ e \notin SameTable(c))]
            BY <3>4 DEF RegisterInsert
          <6>4. clean'[d] = (clean[d] /\ (d = c \/ d \notin SameTable(c)))
            BY <6>3, Zenon
          <6> QED
            BY <4>1, <6>2, <6>4, Zenon
        <5>2. c \notin SameTable(d) /\ isCgx' = isCgx
          BY <2>0, <3>4, <5>1 DEF RegisterInsert
        <5> QED
          BY <2>0, <3>4, <5>1, <5>2 DEF RegisterInsert
      <4> QED
        <5>1. TypeOK' /\ sock' = sock /\ row' = [row EXCEPT ![c] = "CONNECTED"]
              /\ regPc' = [regPc EXCEPT ![c] = "done"] /\ regPc[c] = "insert"
          BY <2>0, <3>4 DEF RegisterInsert
        <5>2. \A d \in Conns : sock'[d] \in {"new", "accepted"} => regPc'[d] = "idle"
          BY <5>1
        <5>3. \A d \in Conns : regPc'[d] = "idle" => row'[d] = "none"
          BY <5>1
        <5> QED
          BY <4>1, <5>1, <5>2, <5>3
    <3>5. CASE RegisterFails(c)
      BY <2>0, <3>5 DEF RegisterFails
    <3>6. CASE ChargerSends(c) \/ Message(c) \/ ConnectionLost(c) \/ Disconnect(c)
      BY <2>0, <3>6 DEF ChargerSends, Message, ConnectionLost, Disconnect
    <3>7. CASE DisconnectUpdate(c)
      BY <2>0, <3>7 DEF DisconnectUpdate, MarkDisconnected
    <3> QED
      BY <2>1, <3>1, <3>2, <3>3, <3>4, <3>5, <3>6, <3>7 DEF ConnNext
  <2>2. ASSUME NEW i \in Identities, DisconnectClientApi(i) PROVE RowInv'
    BY <2>0, <2>2 DEF DisconnectClientApi
  <2>3. CASE Restart
    BY <2>0, <2>3 DEF Restart, TypeOK
  <2>4. ASSUME NEW k \in Calls, CallNext(k) PROVE RowInv'
    BY <2>0, <2>4 DEF CallNext, TriggerRemoteEvent, CallAnswered, CallFails
  <2>5. CASE UNCHANGED vars
    BY <2>0, <2>5 DEF vars
  <2> QED
    BY <2>1, <2>2, <2>3, <2>4, <2>5 DEF Next
<1> QED
  BY <1>1, <1>2, TypeCorrect, PTL DEF Spec

\* An undisturbed registration leaves exactly its own row CONNECTED.
THEOREM RegistrationHeals == Spec => RegistrationHealsRows
<1>1. RowInv /\ [Next]_vars =>
        [\A c \in Conns : RegisterInsert(c) /\ clean[c] => ConnectedRows(c)' = {c}]_vars
  <2> SUFFICES ASSUME RowInv, NEW c \in Conns, RegisterInsert(c), clean[c]
               PROVE  ConnectedRows(c)' = {c}
    OBVIOUS
  <2> QED
    BY GatewayAssumption DEF RowInv, TypeOK, RegisterInsert, ConnectedRows, SameTable, Peers
<1> QED
  BY <1>1, RowInvariant, PTL DEF Spec, RegistrationHealsRows

----------------------------------------------------------------------------
(* The delivery of a charger's events *)

\* The posts of an event the gateway has paid for: one per failure, and one
\* more once the last one was sent and did not fail.
Paid(e) == IF state[e] \in {"idle", "ready"} \/ attempt[e] = MaxRetries
           THEN attempt[e] ELSE attempt[e] + 1

Budget(e) ==
  /\ state[e] # "answered" => attempt[e] < MaxRetries
  /\ handled[e] + strays[e] + (IF post[e] = "sent" THEN 1 ELSE 0) <= Paid(e)
  /\ post[e] # "none" => state[e] = "posted"
  /\ post[e] = "ok" => handled[e] > 0

\* An event is sent once every earlier one is settled or given up.
Order(e) ==
  /\ (answer[e] # "none") <=> (state[e] = "answered")
  /\ answer[e] = "core" => handled[e] > 0
  /\ state[e] = "idle" => handled[e] = 0 /\ strays[e] = 0 /\ post[e] = "none"
  /\ strays[e] > 0 => broken[e]
  /\ overtaken[e] => broken[e] \/ gaveUp[e]
  /\ state[e] # "idle" =>
       \A d \in Events : d < e => state[d] \in {"answered", "dropped"} \/ gaveUp[d]

DeliveryInv ==
  /\ DeliveryTypeOK
  /\ \A e \in Events : Budget(e)
  /\ \A e \in Events : Order(e)

\* The inductive invariant of the delivery.
THEOREM DeliveryInvariant == DeliverySpec => []DeliveryInv
<1> USE DeliveryAssumption
<1>1. DeliveryInit => DeliveryInv
  BY DEF DeliveryInit, DeliveryInv, DeliveryTypeOK, Budget, Paid, Order
<1>2. DeliveryInv /\ [DeliveryNext]_deliveryVars => DeliveryInv'
  <2> SUFFICES ASSUME DeliveryInv, [DeliveryNext]_deliveryVars PROVE DeliveryInv'
    OBVIOUS
  <2>1. ASSUME NEW e \in Events, ChargerCalls(e) PROVE DeliveryInv'
    BY <2>1 DEF ChargerCalls, DeliveryInv, DeliveryTypeOK, Budget, Paid, Order
  <2>2. ASSUME NEW e \in Events, ChargerGivesUp(e) PROVE DeliveryInv'
    BY <2>2 DEF ChargerGivesUp, DeliveryInv, DeliveryTypeOK, Budget, Paid, Order
  <2>3. ASSUME NEW e \in Events, Post(e) PROVE DeliveryInv'
    BY <2>3 DEF Post, DeliveryInv, DeliveryTypeOK, Budget, Paid, Order
  <2>4. ASSUME NEW e \in Events, NEW reply \in {"ok", "4xx"}, CoreReplies(e, reply)
        PROVE  DeliveryInv'
    BY <2>4 DEF CoreReplies, Handled, DeliveryInv, DeliveryTypeOK, Budget, Paid, Order
  <2>5. ASSUME NEW e \in Events, CoreHandlesStray(e) PROVE DeliveryInv'
    BY <2>5 DEF CoreHandlesStray, Handled, DeliveryInv, DeliveryTypeOK, Budget, Paid, Order
  <2>6. ASSUME NEW e \in Events, GotResponse(e) \/ GotClientError(e) PROVE DeliveryInv'
    BY <2>6 DEF GotResponse, GotClientError, Answer, DefaultAnswer, DeliveryInv, DeliveryTypeOK,
       Budget, Paid, Order
  <2>7. ASSUME NEW e \in Events, NEW stray \in BOOLEAN, PostFails(e, stray) PROVE DeliveryInv'
    <3>1. CASE attempt[e] + 1 >= MaxRetries
      BY <2>7, <3>1 DEF PostFails, AfterFailure, Exhausted, Answer, DefaultAnswer,
         DeliveryInv, DeliveryTypeOK, Budget, Paid, Order
    <3>2. CASE attempt[e] + 1 < MaxRetries
      BY <2>7, <3>2 DEF PostFails, AfterFailure, Exhausted, Answer, DefaultAnswer,
         DeliveryInv, DeliveryTypeOK, Budget, Paid, Order
    <3> QED
      BY <3>1, <3>2 DEF DeliveryInv, DeliveryTypeOK
  <2>8. CASE GatewayCrashes
    <3> USE <2>8 DEF GatewayCrashes, DeliveryInv
    <3>1. DeliveryTypeOK'
      BY DEF DeliveryTypeOK
    <3>2. ASSUME NEW e \in Events PROVE Budget(e)'
      BY DEF DeliveryTypeOK, Budget, Paid
    <3>3. ASSUME NEW e \in Events PROVE Order(e)'
      BY DEF DeliveryTypeOK, Order, Budget
    <3> QED
      BY <3>1, <3>2, <3>3
  <2>9. CASE UNCHANGED deliveryVars
    BY <2>9 DEF deliveryVars, DeliveryInv, DeliveryTypeOK, Budget, Paid, Order
  <2> QED
    BY <2>1, <2>2, <2>3, <2>4, <2>5, <2>6, <2>7, <2>8, <2>9 DEF DeliveryNext
<1> QED
  BY <1>1, <1>2, PTL DEF DeliverySpec

\* Every variable of the delivery keeps its type.
THEOREM DeliveryTyped == DeliverySpec => []DeliveryTypeOK
BY DeliveryInvariant, PTL DEF DeliveryInv

\* The core carries an event out at most MaxRetries times.
THEOREM Bounded == DeliverySpec => []ExecutionsBounded
<1>1. DeliveryInv => ExecutionsBounded
  BY DeliveryAssumption DEF DeliveryInv, DeliveryTypeOK, Budget, Paid, ExecutionsBounded
<1> QED
  BY <1>1, DeliveryInvariant, PTL

\* The retries alone never reorder a charger's events.
THEOREM InOrder == DeliverySpec => []OrderKept
<1>1. DeliveryInv => OrderKept
  BY DEF DeliveryInv, Order, OrderKept
<1> QED
  BY <1>1, DeliveryInvariant, PTL

----------------------------------------------------------------------------
\* The core's effects and the charger's answers are those of EventPromise: the
\* initial states map to initial states, every step to a step or a stutter.
THEOREM KeepsSafePromise == DeliverySpec => Promise!SafeSpec
<1> USE DeliveryAssumption
<1>1. DeliveryInit => Promise!Init
  BY DEF DeliveryInit, Promise!Init, Promised
<1>2. DeliveryInv /\ [DeliveryNext]_deliveryVars => [Promise!Next]_(Promise!vars)
  <2> SUFFICES ASSUME DeliveryInv, [DeliveryNext]_deliveryVars PROVE [Promise!Next]_(Promise!vars)
    OBVIOUS
  <2> USE DEF Promised
  <2>1. ASSUME NEW e \in Events, ChargerCalls(e) PROVE Promise!Send(e)
    BY <2>1 DEF ChargerCalls, Promise!Send, DeliveryInv, DeliveryTypeOK
  <2>2. ASSUME NEW e \in Events, ChargerGivesUp(e) \/ Post(e) PROVE UNCHANGED Promise!vars
    BY <2>2 DEF ChargerGivesUp, Post, Promise!vars, DeliveryInv, DeliveryTypeOK
  <2>3. ASSUME NEW e \in Events, NEW reply \in {"ok", "4xx"}, CoreReplies(e, reply)
        PROVE  Promise!Effect(e)
    BY <2>3 DEF CoreReplies, Handled, Promise!Effect, DeliveryInv, DeliveryTypeOK, Budget, Paid
  <2>4. ASSUME NEW e \in Events, CoreHandlesStray(e) PROVE Promise!Effect(e)
    <3>1. Promised' = Promised
      BY <2>4 DEF CoreHandlesStray
    <3>2. state[e] # "idle"
      BY <2>4 DEF CoreHandlesStray, DeliveryInv, DeliveryTypeOK, Order
    <3>3. handled[e] < MaxRetries /\ handled' = [handled EXCEPT ![e] = @ + 1]
      BY <2>4 DEF CoreHandlesStray, Handled, DeliveryInv, DeliveryTypeOK, Budget, Paid
    <3>4. Promised[e] # "idle"
      BY <3>2
    <3> QED
      BY <3>1, <3>3, <3>4 DEF Promise!Effect
  <2>5. ASSUME NEW e \in Events, GotResponse(e) PROVE Promise!Confirm(e)
    <3>1. state[e] = "posted" /\ handled[e] > 0 /\ UNCHANGED handled
      BY <2>5 DEF GotResponse, DeliveryInv, DeliveryTypeOK, Budget
    <3>2. Promised' = [Promised EXCEPT ![e] = "confirmed"]
      BY <2>5 DEF GotResponse, Answer, DeliveryInv, DeliveryTypeOK
    <3> QED
      BY <3>1, <3>2 DEF Promise!Confirm
  <2>6. ASSUME NEW e \in Events, GotClientError(e) PROVE Promise!Refuse(e)
    BY <2>6 DEF GotClientError, Answer, DefaultAnswer, Promise!Refuse, DeliveryInv, DeliveryTypeOK
  <2>7. ASSUME NEW e \in Events, NEW stray \in BOOLEAN, PostFails(e, stray)
        PROVE  Promise!Refuse(e) \/ UNCHANGED Promise!vars
    <3>1. CASE Exhausted(attempt[e] + 1)
      <4>1. state[e] = "posted" /\ UNCHANGED handled
        BY <2>7 DEF PostFails
      <4>2. Promised' = [Promised EXCEPT ![e] = "refused"]
        BY <2>7, <3>1 DEF PostFails, AfterFailure, Answer, DefaultAnswer, DeliveryInv, DeliveryTypeOK
      <4> QED
        BY <4>1, <4>2 DEF Promise!Refuse
    <3>2. CASE ~Exhausted(attempt[e] + 1)
      BY <2>7, <3>2 DEF PostFails, AfterFailure, Promise!vars, DeliveryInv, DeliveryTypeOK
    <3> QED
      BY <3>1, <3>2
  <2>8. CASE GatewayCrashes
    <3>1. UNCHANGED handled
      BY <2>8 DEF GatewayCrashes
    <3>2. ASSUME NEW e \in Events
          PROVE  Promised'[e] = IF Promised[e] = "pending" THEN "dropped" ELSE Promised[e]
      <4>1. answer' = answer /\ state'[e] = IF state[e] \in {"ready", "posted"}
                                            THEN "dropped" ELSE state[e]
        BY <2>8 DEF GatewayCrashes
      <4> QED
        BY <4>1 DEF DeliveryInv, DeliveryTypeOK
    <3>3. Promised' = [e \in Events |-> IF Promised[e] = "pending" THEN "dropped"
                                        ELSE Promised[e]]
      <4>1. Promised' = [e \in Events |-> Promised'[e]]
        OBVIOUS
      <4> HIDE DEF Promised
      <4> QED
        BY <3>2, <4>1, Zenon
    <3> QED
      BY <3>1, <3>3 DEF Promise!Crash, Promise!Next
  <2>9. CASE UNCHANGED deliveryVars
    BY <2>9 DEF deliveryVars, Promise!vars
  <2> QED
    BY <2>1, <2>2, <2>3, <2>4, <2>5, <2>6, <2>7, <2>8, <2>9 DEF DeliveryNext, Promise!Next
<1> QED
  BY <1>1, <1>2, DeliveryInvariant, PTL DEF DeliverySpec, Promise!SafeSpec
=============================================================================
