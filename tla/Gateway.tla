------------------------------ MODULE Gateway ------------------------------
(***************************************************************************)
(* The OCPP gateway's registry of live charger connections                 *)
(* (apps/ocpp/modules/ocpp/ocpp-server-2.js): the map from a charger's     *)
(* identity to the client object that commands are sent to, the rows that  *)
(* log connections, and the commands the core sends through the gateway.   *)
(*                                                                         *)
(* Node runs one callback at a time, so every stretch of code between two  *)
(* awaits is one action; a handler that awaits the database is several.    *)
(***************************************************************************)
EXTENDS Integers, FiniteSets

CONSTANTS
  Identities,      \* charger identities
  Conns,           \* client objects: one per accepted WebSocket, never reused
  IdentityOf,      \* the identity in a connection's handshake
  Calls,           \* commands the core asks the gateway to send
  AllowExternal,   \* ALLOW_EXTERNAL_OCPP
  MaxInbox,        \* bound: messages of a connection the gateway has not read
  MaxApiDeletes,   \* bound: uses of the disconnect-client endpoint
  MaxRestarts,     \* bound: restarts of the gateway process
  NoConn           \* the map has no entry

ASSUME GatewayAssumption ==
  /\ IdentityOf \in [Conns -> Identities]
  /\ AllowExternal \in BOOLEAN
  /\ MaxInbox \in Nat
  /\ MaxApiDeletes \in Nat
  /\ MaxRestarts \in Nat
  /\ NoConn \notin Conns

VARIABLES
  sock,        \* the socket behind each connection
  isCgx,       \* handshake.isCgx: the charger was in the database
  inbox,       \* messages sent by the charger, not yet read by the gateway
  connected,   \* connectedClients
  regPc,       \* where the "client" handler is
  discPc,      \* where the "disconnect" handler is
  row,         \* the row that logs each connection
  clean,       \* history: no other row was inserted since c's update
  newest,      \* history: the last connection the gateway accepted
  late,        \* history: a message of an older connection than that was read
  call,        \* remote commands in progress
  apiDeletes,  \* uses of disconnect-client so far
  restarts     \* restarts so far

sockVars == <<sock, isCgx, inbox>>
logVars == <<regPc, discPc, row, clean>>
mapHist == <<newest, late>>
vars == <<sockVars, connected, logVars, mapHist, call, apiDeletes, restarts>>

SockStates == {"new", "accepted", "open", "dead", "closed", "rejected"}

\* The client objects of which the gateway still receives events.
Attached(c) == sock[c] \in {"open", "dead"}
Peers(c) == {d \in Conns : IdentityOf[d] = IdentityOf[c]}
\* The rows an update WHERE identity AND status = CONNECTED reaches: those of
\* the identity in the client's own table (MySQL for known chargers, Mongo for
\* external ones).
SameTable(c) == {d \in Peers(c) : isCgx[d] = isCgx[c]}
ConnectedRows(c) == {d \in SameTable(c) : row[d] = "CONNECTED"}
MarkWrongStatus(c) ==
  [d \in Conns |-> IF d \in ConnectedRows(c) THEN "FINISHED" ELSE row[d]]
MarkOwnDisconnected(c) == [row EXCEPT ![c] = "DISCONNECTED"]
MarkDisconnected(c) ==
  [d \in Conns |-> IF d \in ConnectedRows(c) THEN "DISCONNECTED" ELSE row[d]]

\* The map once a message of c was read.
MapUntouched(c) == connected
MapWith(c) == [connected EXCEPT ![IdentityOf[c]] = c]

\* The "disconnect" handler's test that the client is still the mapped one.
AlwaysCurrent(c) == TRUE
IsCurrent(c) == connected[IdentityOf[c]] = c

NoCall == [status |-> "idle", conn |-> NoConn]

Init ==
  /\ sock = [c \in Conns |-> "new"]
  /\ isCgx = [c \in Conns |-> FALSE]
  /\ inbox = [c \in Conns |-> 0]
  /\ connected = [i \in Identities |-> NoConn]
  /\ regPc = [c \in Conns |-> "idle"]
  /\ discPc = [c \in Conns |-> "idle"]
  /\ row = [c \in Conns |-> "none"]
  /\ clean = [c \in Conns |-> FALSE]
  /\ newest = [i \in Identities |-> NoConn]
  /\ late = [i \in Identities |-> FALSE]
  /\ call = [k \in Calls |-> NoCall]
  /\ apiDeletes = 0
  /\ restarts = 0

----------------------------------------------------------------------------
(* Connections                                                             *)

\* rpcServer.auth, for what the charger table holds when the handshake comes.
\* For a disabled charger the code calls reject and then, for want of a return,
\* accept; the first answer to a handshake is the one that counts.
Auth(c, charger) ==
  /\ sock[c] = "new"
  /\ sock' = [sock EXCEPT ![c] = IF \/ charger = "enabled"
                                    \/ charger = "absent" /\ AllowExternal
                                 THEN "accepted" ELSE "rejected"]
  /\ isCgx' = [isCgx EXCEPT ![c] = charger # "absent"]
  /\ UNCHANGED <<mapHist, inbox, connected, logVars, call, apiDeletes, restarts>>

\* rpcServer.on("client"), up to the first await.
ClientConnected(c) ==
  /\ sock[c] = "accepted"
  /\ sock' = [sock EXCEPT ![c] = "open"]
  /\ connected' = [connected EXCEPT ![IdentityOf[c]] = c]
  /\ newest' = [newest EXCEPT ![IdentityOf[c]] = c]
  /\ regPc' = [regPc EXCEPT ![c] = "update"]
  /\ UNCHANGED <<isCgx, inbox, discPc, row, clean, late, call,
                 apiDeletes, restarts>>

\* The "client" handler's update of the identity's older rows.
RegisterUpdate(c) ==
  /\ regPc[c] = "update"
  /\ row' = MarkDisconnected(c)
  /\ clean' = [clean EXCEPT ![c] = TRUE]
  /\ regPc' = [regPc EXCEPT ![c] = "insert"]
  /\ UNCHANGED <<mapHist, sockVars, connected, discPc, call, apiDeletes, restarts>>

\* The "client" handler's insert of the connection's own row.
RegisterInsert(c) ==
  /\ regPc[c] = "insert"
  /\ row' = [row EXCEPT ![c] = "CONNECTED"]
  /\ clean' = [d \in Conns |-> clean[d] /\ (d = c \/ d \notin SameTable(c))]
  /\ regPc' = [regPc EXCEPT ![c] = "done"]
  /\ UNCHANGED <<mapHist, sockVars, connected, discPc, call, apiDeletes, restarts>>

\* A statement of the "client" handler fails: the catch drops the rest.
RegisterFails(c) ==
  /\ regPc[c] \in {"update", "insert"}
  /\ regPc' = [regPc EXCEPT ![c] = "done"]
  /\ UNCHANGED <<mapHist, sockVars, connected, discPc, row, clean, call,
                 apiDeletes, restarts>>

\* The charger sends a message on a connection it still uses.
ChargerSends(c) ==
  /\ sock[c] = "open"
  /\ inbox[c] < MaxInbox
  /\ inbox' = [inbox EXCEPT ![c] = @ + 1]
  /\ UNCHANGED <<mapHist, sock, isCgx, connected, logVars, call, apiDeletes,
                 restarts>>

\* client.handle: every message makes its connection the current one, even a
\* message of an old connection that is read after a newer one was accepted.
Message(c) ==
  /\ Attached(c)
  /\ inbox[c] > 0
  /\ inbox' = [inbox EXCEPT ![c] = @ - 1]
  /\ connected' = MapWith(c)
  /\ late' = [late EXCEPT ![IdentityOf[c]] = @ \/ c # newest[IdentityOf[c]]]
  /\ UNCHANGED <<sock, isCgx, logVars, newest, call, apiDeletes, restarts>>

\* The network or the charger drops the connection; the gateway learns later.
ConnectionLost(c) ==
  /\ sock[c] = "open"
  /\ sock' = [sock EXCEPT ![c] = "dead"]
  /\ UNCHANGED <<mapHist, isCgx, inbox, connected, logVars, call, apiDeletes,
                 restarts>>

\* client.on("disconnect"), up to its await.
Disconnect(c) ==
  /\ sock[c] = "dead"
  /\ sock' = [sock EXCEPT ![c] = "closed"]
  /\ inbox' = [inbox EXCEPT ![c] = 0]
  /\ IF IsCurrent(c)
     THEN /\ connected' = [connected EXCEPT ![IdentityOf[c]] = NoConn]
          /\ discPc' = [discPc EXCEPT ![c] = "update"]
     ELSE UNCHANGED <<connected, discPc>>
  /\ UNCHANGED <<mapHist, isCgx, regPc, row, clean, call, apiDeletes, restarts>>

\* The "disconnect" handler's update of the identity's rows.
DisconnectUpdate(c) ==
  /\ discPc[c] = "update"
  /\ row' = MarkDisconnected(c)
  /\ discPc' = [discPc EXCEPT ![c] = "done"]
  /\ UNCHANGED <<mapHist, sockVars, connected, regPc, clean, call, apiDeletes,
                 restarts>>

\* POST /:client_id/disconnect-client only forgets the entry; the socket and
\* its handlers stay.
DisconnectClientApi(i) ==
  /\ apiDeletes < MaxApiDeletes
  /\ apiDeletes' = apiDeletes + 1
  /\ connected' = [connected EXCEPT ![i] = NoConn]
  /\ UNCHANGED <<mapHist, sockVars, logVars, call, restarts>>

\* The gateway process restarts: the map, the sockets and the handlers in
\* progress are lost, the rows are not.
Restart ==
  /\ restarts < MaxRestarts
  /\ restarts' = restarts + 1
  /\ connected' = [i \in Identities |-> NoConn]
  /\ sock' = [c \in Conns |-> IF sock[c] \in {"accepted", "open", "dead"}
                              THEN "closed" ELSE sock[c]]
  /\ inbox' = [c \in Conns |-> 0]
  /\ regPc' = [c \in Conns |-> IF regPc[c] = "idle" THEN "idle" ELSE "done"]
  /\ discPc' = [c \in Conns |-> IF discPc[c] = "idle" THEN "idle" ELSE "done"]
  /\ call' = [k \in Calls |-> IF call[k].status = "calling"
                              THEN [call[k] EXCEPT !.status = "failed"]
                              ELSE call[k]]
  /\ UNCHANGED <<mapHist, isCgx, row, clean, apiDeletes>>

----------------------------------------------------------------------------
(* Commands to a charger: triggerRemoteEvent                               *)

\* The client is looked up; without one the answer is "not connected".
TriggerRemoteEvent(k, i) ==
  /\ call[k].status = "idle"
  /\ call' = [call EXCEPT ![k] =
                [status |-> IF connected[i] = NoConn THEN "failed" ELSE "calling",
                 conn |-> connected[i]]]
  /\ UNCHANGED <<mapHist, sockVars, connected, logVars, apiDeletes, restarts>>

\* The charger's answer resolves the awaited call: code 200.
CallAnswered(k) ==
  /\ call[k].status = "calling"
  /\ Attached(call[k].conn)
  /\ call' = [call EXCEPT ![k].status = "ok"]
  /\ UNCHANGED <<mapHist, sockVars, connected, logVars, apiDeletes, restarts>>

\* The call is rejected (the socket closed, a call error, the library's
\* timeout), or storing its log fails: code 400, whatever the charger did.
CallFailsOnlyWhileAttached(k) ==
  /\ call[k].status = "calling"
  /\ Attached(call[k].conn)
  /\ call' = [call EXCEPT ![k].status = "failed"]
  /\ UNCHANGED <<mapHist, sockVars, connected, logVars, apiDeletes, restarts>>

CallFails(k) ==
  /\ call[k].status = "calling"
  /\ call' = [call EXCEPT ![k].status = "failed"]
  /\ UNCHANGED <<mapHist, sockVars, connected, logVars, apiDeletes, restarts>>

----------------------------------------------------------------------------
ConnNext(c) ==
  \/ \E charger \in {"enabled", "disabled", "absent"} : Auth(c, charger)
  \/ ClientConnected(c) \/ RegisterUpdate(c) \/ RegisterInsert(c)
  \/ RegisterFails(c) \/ ChargerSends(c) \/ Message(c) \/ ConnectionLost(c)
  \/ Disconnect(c) \/ DisconnectUpdate(c)

CallNext(k) ==
  \/ \E i \in Identities : TriggerRemoteEvent(k, i)
  \/ CallAnswered(k) \/ CallFails(k)

Next ==
  \/ \E c \in Conns : ConnNext(c)
  \/ \E i \in Identities : DisconnectClientApi(i)
  \/ Restart
  \/ \E k \in Calls : CallNext(k)

\* Callbacks that are ready run; a charger that stays connected keeps sending
\* heartbeats; a dropped socket is noticed; an awaited call settles, because
\* the library rejects it when its timeout passes.
Fairness ==
  /\ \A c \in Conns :
       /\ WF_vars(ClientConnected(c))
       /\ WF_vars(RegisterUpdate(c) \/ RegisterInsert(c) \/ RegisterFails(c))
       /\ WF_vars(ChargerSends(c))
       /\ WF_vars(Message(c))
       /\ WF_vars(Disconnect(c))
       /\ WF_vars(DisconnectUpdate(c))
  /\ \A k \in Calls : WF_vars(CallAnswered(k) \/ CallFails(k))

Spec == Init /\ [][Next]_vars /\ Fairness

----------------------------------------------------------------------------
(* Properties                                                              *)

TypeOK ==
  /\ sock \in [Conns -> SockStates]
  /\ isCgx \in [Conns -> BOOLEAN]
  /\ inbox \in [Conns -> 0..MaxInbox]
  /\ connected \in [Identities -> Conns \union {NoConn}]
  /\ regPc \in [Conns -> {"idle", "update", "insert", "done"}]
  /\ discPc \in [Conns -> {"idle", "update", "done"}]
  /\ row \in [Conns -> {"none", "CONNECTED", "DISCONNECTED"}]
  /\ clean \in [Conns -> BOOLEAN]
  /\ newest \in [Identities -> Conns \union {NoConn}]
  /\ late \in [Identities -> BOOLEAN]
  /\ call \in [Calls -> [status : {"idle", "calling", "ok", "failed"},
                         conn : Conns \union {NoConn}]]
  /\ apiDeletes \in 0..MaxApiDeletes
  /\ restarts \in 0..MaxRestarts

\* The map never keeps a client object whose disconnect was handled, nor one
\* of another identity: a command looked up in it goes to a socket of that
\* very charger that the gateway still listens to, whatever the order in which
\* old and new connections of the charger send, drop and are noticed.
MapEntryIsAttached ==
  \A i \in Identities :
    connected[i] # NoConn =>
      /\ Attached(connected[i])
      /\ IdentityOf[connected[i]] = i

\* A registration that no other registration of the identity interleaved with
\* leaves exactly its own row CONNECTED in its table, whatever stale rows
\* restarts, ignored disconnects and failed statements had left there.
RegistrationHealsRows ==
  [][\A c \in Conns : RegisterInsert(c) /\ clean[c] => ConnectedRows(c)' = {c}]_vars

\* A charger that reconnects stays reachable on its newest connection however
\* late the drop of its older ones is noticed ("Only delete if this is still
\* the current client"): as long as the gateway listens to the newest
\* connection, nothing but a late message of an older one, or the
\* disconnect-client endpoint, takes the entry from it.
NewestKeepsEntry ==
  \A i \in Identities :
    newest[i] # NoConn /\ Attached(newest[i]) /\ ~late[i] /\ apiDeletes = 0
      => connected[i] = newest[i]

\* The charger's only remaining connection.
OnlyOpen(c) ==
  sock[c] = "open" /\ \A d \in Peers(c) \ {c} : sock[d] \notin {"accepted", "open", "dead"}

\* A charger that stays connected becomes, and stays, the target of the
\* commands for its identity, even after a late message of an old connection
\* or the disconnect-client endpoint took its entry away.
LiveChargerIsReachable ==
  \A c \in Conns : <>[]OnlyOpen(c) => <>[](connected[IdentityOf[c]] = c)

\* A command is always answered.
CallsAreAnswered ==
  \A k \in Calls : call[k].status = "calling" ~> call[k].status \in {"ok", "failed"}
=============================================================================
