---------------------------- MODULE ChargerStatus ----------------------------
(***************************************************************************)
(* Whether one charger is open for business: the status, chargingStatus    *)
(* and lastHeartbeat of its row in `charger`.                              *)
(*                                                                         *)
(* Everyone writes that row without a lock: the handlers of the charger's  *)
(* events (ocpp-handler.service.js), the availability monitor, the firmware*)
(* rollout, the activation and the dashboard.  Each of them reads the row, *)
(* awaits, and then updates it by id.                                      *)
(***************************************************************************)
EXTENDS Naturals, FiniteSets

CONSTANTS
  Events,        \* executions of the charger's events that may be in progress at once
  Reported,      \* charging statuses a StatusNotification may carry
  Settable,      \* statuses the dashboard sets directly
  Parties,       \* which of the others take part
  MaxBusy,       \* bound: how many of them are at work at once, beside the monitor
  Started        \* is the charger in business when the behaviour begins?

Statuses == {"generated", "registered", "activated", "available", "busy",
             "offline", "disabled", "in-operative"}
Faults == {"SuspendedEVSE", "SuspendedEV", "Faulted"}
InUse == {"Charging", "Preparing", "Finishing"}
ChargingStatuses == {"Available", "Reserved", "Unavailable"} \cup Faults \cup InUse
Others == {"monitor", "activator", "rollout", "device", "operator"}
Actors == Events \cup Others

ASSUME ChargerAssumption ==
  /\ Events \cap Others = {}
  /\ Reported \subseteq ChargingStatuses
  /\ Settable \subseteq Statuses
  /\ Parties \subseteq Others
  /\ MaxBusy \in Nat
  /\ Started \in BOOLEAN

VARIABLES
  status,
  charging,      \* chargingStatus, "none" while it is null
  heard,         \* lastHeartbeat: "never" (null), "lately" or "long ago" (300 s)
  rollout,       \* RolloutDeviceStates of the charger: "none", "synced", or what it reported
  pc,            \* the await each actor is at
  plan,          \* the charging status, or availability, it is going to write
  raced          \* history: the row changed since the actor read it

row == <<status, charging, heard>>
vars == <<row, rollout, pc, plan, raced>>

Init ==
  /\ status = IF Started THEN "available" ELSE "generated"
  /\ charging = IF Started THEN "Available" ELSE "none"
  /\ heard = IF Started THEN "lately" ELSE "never"
  /\ rollout = "none"
  /\ pc = [a \in Actors |-> "idle"]
  /\ plan = [a \in Actors |-> "none"]
  /\ raced = [a \in Actors |-> FALSE]

Busy == {a \in Actors \ {"monitor"} : pc[a] # "idle"}
Begin(a, label, p) ==
  /\ a \in Events \cup Parties /\ pc[a] = "idle"
  /\ a = "monitor" \/ Cardinality(Busy) < MaxBusy
  /\ pc' = [pc EXCEPT ![a] = label]
  /\ plan' = [plan EXCEPT ![a] = p]
Goto(a, label) ==
  /\ pc' = [pc EXCEPT ![a] = label]
  /\ plan' = [plan EXCEPT ![a] = IF label \in {"idle", "beat"} THEN "none" ELSE @]
At(a, label) == pc[a] = label

------------------------------------------------------------------------------
(* The charger's events *)

\* Authorize and StatusNotification are for any charger that is not in-operative,
\* StopTransaction not for a disabled one either, a payment's DataTransfer for all.
ServesAll(e) == TRUE
Serves(e) ==
  CASE e = "paymentStatus" -> TRUE
    [] e = "StopTransaction" -> status \notin {"in-operative", "disabled"}
    [] OTHER -> status # "in-operative"

Carries == {<<"Authorize", "Preparing">>, <<"StopTransaction", "Finishing">>,
            <<"paymentStatus", "Available">>} \cup ({"StatusNotification"} \X Reported)

Reads(h, e, s) ==
  /\ Serves(e)
  /\ Begin(h, IF e = "paymentStatus" THEN "release" ELSE "modify", s)
  /\ UNCHANGED <<row, rollout>>

\* modifyChargerOnChargingStatusUpdate
StatusFor(s) ==
  CASE s \in {"Charging", "Preparing"} -> "busy"
    [] s \in Faults -> "offline"
    [] s \in {"Finishing", "Available"} -> "available"
    [] OTHER -> status
Modify(h) ==
  /\ pc[h] \in {"modify", "release"}
  /\ charging' = plan[h]
  /\ status' = StatusFor(plan[h])
  /\ heard' = IF plan[h] \in {"Finishing", "Available"} THEN "lately" ELSE heard
  /\ Goto(h, IF plan[h] = "Available" THEN "reread" ELSE "idle")
  /\ UNCHANGED <<rollout>>

\* A charger that became free while its rollout is waiting is taken out of operation.
InBusiness == status \notin {"generated", "registered", "disabled"}
Reread(h) ==
  /\ h \in Events /\ At(h, "reread")
  /\ Goto(h, IF InBusiness THEN "findRollout" ELSE "idle")
  /\ UNCHANGED <<row, rollout>>
FindRollout(h) ==
  /\ At(h, "findRollout")
  /\ pc' = [pc EXCEPT ![h] = IF rollout = "synced" THEN "check" ELSE "idle"]
  /\ plan' = [plan EXCEPT ![h] = IF rollout = "synced" THEN "Inoperative" ELSE "none"]
  /\ UNCHANGED <<row, rollout>>

\* BootNotification
BootReads(h) ==
  /\ status # "in-operative" /\ Begin(h, "boot", "none")
  /\ UNCHANGED <<row, rollout>>
Boot(h) ==
  /\ At(h, "boot") /\ Goto(h, "idle")
  /\ status' = "available"
  /\ UNCHANGED <<charging, heard, rollout>>

\* Heartbeat brings an activated or offline charger into business, unless it went
\* offline with a fault, and then notes the time; MeterValues only notes the time.
RevivesActivated == status = "activated"
RevivesAny == status \in {"activated", "offline"}
Revives == status \in {"activated", "offline"} /\ charging \notin Faults
HeartbeatReads(h) ==
  /\ IF Revives
     THEN Begin(h, "revive", IF charging = "Unavailable" THEN "Available" ELSE "none")
     ELSE Begin(h, "beat", "none")
  /\ UNCHANGED <<row, rollout>>
Revive(h) ==
  /\ At(h, "revive") /\ Goto(h, "beat")
  /\ status' = "available"
  /\ charging' = IF plan[h] = "Available" THEN "Available" ELSE charging
  /\ UNCHANGED <<heard, rollout>>
Beat(h) ==
  /\ At(h, "beat") /\ Goto(h, "idle")
  /\ heard' = "lately"
  /\ UNCHANGED <<status, charging, rollout>>
MeterValuesReads(h) ==
  /\ Begin(h, "beat", "none")
  /\ UNCHANGED <<row, rollout>>

------------------------------------------------------------------------------
(* The availability monitor *)

\* 300 seconds pass.
Silence ==
  /\ heard = "lately" /\ heard' = "long ago"
  /\ UNCHANGED <<status, charging, rollout, pc, plan>>

\* Every 30 seconds; a charger that was never heard of is not found, SQL's
\* comparison with null is not true.
SilentOrNot == status \in {"available", "busy"}
SilentAvailable == heard = "long ago" /\ status = "available"
Silent == heard = "long ago" /\ status \in {"available", "busy"}
MonitorFinds ==
  /\ Silent /\ Begin("monitor", "offline", "none")
  /\ UNCHANGED <<row, rollout>>
MonitorUpdates ==
  /\ At("monitor", "offline") /\ Goto("monitor", "idle")
  /\ status' = "offline" /\ charging' = "Unavailable"
  /\ UNCHANGED <<heard, rollout>>

------------------------------------------------------------------------------
(* ChangeAvailability: the rollout, the device's final report, the dashboard *)

\* playRollout notes the device as synced and takes it out of operation.
PlayRollout ==
  /\ Begin("rollout", "reread", "Inoperative")
  /\ rollout' = "synced"
  /\ UNCHANGED row
RolloutReads ==
  /\ At("rollout", "reread")
  /\ Goto("rollout", IF InBusiness THEN "check" ELSE "idle")
  /\ UNCHANGED <<row, rollout>>

\* A report of the device replaces "synced"; a final one puts it into operation.
DeviceReports(final) ==
  /\ rollout # "none" /\ rollout' = "reported"
  /\ IF final THEN Begin("device", "check", "Operative") ELSE UNCHANGED <<pc, plan>>
  /\ UNCHANGED row

ChangeAvailability(type) ==
  /\ Begin("operator", "check", type)
  /\ UNCHANGED <<row, rollout>>

\* sendOcppEvent asks the charger, unless it is in use, and writes what it accepted.
Check(a) ==
  /\ At(a, "check") /\ Goto(a, IF charging \in InUse THEN "idle" ELSE "ask")
  /\ UNCHANGED <<row, rollout>>
Ask(a, accepted) ==
  /\ At(a, "ask") /\ Goto(a, IF accepted THEN "switch" ELSE "idle")
  /\ UNCHANGED <<row, rollout>>
Switch(a) ==
  /\ At(a, "switch") /\ Goto(a, "idle")
  /\ status' = IF plan[a] = "Inoperative" THEN "in-operative" ELSE "available"
  /\ UNCHANGED <<charging, heard, rollout>>

------------------------------------------------------------------------------
(* Registration, activation and the dashboard *)

\* registerSerialNumber does not look at the status.
Register ==
  /\ "activator" \in Parties
  /\ status' = "registered"
  /\ UNCHANGED <<charging, heard, rollout, pc, plan>>
ActivateReads ==
  /\ status = "registered" /\ Begin("activator", "activate", "none")
  /\ UNCHANGED <<row, rollout>>
Activate ==
  /\ At("activator", "activate") /\ Goto("activator", "idle")
  /\ status' = "activated"
  /\ UNCHANGED <<charging, heard, rollout>>
ChangeChargerStatus(s) ==
  /\ s \in Settable /\ status' = s
  /\ heard' = IF s = "available" THEN "lately" ELSE heard
  /\ UNCHANGED <<charging, rollout, pc, plan>>

------------------------------------------------------------------------------
EventGoesOn(h) ==
  \/ Modify(h) \/ Reread(h) \/ FindRollout(h) \/ Boot(h) \/ Revive(h) \/ Beat(h)
Sends(a) == Check(a) \/ (\E accepted \in BOOLEAN : Ask(a, accepted)) \/ Switch(a)
Receives(h) ==
  \/ \E c \in Carries : Reads(h, c[1], c[2])
  \/ BootReads(h) \/ HeartbeatReads(h) \/ MeterValuesReads(h)
Monitor == MonitorFinds \/ MonitorUpdates

Step ==
  \/ \E h \in Events : Receives(h) \/ EventGoesOn(h)
  \/ \E a \in Actors : Sends(a)
  \/ Silence \/ Monitor
  \/ PlayRollout \/ RolloutReads \/ \E final \in BOOLEAN : DeviceReports(final)
  \/ \E type \in {"Inoperative", "Operative"} : ChangeAvailability(type)
  \/ Register \/ ActivateReads \/ Activate
  \/ \E s \in Statuses : ChangeChargerStatus(s)

\* An actor is raced when the row changes while it waits; every step it takes
\* itself starts anew.
NoteRace ==
  raced' = [a \in Actors |-> pc'[a] # "idle" /\ pc'[a] = pc[a] /\ (raced[a] \/ row' # row)]

Next == Step /\ NoteRace

\* Queries return and timers fire; the charger, the operator and the rollout may
\* do nothing.
SafeSpec == Init /\ [][Next]_vars
Spec ==
  /\ SafeSpec
  /\ \A h \in Events : WF_vars(EventGoesOn(h) /\ NoteRace)
  /\ \A a \in Actors : WF_vars(Sends(a) /\ NoteRace)
  /\ WF_vars(Monitor /\ NoteRace)

------------------------------------------------------------------------------
(* Properties *)

\* The variables keep their types.
Labels == {"idle", "modify", "release", "reread", "findRollout", "boot", "revive",
           "beat", "offline", "check", "ask", "switch", "activate"}
TypeOK ==
  /\ status \in Statuses
  /\ charging \in ChargingStatuses \cup {"none"}
  /\ heard \in {"never", "lately", "long ago"}
  /\ rollout \in {"none", "synced", "reported"}
  /\ pc \in [Actors -> Labels]
  /\ plan \in [Actors -> ChargingStatuses \cup {"none", "Inoperative", "Operative"}]
  /\ raced \in [Actors -> BOOLEAN]

Moves(a) == pc'[a] # pc[a]
ByHand == Register \/ \E s \in Statuses : ChangeChargerStatus(s)

\* A charger that was taken out of operation (a firmware rollout is at work, or
\* an operator asked for it) is not brought back by what it reports: only by an
\* accepted Operative request, by hand, by a payment's notification, or by an
\* actor that had read the row before.
InoperativeHolds ==
  [][status = "in-operative" /\ status' # "in-operative" =>
       \/ ByHand
       \/ \E a \in Actors : Moves(a) /\ (raced[a] \/ pc[a] \in {"release", "switch"})]_vars

\* The monitor's verdict is true: a charger that is put offline without a fault of
\* its own has been silent, unless its heartbeat came while the monitor was at work.
OfflineIsSilent ==
  [][status' = "offline" /\ status # "offline" /\ charging' \notin Faults =>
       ByHand \/ heard = "long ago" \/ raced["monitor"]]_vars

\* A charger that is offline with a fault is not opened for business by heartbeats:
\* only by a restart, a new report of its own, ChangeAvailability, by hand, or by
\* a heartbeat that was read before the fault.
FaultHolds ==
  [][status = "offline" /\ charging \in Faults /\ status' = "available" =>
       \/ ByHand
       \/ \E a \in Actors : Moves(a) /\ (pc[a] # "revive" \/ raced[a])]_vars

\* A charger heard of before that falls silent while it is open for business is put
\* offline, if nothing else takes it out of business first.
SilentGoesOffline ==
  (status \in {"available", "busy"} /\ heard = "long ago") ~>
     (status \notin {"available", "busy"} \/ heard = "lately")

\* An offline charger without a fault that goes on sending heartbeats is opened again,
\* whatever else reads and writes its row meanwhile.
Beats == (\E h \in Events : HeartbeatReads(h)) /\ NoteRace
HeartbeatRevives ==
  []<><<Beats>>_vars =>
    ((status = "offline" /\ charging \notin Faults) ~>
       (status # "offline" \/ charging \in Faults))
=============================================================================
