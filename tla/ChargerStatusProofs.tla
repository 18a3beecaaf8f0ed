------------------------ MODULE ChargerStatusProofs ------------------------
(***************************************************************************)
(* The types of ChargerStatus, and that a charger taken out of operation,  *)
(* offline with a fault, or heard of lately is only moved by those the     *)
(* properties name, for any number of events in progress and any inputs.   *)
(*                                                                         *)
(* The properties speak of the step that writes; the code's conditions     *)
(* were checked when it read.  The invariant says that what an actor       *)
(* checked still holds at its write unless the row changed in between.     *)
(***************************************************************************)
EXTENDS ChargerStatus, TLAPS

\* What the reader of a row has made sure of when it waits to write.
Justified(label) ==
  /\ label \in {"modify", "boot"} => status # "in-operative"
  /\ label = "revive" => status \in {"activated", "offline"} /\ charging \notin Faults
  /\ label = "offline" => status \in {"available", "busy"} /\ heard = "long ago"
  /\ label = "activate" => status = "registered"

\* An actor that was not raced is still justified, and only the monitor puts
\* chargers offline.
RaceInv ==
  /\ \A a \in Actors : raced[a] \/ Justified(pc[a])
  /\ \A a \in Actors : pc[a] = "offline" => a = "monitor"

\* Labels at which nothing was made sure of.
Free == {"idle", "release", "reread", "findRollout", "beat", "check", "ask", "switch"}

\* Every step either leaves an actor where it is, or moves it to a label that needs
\* no justification or is justified, the row being unchanged.
Lawful(a) ==
  \/ pc'[a] = pc[a]
  \/ pc'[a] \in Free
  \/ row' = row /\ Justified(pc'[a]) /\ (pc'[a] = "offline" => a = "monitor")

USE DEF row, At

\* What an event handler is going to write is a charging status.
Plans == ChargingStatuses \cup {"none", "Inoperative", "Operative"}
PlanInv == \A a \in Actors : pc[a] \in {"modify", "release"} => plan[a] \in ChargingStatuses

\* The charging status of an event is one the charger may report.
LEMMA CarriesStatus ==
  ASSUME NEW c \in Carries PROVE c[2] \in ChargingStatuses
<1>1. CASE c \in {"StatusNotification"} \X Reported
  BY <1>1, ChargerAssumption
<1>2. CASE c \in {<<"Authorize", "Preparing">>, <<"StopTransaction", "Finishing">>,
                  <<"paymentStatus", "Available">>}
  BY <1>2 DEF ChargingStatuses, InUse
<1> QED
  BY <1>1, <1>2 DEF Carries

\* An actor that begins or goes on keeps the types of the control variables.
Control == pc \in [Actors -> Labels] /\ plan \in [Actors -> Plans] /\ PlanInv

\* An actor that begins has a place and a plan.
LEMMA BeginTyped ==
  ASSUME Control, NEW a, NEW label \in Labels, NEW p \in Plans, Begin(a, label, p),
         label \in {"modify", "release"} => p \in ChargingStatuses
  PROVE  Control'
<1>1. a \in Actors
  BY ChargerAssumption DEF Begin, Actors
<1> QED
  BY <1>1 DEF Control, Begin, PlanInv

\* An actor that goes on to a place without a plan keeps its types.
LEMMA GotoTyped ==
  ASSUME Control, NEW a \in Actors, NEW label \in Labels \ {"modify", "release"}, Goto(a, label)
  PROVE  Control'
<1>1. plan' \in [Actors -> Plans]
  BY DEF Control, Goto, Plans
<1> QED
  BY <1>1 DEF Control, Goto, PlanInv

\* The variables keep their types.
THEOREM TypeCorrect == SafeSpec => []TypeOK
<1> DEFINE Row ==
      /\ status \in Statuses
      /\ charging \in ChargingStatuses \cup {"none"}
      /\ heard \in {"never", "lately", "long ago"}
      /\ rollout \in {"none", "synced", "reported"}
<1>1. Init => TypeOK /\ PlanInv
  <2> SUFFICES ASSUME Init PROVE TypeOK /\ PlanInv
    OBVIOUS
  <2>1. pc \in [Actors -> Labels] /\ plan \in [Actors -> Plans] /\ PlanInv
    BY DEF Init, Labels, Plans, PlanInv
  <2>2. Row
    BY ChargerAssumption DEF Init, Statuses, ChargingStatuses
  <2>3. raced \in [Actors -> BOOLEAN]
    BY DEF Init
  <2> QED
    BY <2>1, <2>2, <2>3 DEF TypeOK, Plans
<1>2. TypeOK /\ PlanInv /\ [Next]_vars => TypeOK' /\ PlanInv'
  <2> SUFFICES ASSUME TypeOK, PlanInv, [Next]_vars PROVE TypeOK' /\ PlanInv'
    OBVIOUS
  <2>0. Row /\ Control
    BY DEF TypeOK, Control, Plans
  <2>1. raced' \in [Actors -> BOOLEAN]
    BY DEF Next, NoteRace, TypeOK, vars
  <2> SUFFICES Row' /\ Control'
    BY <2>1 DEF TypeOK, Control, Plans
  <2> HIDE DEF Row
  <2>r. ASSUME UNCHANGED row, rollout' \in {rollout, "synced", "reported"}
        PROVE  Row'
    BY <2>0, <2>r DEF Row
  <2>l. /\ {"idle", "modify", "release", "reread", "findRollout", "boot", "revive", "beat",
             "offline", "check", "ask", "switch", "activate"} = Labels
        /\ {"none", "Inoperative", "Operative", "Available"} \subseteq Plans
    BY DEF Labels, Plans, ChargingStatuses
  <2>2. ASSUME NEW h \in Events, Receives(h) PROVE Row' /\ Control'
    <3>1. CASE \E c \in Carries : Reads(h, c[1], c[2])
      <4>1. PICK c \in Carries : Reads(h, c[1], c[2])
        BY <3>1
      <4>2. c[2] \in ChargingStatuses /\ c[2] \in Plans
        BY CarriesStatus DEF Plans
      <4>3. Control'
        BY <2>0, <2>l, <4>1, <4>2, BeginTyped DEF Reads
      <4> QED
        BY <2>r, <4>1, <4>3 DEF Reads
    <3>2. CASE BootReads(h)
      BY <2>0, <2>l, <2>r, <3>2, BeginTyped DEF BootReads
    <3>3. CASE HeartbeatReads(h)
      <4>1. \E label \in {"revive", "beat"}, p \in {"Available", "none"} : Begin(h, label, p)
        BY <3>3 DEF HeartbeatReads
      <4>2. Control'
        BY <2>0, <2>l, <4>1, BeginTyped
      <4> QED
        BY <2>r, <3>3, <4>2 DEF HeartbeatReads
    <3>4. CASE MeterValuesReads(h)
      BY <2>0, <2>l, <2>r, <3>4, BeginTyped DEF MeterValuesReads
    <3> QED
      BY <2>2, <3>1, <3>2, <3>3, <3>4 DEF Receives
  <2>3. ASSUME NEW h \in Events, EventGoesOn(h) PROVE Row' /\ Control'
    <3>0. h \in Actors
      BY DEF Actors
    <3>1. CASE Modify(h)
      <4>1. plan[h] \in ChargingStatuses
        BY <2>0, <3>0, <3>1 DEF Modify, Control, PlanInv
      <4>2. StatusFor(plan[h]) \in Statuses
        BY <2>0 DEF StatusFor, Statuses, Row
      <4>3. Row'
        BY <2>0, <3>1, <4>1, <4>2 DEF Modify, Row
      <4>4. Control'
        BY <2>0, <2>l, <3>0, <3>1, GotoTyped DEF Modify
      <4> QED
        BY <4>3, <4>4
    <3>2. CASE Reread(h)
      BY <2>0, <2>l, <2>r, <3>0, <3>2, GotoTyped DEF Reread
    <3>3. CASE FindRollout(h)
      <4>1. Control'
        <5>1. pc' \in [Actors -> Labels] /\ plan' \in [Actors -> Plans]
          BY <2>0, <2>l, <3>3 DEF FindRollout, Control
        <5> QED
          BY <2>0, <3>0, <3>3, <5>1 DEF FindRollout, Control, PlanInv
      <4> QED
        BY <2>r, <3>3, <4>1 DEF FindRollout
    <3>4. CASE Boot(h)
      <4>1. Row'
        BY <2>0, <3>4 DEF Boot, Row, Statuses
      <4> QED
        BY <2>0, <2>l, <3>0, <3>4, <4>1, GotoTyped DEF Boot
    <3>5. CASE Revive(h)
      <4>1. Row'
        BY <2>0, <3>5 DEF Revive, Row, Statuses, ChargingStatuses
      <4> QED
        BY <2>0, <2>l, <3>0, <3>5, <4>1, GotoTyped DEF Revive
    <3>6. CASE Beat(h)
      <4>1. Row'
        BY <2>0, <3>6 DEF Beat, Row
      <4> QED
        BY <2>0, <2>l, <3>0, <3>6, <4>1, GotoTyped DEF Beat
    <3> QED
      BY <2>3, <3>1, <3>2, <3>3, <3>4, <3>5, <3>6 DEF EventGoesOn
  <2>4. ASSUME NEW a \in Actors, Sends(a) PROVE Row' /\ Control'
    <3>1. Control'
      BY <2>0, <2>l, <2>4, GotoTyped DEF Sends, Check, Ask, Switch
    <3>2. Row'
      <4>1. CASE Switch(a)
        BY <2>0, <4>1 DEF Switch, Row, Statuses
      <4> QED
        BY <2>r, <2>4, <4>1 DEF Sends, Check, Ask
    <3> QED
      BY <3>1, <3>2
  <2>5. CASE Silence
    BY <2>0, <2>5 DEF Silence, Row, Control, PlanInv
  <2>6. CASE MonitorFinds
    BY <2>0, <2>l, <2>r, <2>6, BeginTyped DEF MonitorFinds
  <2>7. CASE MonitorUpdates
    <3>1. Row'
      BY <2>0, <2>7 DEF MonitorUpdates, Row, Statuses, ChargingStatuses
    <3>2. "monitor" \in Actors
      BY DEF Actors, Others
    <3> QED
      BY <2>0, <2>l, <2>7, <3>1, <3>2, GotoTyped DEF MonitorUpdates
  <2>8. CASE PlayRollout
    BY <2>0, <2>l, <2>r, <2>8, BeginTyped DEF PlayRollout
  <2>9. CASE RolloutReads
    <3>1. "rollout" \in Actors
      BY DEF Actors, Others
    <3> QED
      BY <2>0, <2>l, <2>r, <2>9, <3>1, GotoTyped DEF RolloutReads
  <2>10. ASSUME NEW final \in BOOLEAN, DeviceReports(final) PROVE Row' /\ Control'
    <3>1. CASE final
      BY <2>0, <2>l, <2>r, <2>10, <3>1, BeginTyped DEF DeviceReports
    <3>2. CASE ~final
      BY <2>0, <2>r, <2>10, <3>2 DEF DeviceReports, Control, PlanInv
    <3> QED
      BY <3>1, <3>2
  <2>11. ASSUME NEW type \in {"Inoperative", "Operative"}, ChangeAvailability(type)
         PROVE  Row' /\ Control'
    BY <2>0, <2>l, <2>r, <2>11, BeginTyped DEF ChangeAvailability
  <2>12. CASE Register
    BY <2>0, <2>12 DEF Register, Row, Control, PlanInv, Statuses
  <2>13. CASE ActivateReads
    BY <2>0, <2>l, <2>r, <2>13, BeginTyped DEF ActivateReads
  <2>14. CASE Activate
    <3>1. Row'
      BY <2>0, <2>14 DEF Activate, Row, Statuses
    <3>2. "activator" \in Actors
      BY DEF Actors, Others
    <3> QED
      BY <2>0, <2>l, <2>14, <3>1, <3>2, GotoTyped DEF Activate
  <2>15. ASSUME NEW s \in Statuses, ChangeChargerStatus(s) PROVE Row' /\ Control'
    BY <2>0, <2>15 DEF ChangeChargerStatus, Row, Control, PlanInv
  <2>16. CASE UNCHANGED vars
    BY <2>0, <2>16 DEF vars, Row, Control, PlanInv
  <2> QED
    BY <2>2, <2>3, <2>4, <2>5, <2>6, <2>7, <2>8, <2>9, <2>10, <2>11, <2>12, <2>13, <2>14,
       <2>15, <2>16 DEF Next, Step, Monitor
<1> QED
  BY <1>1, <1>2, PTL DEF SafeSpec

\* Every step moves its actors lawfully.
LEMMA StepIsLawful ==
  ASSUME TypeOK, Step, NEW a \in Actors PROVE Lawful(a)
<1>1. ASSUME NEW b, NEW label, NEW p, Begin(b, label, p), row' = row,
             label \in Free \/ (Justified(label) /\ (label = "offline" => b = "monitor"))
      PROVE  Lawful(a)
  <2>1. pc'[a] = IF a = b THEN label ELSE pc[a]
    BY <1>1 DEF Begin, TypeOK
  <2> QED
    BY <1>1, <2>1 DEF Lawful
<1>2. ASSUME NEW b, NEW label \in Free, pc' = [pc EXCEPT ![b] = label] PROVE Lawful(a)
  <2>1. pc'[a] = IF a = b THEN label ELSE pc[a]
    BY <1>2 DEF TypeOK
  <2> QED
    BY <1>2, <2>1 DEF Lawful
<1>3. ASSUME UNCHANGED pc PROVE Lawful(a)
  BY <1>3 DEF Lawful
<1>4. ASSUME NEW h \in Events, Receives(h) PROVE Lawful(a)
  <2>1. ASSUME NEW c \in Carries, Reads(h, c[1], c[2]) PROVE Lawful(a)
    <3>1. CASE c[1] = "paymentStatus"
      BY <1>1, <2>1, <3>1 DEF Reads, Free
    <3>2. CASE c[1] # "paymentStatus"
      <4>1. status # "in-operative"
        BY <2>1, <3>2 DEF Reads, Serves
      <4>2. Justified("modify")
        BY <4>1 DEF Justified
      <4> QED
        BY <1>1, <2>1, <3>2, <4>2 DEF Reads
    <3> QED
      BY <3>1, <3>2
  <2>2. CASE BootReads(h)
    <3>1. Justified("boot")
      BY <2>2 DEF BootReads, Justified
    <3> QED
      BY <1>1, <2>2, <3>1 DEF BootReads
  <2>3. CASE HeartbeatReads(h)
    <3>1. CASE Revives
      <4>1. Justified("revive")
        BY <3>1 DEF Revives, Justified
      <4> QED
        BY <1>1, <2>3, <3>1, <4>1 DEF HeartbeatReads
    <3>2. CASE ~Revives
      BY <1>1, <2>3, <3>2 DEF HeartbeatReads, Free
    <3> QED
      BY <3>1, <3>2
  <2>4. CASE MeterValuesReads(h)
    BY <1>1, <2>4 DEF MeterValuesReads, Free
  <2> QED
    BY <1>4, <2>1, <2>2, <2>3, <2>4 DEF Receives
<1>5. ASSUME NEW h \in Events, EventGoesOn(h) PROVE Lawful(a)
  BY <1>2, <1>5 DEF EventGoesOn, Modify, Reread, FindRollout, Boot, Revive, Beat, Goto, Free
<1>6. ASSUME NEW b \in Actors, Sends(b) PROVE Lawful(a)
  BY <1>2, <1>6 DEF Sends, Check, Ask, Switch, Goto, Free
<1>7. CASE MonitorFinds
  <2>1. Justified("offline")
    BY <1>7 DEF MonitorFinds, Silent, Justified
  <2> QED
    BY <1>1, <1>7, <2>1 DEF MonitorFinds
<1>8. CASE MonitorUpdates \/ RolloutReads \/ Activate
  BY <1>2, <1>8 DEF MonitorUpdates, RolloutReads, Activate, Goto, Free
<1>9. CASE PlayRollout
  <2>1. row' = row /\ Begin("rollout", "reread", "Inoperative")
    BY <1>9 DEF PlayRollout
  <2> QED
    BY <1>1, <2>1 DEF Free
<1>10. ASSUME NEW final \in BOOLEAN, DeviceReports(final) PROVE Lawful(a)
  BY <1>1, <1>3, <1>10 DEF DeviceReports, Free
<1>11. ASSUME NEW type, ChangeAvailability(type) PROVE Lawful(a)
  BY <1>1, <1>11 DEF ChangeAvailability, Free
<1>12. CASE ActivateReads
  <2>1. Justified("activate")
    BY <1>12 DEF ActivateReads, Justified
  <2> QED
    BY <1>1, <1>12, <2>1 DEF ActivateReads
<1>13. CASE Silence \/ Register
  BY <1>3, <1>13 DEF Silence, Register
<1>14. ASSUME NEW s, ChangeChargerStatus(s) PROVE Lawful(a)
  BY <1>3, <1>14 DEF ChangeChargerStatus
<1> QED
  BY <1>4, <1>5, <1>6, <1>7, <1>8, <1>9, <1>10, <1>11, <1>12, <1>13, <1>14 DEF Step, Monitor

\* What was checked still holds at the write, or the row changed in between.
THEOREM ChecksHold == SafeSpec => []RaceInv
<1>1. Init => RaceInv
  BY DEF Init, RaceInv, Justified
<1>2. TypeOK /\ RaceInv /\ [Next]_vars => RaceInv'
  <2> SUFFICES ASSUME TypeOK, RaceInv, [Next]_vars PROVE RaceInv'
    OBVIOUS
  <2>1. CASE Next
    <3> SUFFICES ASSUME NEW a \in Actors
                 PROVE  /\ raced'[a] \/ Justified(pc[a])'
                        /\ pc'[a] = "offline" => a = "monitor"
      BY DEF RaceInv
    <3>1. Lawful(a)
      BY <2>1, StepIsLawful DEF Next
    <3>2. raced'[a] = (pc'[a] # "idle" /\ pc'[a] = pc[a] /\ (raced[a] \/ row' # row))
      BY <2>1 DEF Next, NoteRace
    <3>3. CASE pc'[a] = pc[a]
      BY <3>2, <3>3 DEF RaceInv, Justified
    <3>4. CASE pc'[a] \in Free
      BY <3>4 DEF Free, Justified
    <3>5. CASE row' = row /\ Justified(pc'[a]) /\ (pc'[a] = "offline" => a = "monitor")
      BY <3>5 DEF Justified
    <3> QED
      BY <3>1, <3>3, <3>4, <3>5 DEF Lawful
  <2>2. CASE UNCHANGED vars
    BY <2>2 DEF vars, RaceInv, Justified
  <2> QED
    BY <2>1, <2>2
<1> QED
  BY <1>1, <1>2, TypeCorrect, PTL DEF SafeSpec

\* The steps that change the row, and who takes them.
LEMMA Writers ==
  ASSUME TypeOK, Step, row' # row
  PROVE  \/ ByHand
         \/ Silence
         \/ \E h \in Events : Modify(h) \/ Boot(h) \/ Revive(h) \/ Beat(h)
         \/ \E a \in Actors : Switch(a)
         \/ MonitorUpdates \/ Activate
  BY DEF Step, Receives, EventGoesOn, Sends, Monitor, ByHand, Reads, Begin, BootReads,
         HeartbeatReads, MeterValuesReads, Reread, FindRollout, Check, Ask, MonitorFinds,
         PlayRollout, RolloutReads, DeviceReports, ChangeAvailability, ActivateReads

\* An actor that goes on to another label has moved.
LEMMA GoesAway ==
  ASSUME TypeOK, NEW a \in Actors, NEW label, Goto(a, label), label # pc[a]
  PROVE  Moves(a)
  BY DEF Goto, TypeOK, Moves

\* What takes a charger out of in-operative.
LEMMA InoperativeStep ==
  ASSUME TypeOK, RaceInv, Step, status = "in-operative", status' # "in-operative"
  PROVE  \/ ByHand
         \/ \E a \in Actors : Moves(a) /\ (raced[a] \/ pc[a] \in {"release", "switch"})
<1>1. ASSUME NEW h \in Events, Modify(h) \/ Boot(h) \/ Revive(h)
      PROVE  \E a \in Actors : Moves(a) /\ (raced[a] \/ pc[a] \in {"release", "switch"})
  <2>1. h \in Actors
    BY DEF Actors
  <2>2. Moves(h)
    BY <1>1, <2>1, GoesAway DEF Modify, Boot, Revive
  <2>3. pc[h] \in {"modify", "release", "boot", "revive"}
    BY <1>1 DEF Modify, Boot, Revive
  <2> QED
    BY <2>1, <2>2, <2>3 DEF RaceInv, Justified
<1>2. ASSUME NEW a \in Actors, Switch(a) PROVE Moves(a) /\ pc[a] = "switch"
  BY <1>2, GoesAway DEF Switch
<1>3. CASE MonitorUpdates
  <2>1. "monitor" \in Actors /\ pc["monitor"] = "offline"
    BY <1>3 DEF MonitorUpdates, Actors, Others
  <2> QED
    BY <1>3, <2>1, GoesAway DEF MonitorUpdates, RaceInv, Justified
<1>4. CASE Activate
  <2>1. "activator" \in Actors /\ pc["activator"] = "activate"
    BY <1>4 DEF Activate, Actors, Others
  <2> QED
    BY <1>4, <2>1, GoesAway DEF Activate, RaceInv, Justified
<1>5. CASE Silence \/ \E h \in Events : Beat(h)
  BY <1>5 DEF Silence, Beat
<1> QED
  BY <1>1, <1>2, <1>3, <1>4, <1>5, Writers

\* A charger taken out of operation stays out of it, but for those the property names.
THEOREM InoperativeIsHeld == SafeSpec => InoperativeHolds
<1>1. TypeOK /\ RaceInv /\ [Next]_vars =>
        [status = "in-operative" /\ status' # "in-operative" =>
           \/ ByHand
           \/ \E a \in Actors : Moves(a) /\ (raced[a] \/ pc[a] \in {"release", "switch"})]_vars
  BY InoperativeStep DEF Next
<1> QED
  BY <1>1, TypeCorrect, ChecksHold, PTL DEF SafeSpec, InoperativeHolds

\* What puts a charger without a fault offline.
LEMMA OfflineStep ==
  ASSUME TypeOK, RaceInv, Step, status' = "offline", status # "offline", charging' \notin Faults
  PROVE  ByHand \/ heard = "long ago" \/ raced["monitor"]
<1>1. ASSUME NEW h \in Events, Modify(h) PROVE FALSE
  BY <1>1 DEF Modify, StatusFor, Faults
<1>2. CASE MonitorUpdates
  <2>1. "monitor" \in Actors /\ pc["monitor"] = "offline"
    BY <1>2 DEF MonitorUpdates, Actors, Others
  <2> QED
    BY <2>1 DEF RaceInv, Justified
<1>3. ASSUME NEW h \in Events, Boot(h) \/ Revive(h) \/ Beat(h) PROVE FALSE
  BY <1>3 DEF Boot, Revive, Beat
<1>4. ASSUME NEW a \in Actors, Switch(a) PROVE FALSE
  BY <1>4 DEF Switch
<1>5. CASE Silence \/ Activate
  BY <1>5 DEF Silence, Activate
<1> QED
  BY <1>1, <1>2, <1>3, <1>4, <1>5, Writers

\* Only a silent charger is put offline without a fault, or one whose heartbeat came
\* while the monitor was at work.
THEOREM OfflineIsTrue == SafeSpec => OfflineIsSilent
<1>1. TypeOK /\ RaceInv /\ [Next]_vars =>
        [status' = "offline" /\ status # "offline" /\ charging' \notin Faults =>
           ByHand \/ heard = "long ago" \/ raced["monitor"]]_vars
  BY OfflineStep DEF Next
<1> QED
  BY <1>1, TypeCorrect, ChecksHold, PTL DEF SafeSpec, OfflineIsSilent

\* What makes a faulty, offline charger available.
LEMMA FaultStep ==
  ASSUME TypeOK, RaceInv, Step, status = "offline", charging \in Faults, status' = "available"
  PROVE  \/ ByHand
         \/ \E a \in Actors : Moves(a) /\ (pc[a] # "revive" \/ raced[a])
<1>1. ASSUME NEW h \in Events, Modify(h) \/ Boot(h) \/ Revive(h)
      PROVE  \E a \in Actors : Moves(a) /\ (pc[a] # "revive" \/ raced[a])
  <2>1. h \in Actors
    BY DEF Actors
  <2>2. Moves(h)
    BY <1>1, <2>1, GoesAway DEF Modify, Boot, Revive
  <2> QED
    BY <2>1, <2>2 DEF RaceInv, Justified
<1>2. ASSUME NEW a \in Actors, Switch(a) PROVE Moves(a) /\ pc[a] # "revive"
  BY <1>2, GoesAway DEF Switch
<1>3. CASE Silence \/ Activate \/ MonitorUpdates \/ \E h \in Events : Beat(h)
  BY <1>3 DEF Silence, Beat, Activate, MonitorUpdates
<1> QED
  BY <1>1, <1>2, <1>3, Writers

\* Heartbeats do not open a charger that is offline with a fault.
THEOREM FaultIsHeld == SafeSpec => FaultHolds
<1>1. TypeOK /\ RaceInv /\ [Next]_vars =>
        [status = "offline" /\ charging \in Faults /\ status' = "available" =>
           \/ ByHand
           \/ \E a \in Actors : Moves(a) /\ (pc[a] # "revive" \/ raced[a])]_vars
  BY FaultStep DEF Next
<1> QED
  BY <1>1, TypeCorrect, ChecksHold, PTL DEF SafeSpec, FaultHolds
=============================================================================
