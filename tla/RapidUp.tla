------------------------------- MODULE RapidUp -------------------------------
(***************************************************************************)
(* Firmware rollouts over the chargers' own agents (Rapid-UP): a rollout,  *)
(* a document of the state of each of its devices, and what the agent      *)
(* record of a device announces to it.                                     *)
(*                                                                         *)
(* Playing a rollout writes all three and takes the chargers out of        *)
(* operation; each device fetches its record, installs and reports; the    *)
(* report that ends an installation clears the record, puts the charger    *)
(* back into operation, and completes the rollout once all its devices     *)
(* are done. Documents are saved as they were loaded, only the fields that *)
(* were changed since, and nothing is locked.                              *)
(***************************************************************************)
EXTENDS Naturals, Sequences, FiniteSets

CONSTANTS
  Rollouts,
  Devices,
  Requests,      \* the dashboard's requests to create or play that may run at once
  Events,        \* what a device reports: "COMPLETED" and "FAILED" end an installation,
                 \*   any other is an event of one under way
  EditedLists,   \* the lists of devices that edits write
  MaxBusy,       \* bound: requests and reports at work at once
  MaxPlays,      \* bound: plays, of all rollouts together
  MaxOdd         \* bound: edits, archived rollouts, plays and copies of one that is
                 \*   archived, devices without a record and commands that do not
                 \*   reach a charger, all together

ASSUME RapidUpAssumption ==
  /\ Rollouts \cap {"none", "absent"} = {}
  /\ Requests \cap Devices = {} /\ IsFiniteSet(Devices)
  /\ Events \cap {"none", "idle", "begun"} = {}
  /\ EditedLists \subseteq SUBSET Devices
  /\ MaxBusy \in Nat /\ MaxPlays \in Nat /\ MaxOdd \in Nat

RolloutStatuses ==
  {"none", "CREATED", "PREPARE_ROLLOUT", "DEVICE_STATE_MAP_CREATED", "COMPLETED"}
DeviceStatuses == {"NEW", "DEVICE_REMOTE_STATE_SYNCED"} \cup Events
Ended == {"COMPLETED", "FAILED"}
Actors == Requests \cup Devices

VARIABLES
  rollouts,      \* status, deviceIds, archive
  states,        \* per rollout and device: the statuses of its documents, as inserted
  updates,       \* newUpdates of each device's agent record: the rollout that is
                 \*   available, "none", or "absent" if there is no record
  out,           \* chargers that are taken out of operation
  pc,            \* the await each request and each device's report is at
  job,           \* what a request works on,
  todo,          \*   and the devices it has not come to yet
  report,        \* what the handler of a device's report holds
  doing, phase,  \* of each device: the rollout it installs, if any, and how far it is
  plays, spent,  \* how many of MaxPlays and of MaxOdd happened
  owed,          \* history: <<rollout, device>> of a play that was not ended since,
  completed,     \*   and those the device completed at some time
  odd            \* history: what happened to each device (see Happens)

books == <<rollouts, states, updates, out>>
device == <<doing, phase>>
history == <<owed, completed>>
vars == <<books, pc, job, todo, report, device, plays, spent, history, odd>>

Documents == [status : RolloutStatuses, devices : SUBSET Devices, archive : BOOLEAN]
Announced == Rollouts \cup {"none", "absent"}
Labels == {"idle", "check", "create", "prepare", "insert", "map", "agents", "tell", "sync",
           "takeOut", "state", "record", "operate", "find", "save"}
Jobs == [rollout : Rollouts \cup {"none"}, new : Documents,
         agents : [Devices -> Announced], current : Devices \cup {"none"}]
Handled == [rollout : Rollouts \cup {"none"}, event : Events \cup {"none"},
            seen : RolloutStatuses, size : Nat, clears : 0..2, all : BOOLEAN]
NoRollout == [status |-> "none", devices |-> {}, archive |-> FALSE]
NoJob == [rollout |-> "none", new |-> NoRollout, agents |-> [d \in Devices |-> "absent"],
          current |-> "none"]
NoReport == [rollout |-> "none", event |-> "none", seen |-> "none", size |-> 0,
             clears |-> 0, all |-> FALSE]

Init ==
  /\ rollouts = [r \in Rollouts |-> NoRollout]
  /\ states = [r \in Rollouts |-> [d \in Devices |-> <<>>]]
  /\ updates \in [Devices -> {"none", "absent"}]
  /\ spent = Cardinality({d \in Devices : updates[d] = "absent"}) /\ spent <= MaxOdd
  /\ out = {}
  /\ pc = [a \in Actors |-> "idle"]
  /\ job = [q \in Requests |-> NoJob] /\ todo = [q \in Requests |-> {}]
  /\ report = [d \in Devices |-> NoReport]
  /\ doing = [d \in Devices |-> "none"] /\ phase = [d \in Devices |-> "idle"]
  /\ plays = 0
  /\ owed = {} /\ completed = {}
  /\ odd = [d \in Devices |-> {}]

Spends == spent < MaxOdd /\ spent' = spent + 1
Begins(a) ==
  /\ pc[a] = "idle"
  /\ Cardinality({b \in Actors : pc[b] # "idle"}) < MaxBusy
At(a, label) == pc[a] = label
Goto(a, label) == pc' = [pc EXCEPT ![a] = label]

\* A request ends.
Ends(q) ==
  /\ Goto(q, "idle")
  /\ job' = [job EXCEPT ![q] = NoJob] /\ todo' = [todo EXCEPT ![q] = {}]

\* save() writes a status only if it is not the one that was loaded.
StatusSaved(r, loaded, status) ==
  IF loaded = status THEN rollouts ELSE [rollouts EXCEPT ![r].status = status]

------------------------------------------------------------------------------
(* createRollout, cloneRollout *)

\* findDeviceInActiveRollout: nothing ends a rollout but its completion. The first form
\* looks for rollouts that were played.
Active(r) == rollouts[r].status \notin {"none", "COMPLETED"} /\ ~rollouts[r].archive
InPlayed(d, except) ==
  \E r \in Rollouts \ except :
    Active(r) /\ rollouts[r].status # "CREATED" /\ d \in rollouts[r].devices
InActive(d, except) == \E r \in Rollouts \ except : Active(r) /\ d \in rollouts[r].devices

\* A new rollout of some devices, or a copy, which is archived if the other one is.
Drafts ==
  [status : {"CREATED"}, devices : SUBSET Devices \ {{}}, archive : {FALSE}]
    \cup {[rollouts[o] EXCEPT !.status = "CREATED"] : o \in {r \in Rollouts : rollouts[r] # NoRollout}}

Creates(q, r, draft) ==
  /\ Begins(q) /\ Goto(q, "check")
  /\ rollouts[r] = NoRollout /\ \A p \in Requests : job[p].rollout # r
  /\ job' = [job EXCEPT ![q] = [NoJob EXCEPT !.rollout = r, !.new = draft]]
  /\ todo' = [todo EXCEPT ![q] = draft.devices]
  /\ IF draft.archive THEN Spends ELSE UNCHANGED spent
  /\ UNCHANGED <<books, report, device, plays, history>>

Creating(q) == rollouts[job[q].rollout] = NoRollout

\* A device is looked up; both requests are refused if another rollout has it.
Checks(q, d) ==
  /\ At(q, "check") /\ d \in todo[q]
  /\ IF InActive(d, IF Creating(q) THEN {} ELSE {job[q].rollout})
     THEN Ends(q)
     ELSE /\ UNCHANGED job
          /\ IF todo[q] = {d}
             THEN /\ Goto(q, IF Creating(q) THEN "create" ELSE "prepare")
                  /\ todo' = [todo EXCEPT ![q] = job[q].new.devices]
             ELSE UNCHANGED pc /\ todo' = [todo EXCEPT ![q] = @ \ {d}]
  /\ UNCHANGED <<books, report, device, plays, spent, history>>

Inserts(q) ==
  /\ At(q, "create") /\ Ends(q)
  /\ rollouts' = [rollouts EXCEPT ![job[q].rollout] = job[q].new]
  /\ UNCHANGED <<states, updates, out, report, device, plays, spent, history>>

------------------------------------------------------------------------------
(* updateRolloutById, deleteRolloutById, deleteBulkRollouts *)

\* The devices are exchanged as they come, whatever other rollouts have them.
Edits(r, devices) ==
  /\ Spends
  /\ rollouts[r] # NoRollout /\ ~rollouts[r].archive
  /\ devices \notin {{}, rollouts[r].devices}
  /\ rollouts' = [rollouts EXCEPT ![r].devices = devices]
  /\ UNCHANGED <<states, updates, out, pc, job, todo, report, device, plays, history>>

Archives(r) ==
  /\ Spends
  /\ rollouts[r] # NoRollout /\ ~rollouts[r].archive
  /\ rollouts' = [rollouts EXCEPT ![r].archive = TRUE]
  /\ UNCHANGED <<states, updates, out, pc, job, todo, report, device, plays, history>>

------------------------------------------------------------------------------
(* playRollout: whatever the rollout's status is, archived or not *)

Plays(q, r) ==
  /\ Begins(q) /\ Goto(q, "check")
  /\ plays < MaxPlays /\ plays' = plays + 1
  /\ rollouts[r] # NoRollout
  /\ job' = [job EXCEPT ![q] = [NoJob EXCEPT !.rollout = r, !.new = rollouts[r]]]
  /\ todo' = [todo EXCEPT ![q] = rollouts[r].devices]
  /\ IF rollouts[r].archive THEN Spends ELSE UNCHANGED spent
  /\ UNCHANGED <<books, report, device, history>>

Prepares(q) ==
  /\ At(q, "prepare") /\ Goto(q, "insert")
  /\ rollouts' = StatusSaved(job[q].rollout, job[q].new.status, "PREPARE_ROLLOUT")
  /\ UNCHANGED <<states, updates, out, job, todo, report, device, plays, spent, history>>

InsertsStates(q) ==
  /\ At(q, "insert") /\ Goto(q, "map")
  /\ states' = [states EXCEPT ![job[q].rollout] =
                  [d \in Devices |-> IF d \in todo[q] THEN Append(@[d], "NEW") ELSE @[d]]]
  /\ UNCHANGED <<rollouts, updates, out, job, todo, report, device, plays, spent, history>>

Maps(q) ==
  /\ At(q, "map") /\ Goto(q, "agents")
  /\ rollouts' = [rollouts EXCEPT ![job[q].rollout].status = "DEVICE_STATE_MAP_CREATED"]
  /\ UNCHANGED <<states, updates, out, job, todo, report, device, plays, spent, history>>

\* The agent records, then the documents of the states: of each device the last one.
FindsAgents(q) ==
  /\ At(q, "agents") /\ Goto(q, "tell")
  /\ job' = [job EXCEPT ![q].agents = updates]
  /\ UNCHANGED <<books, todo, report, device, plays, spent, history>>

\* The device's record announces the rollout, unless it does already. The first form
\* leaves out the devices that the rollout came to an end at before.
TellsOnce(q, d) ==
  /\ job[q].agents[d] \notin {"absent", job[q].rollout}
  /\ \A i \in DOMAIN states[job[q].rollout][d] : states[job[q].rollout][d][i] \notin Ended
TellsRecord(q, d) == job[q].agents[d] \notin {"absent", job[q].rollout}
Tells(q, d) ==
  /\ At(q, "tell") /\ d \in todo[q] /\ Goto(q, "sync")
  /\ updates' = IF TellsRecord(q, d) THEN [updates EXCEPT ![d] = job[q].rollout] ELSE updates
  /\ job' = [job EXCEPT ![q].current = d]
  /\ owed' = owed \cup {<<job[q].rollout, d>>}
  /\ UNCHANGED <<rollouts, states, out, todo, report, device, plays, spent, completed>>

Syncs(q) ==
  /\ At(q, "sync")
  /\ LET r == job[q].rollout
         d == job[q].current
         rest == todo[q] \ {d}
     IN /\ states' = [states EXCEPT ![r][d][Len(states[r][d])] = "DEVICE_REMOTE_STATE_SYNCED"]
        /\ Goto(q, IF rest = {} THEN "takeOut" ELSE "tell")
        /\ todo' = [todo EXCEPT ![q] = rest]
  /\ job' = [job EXCEPT ![q].current = "none"]
  /\ UNCHANGED <<rollouts, updates, out, report, device, plays, spent, history>>

\* ChangeAvailability, to all chargers at once: one that charges, or is not connected,
\* stays in operation. Until the step the request has all of them in hand.
TakesOut(q, reached) ==
  /\ At(q, "takeOut") /\ Ends(q)
  /\ reached \subseteq job[q].new.devices /\ out' = out \cup reached
  /\ IF reached = job[q].new.devices THEN UNCHANGED spent ELSE Spends
  /\ UNCHANGED <<rollouts, states, updates, report, device, plays, history>>

------------------------------------------------------------------------------
(* The device *)

\* getDeviceCache makes the record of a device that asks for the first time.
Fetches(d) ==
  /\ updates[d] = "absent" /\ updates' = [updates EXCEPT ![d] = "none"]
  /\ UNCHANGED <<rollouts, states, out, pc, job, todo, report, device, plays, spent, history>>

UnderWay(d) == doing[d] # "none"

\* It begins what its record announces, if getRolloutStatusForDevice says there is
\* something left to do.
Starts(d) ==
  /\ At(d, "idle") /\ ~UnderWay(d)
  /\ \E r \in Rollouts :
       /\ updates[d] = r /\ \E i \in DOMAIN states[r][d] : states[r][d][i] \notin Ended
       /\ doing' = [doing EXCEPT ![d] = r] /\ phase' = [phase EXCEPT ![d] = "begun"]
  /\ UNCHANGED <<books, pc, job, todo, report, plays, spent, history>>

------------------------------------------------------------------------------
(* updateDeviceRolloutState *)

\* The report of an archived rollout is refused.
Reports(d, e) ==
  /\ Begins(d)
  /\ UnderWay(d) /\ e # phase[d]
  /\ phase' = [phase EXCEPT ![d] = IF e \in Ended THEN "idle" ELSE e]
  /\ doing' = [doing EXCEPT ![d] = IF e \in Ended THEN "none" ELSE @]
  /\ LET r == doing[d] IN
       /\ IF rollouts[r].archive THEN UNCHANGED <<pc, report>>
          ELSE /\ Goto(d, "state")
               /\ report' = [report EXCEPT ![d] =
                    [NoReport EXCEPT !.rollout = r, !.event = e, !.seen = rollouts[r].status,
                       !.size = Cardinality(rollouts[r].devices),
                       !.clears = CASE e = "COMPLETED" -> 1 [] e = "FAILED" -> 2 [] OTHER -> 0]]
       /\ owed' = IF e \in Ended THEN owed \ {<<r, d>>} ELSE owed
       /\ completed' = IF e = "COMPLETED" THEN completed \cup {<<r, d>>} ELSE completed
  /\ UNCHANGED <<books, job, todo, plays, spent>>

\* sendEventToCharger opens the charger after these; the first form does so after a
\* success only.
Failures == {"DOWNLOADED_ARTIFACT_FAILED", "EXTRACTED_ARTIFACT_FAILED",
             "CONFIG_VALIDATION_FAILED", "PRE_INSTALL_FAILED"}
OperatesAfterSuccess(e) == e = "COMPLETED"
Operates(e) == e \in Ended \cup Failures

\* The first document of the device is the one that is saved.
ReportSaves(d) ==
  /\ At(d, "state")
  /\ Goto(d, IF report[d].event \in Ended THEN "record"
             ELSE IF Operates(report[d].event) THEN "operate" ELSE "find")
  /\ states' = [states EXCEPT ![report[d].rollout][d][1] = report[d].event]
  /\ UNCHANGED <<rollouts, updates, out, job, todo, report, device, plays, spent, history>>

\* The end of an installation clears the device's record, whatever it announces; a
\* failure does so twice. Only a record that was loaded with something to clear is
\* saved: the step is the load if there was nothing, and the save if there was.
Clears(d) ==
  /\ At(d, "record") /\ Goto(d, IF report[d].clears > 1 THEN "record" ELSE "operate")
  /\ report' = [report EXCEPT ![d].clears = @ - 1]
  /\ updates' = IF updates[d] \in Rollouts THEN [updates EXCEPT ![d] = "none"] ELSE updates
  /\ UNCHANGED <<rollouts, states, out, job, todo, device, plays, spent, history>>

\* sendEventToCharger: the charger goes back into operation, if it can be reached.
ReportOperates(d, ok) ==
  /\ At(d, "operate") /\ Goto(d, "find")
  /\ IF ok THEN UNCHANGED spent ELSE Spends
  /\ out' = IF ok /\ Operates(report[d].event) THEN out \ {d} ELSE out
  /\ UNCHANGED <<rollouts, states, updates, job, todo, report, device, plays, history>>

\* How many documents of the rollout are completed. The first form counts those that
\* ended.
CountOf(r, statuses) ==
  Cardinality(UNION {{<<d, i>> : i \in {j \in DOMAIN states[r][d] : states[r][d][j] \in statuses}}
                       : d \in Devices})
EndedOf(r) == CountOf(r, Ended)
CompletedOf(r) == CountOf(r, {"COMPLETED"})

ReportCounts(d) ==
  /\ At(d, "find") /\ Goto(d, "save")
  /\ report' = [report EXCEPT ![d].all = CompletedOf(report[d].rollout) = report[d].size]
  /\ UNCHANGED <<books, job, todo, device, plays, spent, history>>

ReportEnds(d) ==
  /\ At(d, "save") /\ Goto(d, "idle")
  /\ rollouts' = IF report[d].all
                  THEN StatusSaved(report[d].rollout, report[d].seen, "COMPLETED") ELSE rollouts
  /\ report' = [report EXCEPT ![d] = NoReport]
  /\ UNCHANGED <<states, updates, out, job, todo, device, plays, spent, history>>

------------------------------------------------------------------------------
Request(q) ==
  \/ \E r \in Rollouts : Plays(q, r) \/ \E draft \in Drafts : Creates(q, r, draft)
  \/ \E d \in Devices : Checks(q, d) \/ Tells(q, d)
  \/ \E reached \in SUBSET Devices : TakesOut(q, reached)
  \/ Inserts(q) \/ Prepares(q) \/ InsertsStates(q) \/ Maps(q) \/ FindsAgents(q) \/ Syncs(q)
Admin(r) == Archives(r) \/ \E devices \in EditedLists : Edits(r, devices)
Device(d) ==
  \/ Fetches(d) \/ Starts(d)
  \/ \E e \in Events : Reports(d, e)
  \/ ReportSaves(d) \/ Clears(d) \/ ReportCounts(d) \/ ReportEnds(d)
  \/ \E ok \in BOOLEAN : ReportOperates(d, ok)

\* The requests that have a device in hand, and its own report's handler.
Handling(d) == {q \in Requests : pc[q] # "idle" /\ d \in job[q].new.devices}
InHand(d) == Handling(d) \cup {b \in {d} : pc[b] # "idle"}

\* What may happen to a device: it is in the hands of two requests, or of one and of the
\* handler of its report, at once; the devices of a rollout of its are exchanged; a rollout
\* of its is archived before it ended it, or is played archived; a rollout it still owes is
\* completed, by what its devices did in an earlier play; it has no record when a rollout
\* is played; the command that puts its charger back does not reach it.
Oddities == {"raced", "edited", "archived", "overtaken", "untold", "unreached"}
Happens(d, o) ==
  CASE o = "raced" -> \E a, b \in InHand(d)' : a # b
    [] o = "edited" -> \E r \in Rollouts : rollouts[r] # NoRollout
                         /\ rollouts[r].devices # rollouts'[r].devices
                         /\ d \in rollouts[r].devices \cup rollouts'[r].devices
    [] o = "archived" -> \E r \in Rollouts : rollouts[r].archive'
                           /\ (d \in rollouts[r].devices' \/ doing'[d] = r)
    [] o = "overtaken" -> \E r \in Rollouts : rollouts'[r].status = "COMPLETED" /\ <<r, d>> \in owed'
    [] o = "untold" -> \E q \in Requests : At(q, "agents") /\ pc'[q] = "tell" /\ updates[d] = "absent"
                         /\ d \in todo[q]
    [] o = "unreached" -> At(d, "operate") /\ spent' > spent
\* Of a device that two had in hand at once only edits matter besides: every property
\* that one of the others excuses is excused by that.
Kept(happened) ==
  IF "raced" \in happened THEN happened \cap {"raced", "edited"} ELSE happened
Note == odd' = [d \in Devices |-> Kept(odd[d] \cup {o \in Oddities : Happens(d, o)})]

Next ==
  /\ \/ \E q \in Requests : Request(q)
     \/ \E r \in Rollouts : Admin(r)
     \/ \E d \in Devices : Device(d)
  /\ Note

SafeSpec == Init /\ [][Next]_vars

------------------------------------------------------------------------------
(* Properties *)

TypeOK ==
  /\ rollouts \in [Rollouts -> Documents]
  /\ states \in [Rollouts -> [Devices -> Seq(DeviceStatuses)]]
  /\ updates \in [Devices -> Announced] /\ out \subseteq Devices
  /\ pc \in [Actors -> Labels]
  /\ job \in [Requests -> Jobs]
  /\ todo \in [Requests -> SUBSET Devices]
  /\ report \in [Devices -> Handled]
  /\ doing \in [Devices -> Rollouts \cup {"none"}]
  /\ phase \in [Devices -> {"idle", "begun"} \cup Events]
  /\ plays \in 0..MaxPlays /\ spent \in 0..MaxOdd
  /\ owed \subseteq Rollouts \X Devices /\ completed \subseteq Rollouts \X Devices
  /\ odd \in [Devices -> SUBSET Oddities]

Idle(d) == InHand(d) = {}

\* No device is part of two rollouts that are active: creating, cloning and playing look
\* for another one first; unless two of them had it in hand at once, or somebody put it
\* on one by an edit.
OneActiveRollout ==
  \A d \in Devices :
    \/ \A r, s \in Rollouts :
         Active(r) /\ Active(s) /\ d \in rollouts[r].devices \cap rollouts[s].devices => r = s
    \/ odd[d] \cap {"raced", "edited"} # {}

\* A rollout is completed only if all its devices have completed it; and once they all
\* have and nothing is owed, it is, whichever of their reports was handled last and
\* however they overlapped: unless its devices were edited, it was archived, or one
\* reported while it was being played.
CompletionIsTrue ==
  \A r \in Rollouts :
    LET devices == rollouts[r].devices
        all == \A d \in devices : <<r, d>> \in completed
        kept(oddities) == \A d \in devices : odd[d] \cap oddities = {}
    IN /\ rollouts[r].status = "COMPLETED" /\ kept({"edited"}) => all
       /\ /\ devices # {} /\ all
          /\ \A d \in devices :
               Idle(d) /\ <<r, d>> \notin owed /\ states[r][d][1] # "FAILED"
          /\ kept({"edited", "archived", "raced"})
          => rollouts[r].status = "COMPLETED"

\* A charger that is out of operation still has a rollout to install: the end of every
\* installation puts it back; unless a rollout was archived meanwhile (its reports are
\* refused), the device reported before the charger was taken out, or the command to
\* put it back did not reach it.
BackInService ==
  \A d \in out :
    Idle(d) => \/ \E r \in Rollouts : <<r, d>> \in owed
               \/ odd[d] \cap {"archived", "raced", "unreached"} # {}

\* A device that a rollout was played for is told of it, or installs it: unless it had
\* no record, or two rollouts had the device at once: by an edit, in a race, because one
\* was archived, or because one that was played again was completed by the documents of
\* its earlier play.
OwedIsTold ==
  \A r \in Rollouts, d \in Devices :
    <<r, d>> \in owed /\ Idle(d) =>
      \/ updates[d] = r
      \/ doing[d] = r
      \/ odd[d] \cap {"untold", "raced", "edited", "archived", "overtaken"} # {}
=============================================================================
