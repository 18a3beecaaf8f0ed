--------------------------- MODULE RapidUpProofs ---------------------------
(***************************************************************************)
(* What RapidUp keeps for any number of rollouts, devices and requests:    *)
(* its types, that no device is part of two active rollouts, that the      *)
(* chargers a rollout took out of operation come back, that a device is    *)
(* told of what it owes, and that a rollout is completed by its devices.   *)
(***************************************************************************)
EXTENDS RapidUp, FiniteSetTheorems, SequenceTheorems, TLAPS

USE RapidUpAssumption DEF At, Goto

\* The report that ends an installation has a record to clear, once or twice.
Clearing ==
  \A d \in Devices :
    /\ pc[d] = "record" => report[d].clears \in 1..2
    /\ pc[d] = "state" =>
         /\ report[d].event \in Events
         /\ report[d].event \in Ended => report[d].clears \in 1..2
\* A request at work knows its rollout.
Working == \A q \in Requests : pc[q] # "idle" => job[q].rollout \in Rollouts
Typed == TypeOK /\ Clearing /\ Working

\* Note keeps the type of what it writes.
LEMMA NoteTyped ==
  ASSUME odd \in [Devices -> SUBSET Oddities], Note
  PROVE  odd' \in [Devices -> SUBSET Oddities]
  BY DEF Note, Kept

\* The null records have their types.
LEMMA NullsTyped == NoRollout \in Documents /\ NoJob \in Jobs /\ NoReport \in Handled
<1>1. NoRollout \in Documents
  BY DEF NoRollout, Documents, RolloutStatuses
<1>2. NoJob \in Jobs
  BY <1>1 DEF NoJob, Jobs, Announced
<1>3. NoReport \in Handled
  BY DEF NoReport, Handled, RolloutStatuses
<1> QED
  BY <1>1, <1>2, <1>3

\* An actor moves to another await.
LEMMA GotoTyped ==
  ASSUME pc \in [Actors -> Labels], NEW a \in Actors, NEW label \in Labels, pc' = [pc EXCEPT ![a] = label]
  PROVE  /\ pc' \in [Actors -> Labels] /\ pc'[a] = label
         /\ \A b \in Actors \ {a} : pc'[b] = pc[b]
  OBVIOUS

\* What a request does to itself keeps the reports as they are.
LEMMA RequestMoves ==
  ASSUME Typed, NEW q \in Requests, NEW label \in Labels, pc' = [pc EXCEPT ![q] = label],
         report' = report
  PROVE  pc' \in [Actors -> Labels] /\ Clearing'
<1>1. q \in Actors /\ q \notin Devices
  BY DEF Actors
<1>2. pc' \in [Actors -> Labels] /\ \A b \in Actors \ {q} : pc'[b] = pc[b]
  BY <1>1, GotoTyped DEF Typed, TypeOK
<1> QED
  BY <1>1, <1>2 DEF Typed, Clearing, Actors

\* A request that goes on, goes on with a rollout.
LEMMA KeepsWorking ==
  ASSUME Typed, NEW q \in Requests, NEW label, NEW j, pc' = [pc EXCEPT ![q] = label],
         job' = [job EXCEPT ![q] = j], label = "idle" \/ j.rollout \in Rollouts
  PROVE  Working'
  BY DEF Typed, TypeOK, Working, Actors

\* A request that goes on with the same job is at work.
LEMMA SameJobWorks ==
  ASSUME Typed, NEW q \in Requests, NEW label, pc[q] # "idle", pc' = [pc EXCEPT ![q] = label],
         job' = job
  PROVE  Working'
  BY DEF Typed, TypeOK, Working, Actors

\* A field of a job that is set leaves the others.
LEMMA JobFields ==
  ASSUME NEW j \in Jobs, NEW d \in Devices \cup {"none"}, NEW agents \in [Devices -> Announced]
  PROVE  /\ [j EXCEPT !.current = d] \in Jobs /\ [j EXCEPT !.current = d].rollout = j.rollout
         /\ [j EXCEPT !.agents = agents] \in Jobs
         /\ [j EXCEPT !.agents = agents].rollout = j.rollout
  BY DEF Jobs

\* A request ends.
LEMMA EndsTyped ==
  ASSUME Typed, NEW q \in Requests, Ends(q), report' = report
  PROVE  /\ pc' \in [Actors -> Labels] /\ Clearing' /\ Working'
         /\ job' \in [Requests -> Jobs] /\ todo' \in [Requests -> SUBSET Devices]
<1>1. pc' \in [Actors -> Labels] /\ Clearing'
  BY RequestMoves DEF Ends, Labels
<1>2. Working'
  BY KeepsWorking DEF Ends
<1> QED
  BY <1>1, <1>2, NullsTyped DEF Typed, TypeOK, Ends

\* A status that is written is one of a rollout.
LEMMA StatusTyped ==
  ASSUME rollouts \in [Rollouts -> Documents], NEW r \in Rollouts \cup {"none"},
         NEW status \in RolloutStatuses
  PROVE  [rollouts EXCEPT ![r].status = status] \in [Rollouts -> Documents]
<1>1. CASE r \in Rollouts
  BY <1>1 DEF Documents
<1>2. CASE r \notin Rollouts
  BY <1>2
<1> QED
  BY <1>1, <1>2

\* A document of a device that is written is still one of its documents.
LEMMA StateTyped ==
  ASSUME states \in [Rollouts -> [Devices -> Seq(DeviceStatuses)]],
         NEW r, NEW d, NEW i, NEW status \in DeviceStatuses
  PROVE  [states EXCEPT ![r][d][i] = status] \in [Rollouts -> [Devices -> Seq(DeviceStatuses)]]
<1> DEFINE new == [states EXCEPT ![r][d][i] = status]
<1>1. new = [r2 \in Rollouts |-> IF r2 = r THEN [states[r] EXCEPT ![d][i] = status] ELSE states[r2]]
  OBVIOUS
<1>2. ASSUME r \in Rollouts
      PROVE [states[r] EXCEPT ![d][i] = status] \in [Devices -> Seq(DeviceStatuses)]
  <2>1. ASSUME d \in Devices
        PROVE [states[r][d] EXCEPT ![i] = status] \in Seq(DeviceStatuses)
    <3> DEFINE s == states[r][d]
    <3>1. s \in Seq(DeviceStatuses)
      BY <1>2, <2>1
    <3> HIDE DEF s
    <3>2. ASSUME i \in 1..Len(s) PROVE [s EXCEPT ![i] = status] \in Seq(DeviceStatuses)
      BY <3>1, <3>2, ExceptSeq
    <3>3. ASSUME i \notin 1..Len(s) PROVE [s EXCEPT ![i] = status] \in Seq(DeviceStatuses)
      <4>1. [s EXCEPT ![i] = status] = s
        BY <3>1, <3>3
      <4> QED
        BY <3>1, <4>1
    <3> QED
      BY <3>2, <3>3 DEF s
  <2>2. [states[r] EXCEPT ![d][i] = status]
          = [d2 \in Devices |-> IF d2 = d THEN [states[r][d] EXCEPT ![i] = status] ELSE states[r][d2]]
    BY <1>2
  <2>3. \A d2 \in Devices : states[r][d2] \in Seq(DeviceStatuses)
    BY <1>2
  <2>4. \A d2 \in Devices :
          (IF d2 = d THEN [states[r][d] EXCEPT ![i] = status] ELSE states[r][d2]) \in Seq(DeviceStatuses)
    BY <2>1, <2>3
  <2> HIDE DEF new
  <2> QED
    BY <2>2, <2>4
<1> QED
  BY <1>1, <1>2

\* The types hold at first: the devices without a record are finitely many.
LEMMA InitTyped == Init => Typed
<1> SUFFICES ASSUME Init PROVE Typed
  OBVIOUS
<1>1. spent \in 0..MaxOdd
  <2>1. IsFiniteSet({d \in Devices : updates[d] = "absent"})
    BY FS_Subset
  <2> QED
    BY <2>1, FS_CardinalityType DEF Init
<1>2. states \in [Rollouts -> [Devices -> Seq(DeviceStatuses)]]
  BY DEF Init
<1>3. pc \in [Actors -> Labels]
  BY DEF Init, Labels
<1>4. TypeOK
  BY <1>1, <1>2, <1>3, NullsTyped DEF Init, TypeOK, Announced
<1>5. Clearing
  BY DEF Init, Clearing, Actors
<1>6. Working
  BY DEF Init, Working, Actors
<1> QED
  BY <1>4, <1>5, <1>6 DEF Typed

\* The steps of a request keep them,
LEMMA RequestTyped ==
  ASSUME Typed, NEW q \in Requests, Request(q), Note
  PROVE  Typed'
<1>1. odd' \in [Devices -> SUBSET Oddities]
  BY NoteTyped DEF Typed, TypeOK
<1> USE DEF books, device, history
<1>2. ASSUME NEW r \in Rollouts, Plays(q, r) PROVE Typed'
  <2>1. pc' \in [Actors -> Labels] /\ Clearing'
    BY <1>2, RequestMoves DEF Plays, Labels
  <2>2. [NoJob EXCEPT !.rollout = r, !.new = rollouts[r]] \in Jobs
    BY NullsTyped DEF Jobs, Typed, TypeOK
  <2>3. rollouts[r].devices \in SUBSET Devices
    BY DEF Documents, Typed, TypeOK
  <2>4. Working'
    <3> DEFINE j == [NoJob EXCEPT !.rollout = r, !.new = rollouts[r]]
    <3>1. job' = [job EXCEPT ![q] = j] /\ pc' = [pc EXCEPT ![q] = "check"]
      BY <1>2 DEF Plays
    <3>2. j.rollout \in Rollouts
      BY DEF NoJob
    <3> HIDE DEF j
    <3> QED
      BY <3>1, <3>2, KeepsWorking
  <2>5. spent' \in 0..MaxOdd
    BY <1>2, RapidUpAssumption DEF Plays, Spends, Typed, TypeOK
  <2> QED
    BY <1>1, <1>2, <2>1, <2>2, <2>3, <2>4, <2>5 DEF Plays, Typed, TypeOK
<1>3. ASSUME NEW r \in Rollouts, NEW draft \in Drafts, Creates(q, r, draft) PROVE Typed'
  <2>1. draft \in Documents /\ draft.devices \in SUBSET Devices
    <3>1. ASSUME NEW o \in Rollouts, draft = [rollouts[o] EXCEPT !.status = "CREATED"]
          PROVE  draft \in Documents
      <4>1. rollouts[o] \in Documents
        BY DEF Typed, TypeOK
      <4> QED
        BY <3>1, <4>1 DEF Documents, RolloutStatuses
    <3>2. CASE draft \in [status : {"CREATED"}, devices : SUBSET Devices \ {{}}, archive : {FALSE}]
      BY <3>2 DEF Documents, RolloutStatuses
    <3>3. draft \in Documents
      BY <3>1, <3>2 DEF Drafts
    <3> QED
      BY <3>3 DEF Documents
  <2>2. pc' \in [Actors -> Labels] /\ Clearing'
    BY <1>3, RequestMoves DEF Creates, Labels
  <2>3. [NoJob EXCEPT !.rollout = r, !.new = draft] \in Jobs
    BY <2>1, NullsTyped DEF Jobs
  <2>4. Working'
    <3> DEFINE j == [NoJob EXCEPT !.rollout = r, !.new = draft]
    <3>1. job' = [job EXCEPT ![q] = j] /\ pc' = [pc EXCEPT ![q] = "check"]
      BY <1>3 DEF Creates
    <3>2. j.rollout \in Rollouts
      BY DEF NoJob
    <3> HIDE DEF j
    <3> QED
      BY <3>1, <3>2, KeepsWorking
  <2>5. spent' \in 0..MaxOdd
    BY <1>3, RapidUpAssumption DEF Creates, Spends, Typed, TypeOK
  <2> QED
    BY <1>1, <1>3, <2>1, <2>2, <2>3, <2>4, <2>5 DEF Creates, Typed, TypeOK
<1>4. ASSUME NEW d \in Devices, Checks(q, d) PROVE Typed'
  <2>1. UNCHANGED <<books, report, device, plays, spent, history>>
    BY <1>4 DEF Checks
  <2>2. CASE Ends(q)
    BY <1>1, <2>1, <2>2, EndsTyped DEF Typed, TypeOK
  <2>3. CASE ~Ends(q)
    <3>2. job' = job
      BY <1>4, <2>3 DEF Checks
    <3>1. pc' \in [Actors -> Labels] /\ Clearing' /\ Working'
      <4>1. CASE UNCHANGED pc
        BY <2>1, <3>2, <4>1 DEF Typed, TypeOK, Clearing, Working
      <4>2. CASE pc' = [pc EXCEPT ![q] = "create"]
        BY <1>4, <2>1, <3>2, <4>2, RequestMoves, SameJobWorks DEF Labels, Checks
      <4>3. CASE pc' = [pc EXCEPT ![q] = "prepare"]
        BY <1>4, <2>1, <3>2, <4>3, RequestMoves, SameJobWorks DEF Labels, Checks
      <4> QED
        BY <1>4, <2>3, <4>1, <4>2, <4>3 DEF Checks
    <3>3. todo' \in [Requests -> SUBSET Devices]
      <4>1. job[q].new.devices \subseteq Devices /\ todo[q] \subseteq Devices
        BY DEF Typed, TypeOK, Jobs, Documents
      <4>2. \/ todo' = [todo EXCEPT ![q] = job[q].new.devices]
            \/ todo' = [todo EXCEPT ![q] = @ \ {d}]
        BY <1>4, <2>3 DEF Checks
      <4>3. todo \in [Requests -> SUBSET Devices] /\ todo[q] \ {d} \subseteq Devices
        BY <4>1 DEF Typed, TypeOK
      <4> QED
        BY <4>1, <4>2, <4>3
    <3> QED
      BY <1>1, <2>1, <3>1, <3>2, <3>3 DEF Typed, TypeOK
  <2> QED
    BY <2>2, <2>3
<1>5. ASSUME NEW d \in Devices, Tells(q, d) PROVE Typed'
  <2>1. pc' \in [Actors -> Labels] /\ Clearing'
    BY <1>5, RequestMoves DEF Tells, Labels
  <2>2. job' \in [Requests -> Jobs] /\ Working'
    <3>1. job[q] \in Jobs /\ job[q].agents \in [Devices -> Announced]
      BY DEF Typed, TypeOK, Jobs
    <3>2. [job[q] EXCEPT !.current = d] \in Jobs
      BY <3>1, JobFields
    <3>3. job' = [job EXCEPT ![q] = [job[q] EXCEPT !.current = d]]
      BY <1>5 DEF Tells
    <3>4. [job[q] EXCEPT !.current = d].rollout \in Rollouts
      BY <1>5, <3>1, JobFields DEF Typed, Working, Tells
    <3>5. Working'
      <4> DEFINE j == [job[q] EXCEPT !.current = d]
      <4>1. pc' = [pc EXCEPT ![q] = "sync"]
        BY <1>5 DEF Tells
      <4>2. job' = [job EXCEPT ![q] = j] /\ j.rollout \in Rollouts
        BY <3>3, <3>4
      <4> HIDE DEF j
      <4> QED
        BY <4>1, <4>2, KeepsWorking
    <3> QED
      BY <3>2, <3>3, <3>5 DEF Typed, TypeOK
  <2>3. updates' \in [Devices -> Announced]
    BY <1>5 DEF Tells, Announced, Jobs, Typed, TypeOK
  <2>4. owed' \subseteq Rollouts \X Devices
    BY <1>5 DEF Tells, Typed, TypeOK, Working
  <2> QED
    BY <1>1, <1>5, <2>1, <2>2, <2>3, <2>4 DEF Tells, Typed, TypeOK
<1>6. ASSUME NEW reached \in SUBSET Devices, TakesOut(q, reached) PROVE Typed'
  <2>1. spent' \in 0..MaxOdd
    BY <1>6 DEF TakesOut, Spends, Typed, TypeOK
  <2> QED
    BY <1>1, <1>6, <2>1, EndsTyped DEF TakesOut, Typed, TypeOK
<1>7. CASE Inserts(q)
  <2>1. job[q].new \in Documents
    BY DEF Typed, TypeOK, Jobs
  <2> QED
    BY <1>1, <1>7, <2>1, EndsTyped DEF Inserts, Typed, TypeOK
<1>8. CASE Prepares(q)
  <2>1. rollouts' \in [Rollouts -> Documents]
    BY <1>8, StatusTyped DEF Prepares, StatusSaved, RolloutStatuses, Typed, TypeOK, Jobs
  <2>2. pc' \in [Actors -> Labels] /\ Clearing'
    BY <1>8, RequestMoves DEF Prepares, Labels
  <2>3. Working'
    BY <1>8, SameJobWorks DEF Prepares
  <2> QED
    BY <1>1, <1>8, <2>1, <2>2, <2>3 DEF Prepares, Typed, TypeOK
<1>9. CASE InsertsStates(q)
  <2>1. states' \in [Rollouts -> [Devices -> Seq(DeviceStatuses)]]
    <3> DEFINE r == job[q].rollout
               Added(s) == [d \in Devices |-> IF d \in todo[q] THEN Append(s[d], "NEW") ELSE s[d]]
    <3>1. "NEW" \in DeviceStatuses
      BY DEF DeviceStatuses
    <3>2. r \in Rollouts
      BY <1>9 DEF InsertsStates, Typed, Working
    <3>4. states[r] \in [Devices -> Seq(DeviceStatuses)]
      BY <3>2 DEF Typed, TypeOK
    <3>5. \A d \in Devices : Append(states[r][d], "NEW") \in Seq(DeviceStatuses)
      BY <3>1, <3>4
    <3>6. Added(states[r]) \in [Devices -> Seq(DeviceStatuses)]
      BY <3>4, <3>5
    <3>3. states' = [states EXCEPT ![r] = Added(states[r])]
      BY <1>9 DEF InsertsStates
    <3> HIDE DEF Added
    <3> QED
      BY <3>2, <3>3, <3>6 DEF Typed, TypeOK
  <2>2. pc' \in [Actors -> Labels] /\ Clearing'
    BY <1>9, RequestMoves DEF InsertsStates, Labels
  <2>3. Working'
    BY <1>9, SameJobWorks DEF InsertsStates
  <2> QED
    BY <1>1, <1>9, <2>1, <2>2, <2>3 DEF InsertsStates, Typed, TypeOK
<1>10. CASE Maps(q)
  <2>1. rollouts' \in [Rollouts -> Documents]
    BY <1>10, StatusTyped DEF Maps, RolloutStatuses, Typed, TypeOK, Jobs
  <2>2. pc' \in [Actors -> Labels] /\ Clearing'
    BY <1>10, RequestMoves DEF Maps, Labels
  <2>3. Working'
    BY <1>10, SameJobWorks DEF Maps
  <2> QED
    BY <1>1, <1>10, <2>1, <2>2, <2>3 DEF Maps, Typed, TypeOK
<1>11. CASE FindsAgents(q)
  <2>1. pc' \in [Actors -> Labels] /\ Clearing'
    BY <1>11, RequestMoves DEF FindsAgents, Labels
  <2>2. job' \in [Requests -> Jobs] /\ Working'
    <3>1. job[q] \in Jobs /\ updates \in [Devices -> Announced]
      BY DEF Typed, TypeOK
    <3>2. [job[q] EXCEPT !.agents = updates] \in Jobs
      BY <3>1, JobFields
    <3>3. job' = [job EXCEPT ![q] = [job[q] EXCEPT !.agents = updates]]
      BY <1>11 DEF FindsAgents
    <3>4. [job[q] EXCEPT !.agents = updates].rollout \in Rollouts
      BY <1>11, <3>1, JobFields DEF Typed, Working, FindsAgents
    <3>5. Working'
      <4> DEFINE j == [job[q] EXCEPT !.agents = updates]
      <4>1. pc' = [pc EXCEPT ![q] = "tell"]
        BY <1>11 DEF FindsAgents
      <4>2. job' = [job EXCEPT ![q] = j] /\ j.rollout \in Rollouts
        BY <3>3, <3>4
      <4> HIDE DEF j
      <4> QED
        BY <4>1, <4>2, KeepsWorking
    <3> QED
      BY <3>2, <3>3, <3>5 DEF Typed, TypeOK
  <2> QED
    BY <1>1, <1>11, <2>1, <2>2 DEF FindsAgents, Typed, TypeOK
<1>12. CASE Syncs(q)
  <2>1. states' \in [Rollouts -> [Devices -> Seq(DeviceStatuses)]]
    BY <1>12, StateTyped DEF Syncs, DeviceStatuses, Typed, TypeOK
  <2>2. pc' \in [Actors -> Labels] /\ Clearing'
    <3>1. CASE pc' = [pc EXCEPT ![q] = "takeOut"]
      BY <1>12, <3>1, RequestMoves DEF Syncs, Labels
    <3>2. CASE pc' = [pc EXCEPT ![q] = "tell"]
      BY <1>12, <3>2, RequestMoves DEF Syncs, Labels
    <3> QED
      BY <1>12, <3>1, <3>2 DEF Syncs
  <2>3. job' \in [Requests -> Jobs] /\ Working'
    <3>1. job[q] \in Jobs /\ job[q].agents \in [Devices -> Announced]
      BY DEF Typed, TypeOK, Jobs
    <3>2. [job[q] EXCEPT !.current = "none"] \in Jobs
      BY <3>1, JobFields
    <3>3. job' = [job EXCEPT ![q] = [job[q] EXCEPT !.current = "none"]]
      BY <1>12 DEF Syncs
    <3>4. [job[q] EXCEPT !.current = "none"].rollout \in Rollouts
      BY <1>12, <3>1, JobFields DEF Typed, Working, Syncs
    <3>5. Working'
      <4> DEFINE j == [job[q] EXCEPT !.current = "none"]
      <4>1. pc' = [pc EXCEPT ![q] = (IF todo[q] \ {job[q].current} = {} THEN "takeOut" ELSE "tell")]
        BY <1>12 DEF Syncs
      <4>2. job' = [job EXCEPT ![q] = j] /\ j.rollout \in Rollouts
        BY <3>3, <3>4
      <4> HIDE DEF j
      <4> QED
        BY <4>1, <4>2, KeepsWorking
    <3> QED
      BY <3>2, <3>3, <3>5 DEF Typed, TypeOK
  <2>4. todo' \in [Requests -> SUBSET Devices]
    BY <1>12 DEF Syncs, Typed, TypeOK
  <2> QED
    BY <1>1, <1>12, <2>1, <2>2, <2>3, <2>4 DEF Syncs, Typed, TypeOK
<1> QED
  BY <1>2, <1>3, <1>4, <1>5, <1>6, <1>7, <1>8, <1>9, <1>10, <1>11, <1>12 DEF Request

\* edits and archiving,
LEMMA AdminTyped ==
  ASSUME Typed, NEW r \in Rollouts, Admin(r), Note
  PROVE  Typed'
<1>1. odd' \in [Devices -> SUBSET Oddities]
  BY NoteTyped DEF Typed, TypeOK
<1>2. spent' \in 0..MaxOdd
  BY DEF Admin, Archives, Edits, Spends, Typed, TypeOK
<1>3. rollouts' \in [Rollouts -> Documents]
  <2>1. rollouts[r] \in Documents
    BY DEF Typed, TypeOK
  <2>2. [rollouts[r] EXCEPT !.archive = TRUE] \in Documents
    BY <2>1 DEF Documents
  <2>3. \A devices \in SUBSET Devices : [rollouts[r] EXCEPT !.devices = devices] \in Documents
    BY <2>1 DEF Documents
  <2>4. CASE Archives(r)
    <3>1. rollouts' = [rollouts EXCEPT ![r] = [rollouts[r] EXCEPT !.archive = TRUE]]
      BY <2>4 DEF Archives
    <3> QED
      BY <2>2, <3>1 DEF Typed, TypeOK
  <2>5. ASSUME NEW devices \in EditedLists, Edits(r, devices) PROVE rollouts' \in [Rollouts -> Documents]
    <3>1. rollouts' = [rollouts EXCEPT ![r] = [rollouts[r] EXCEPT !.devices = devices]]
      BY <2>5 DEF Edits
    <3> QED
      BY <2>3, <3>1 DEF Typed, TypeOK
  <2> QED
    BY <2>4, <2>5 DEF Admin
<1> QED
  BY <1>1, <1>2, <1>3 DEF Admin, Archives, Edits, device, history, Clearing, Working, Typed, TypeOK

\* What a device does keeps the requests as they are.
LEMMA DeviceMoves ==
  ASSUME Typed, NEW d \in Devices, NEW label \in Labels, pc' = [pc EXCEPT ![d] = label],
         job' = job
  PROVE  /\ pc' \in [Actors -> Labels] /\ Working'
         /\ pc'[d] = label /\ \A b \in Devices \ {d} : pc'[b] = pc[b]
<1>1. d \in Actors /\ d \notin Requests
  BY DEF Actors
<1>2. /\ pc' \in [Actors -> Labels] /\ pc'[d] = label
      /\ \A b \in Actors \ {d} : pc'[b] = pc[b]
  BY <1>1, GotoTyped DEF Typed, TypeOK
<1> QED
  BY <1>1, <1>2 DEF Typed, Working, Actors

\* A field of what a handler holds that is set leaves the others.
LEMMA ReportFields ==
  ASSUME NEW h \in Handled
  PROVE  /\ \A n \in 0..2 : [h EXCEPT !.clears = n] \in Handled /\ [h EXCEPT !.clears = n].clears = n
         /\ \A all \in BOOLEAN : [h EXCEPT !.all = all] \in Handled
  BY DEF Handled

\* a device and the handler of its reports,
LEMMA DeviceTyped ==
  ASSUME Typed, NEW d \in Devices, Device(d), Note
  PROVE  Typed'
<1>1. odd' \in [Devices -> SUBSET Oddities]
  BY NoteTyped DEF Typed, TypeOK
<1> USE DEF books, device, history
<1>2. report[d] \in Handled
  BY DEF Typed, TypeOK
<1>3. CASE Fetches(d)
  BY <1>1, <1>3 DEF Fetches, Clearing, Working, Announced, Typed, TypeOK
<1>4. CASE Starts(d)
  BY <1>1, <1>4 DEF Starts, Clearing, Working, Typed, TypeOK
<1>5. ASSUME NEW e \in Events, Reports(d, e) PROVE Typed'
  <2> DEFINE r == doing[d]
  <2>1. r \in Rollouts
    BY <1>5 DEF Reports, UnderWay, Typed, TypeOK
  <2>2. rollouts[r].status \in RolloutStatuses /\ Cardinality(rollouts[r].devices) \in Nat
    <3>1. rollouts[r].status \in RolloutStatuses /\ rollouts[r].devices \subseteq Devices
      BY <2>1 DEF Typed, TypeOK, Documents
    <3> QED
      BY <3>1, FS_Subset, FS_CardinalityType
  <2> DEFINE clears == CASE e = "COMPLETED" -> 1 [] e = "FAILED" -> 2 [] OTHER -> 0
             h == [NoReport EXCEPT !.rollout = r, !.event = e, !.seen = rollouts[r].status,
                     !.size = Cardinality(rollouts[r].devices), !.clears = clears]
  <2>7. clears \in 0..2 /\ (e \in Ended => clears \in 1..2)
    BY DEF Ended
  <2>3. h \in Handled /\ h.event \in Events /\ (h.event \in Ended => h.clears \in 1..2)
    <3> HIDE DEF clears, r
    <3>1. h \in Handled
      BY <2>1, <2>2, <2>7, NullsTyped DEF Handled
    <3>2. h.event = e /\ h.clears = clears
      BY NullsTyped DEF Handled
    <3> QED
      BY <2>7, <3>1, <3>2
  <2>4. /\ pc' \in [Actors -> Labels] /\ report' \in [Devices -> Handled]
        /\ Clearing' /\ Working'
    <3> HIDE DEF h
    <3>1. CASE UNCHANGED <<pc, report>>
      BY <1>5, <3>1 DEF Reports, Typed, TypeOK, Clearing, Working
    <3>2. CASE pc' = [pc EXCEPT ![d] = "state"] /\ report' = [report EXCEPT ![d] = h]
      <4>1. /\ pc' \in [Actors -> Labels] /\ Working'
            /\ pc'[d] = "state" /\ \A b \in Devices \ {d} : pc'[b] = pc[b]
        BY <1>5, <3>2, DeviceMoves DEF Reports, Labels
      <4>2. report' \in [Devices -> Handled] /\ report'[d] = h
            /\ \A b \in Devices \ {d} : report'[b] = report[b]
        BY <2>3, <3>2 DEF Typed, TypeOK
      <4> QED
        BY <2>3, <4>1, <4>2 DEF Typed, Clearing
    <3> QED
      BY <1>5, <3>1, <3>2 DEF Reports, h
  <2>5. doing' \in [Devices -> Rollouts \cup {"none"}] /\ phase' \in [Devices -> {"idle", "begun"} \cup Events]
    BY <1>5 DEF Reports, Typed, TypeOK
  <2>6. owed' \subseteq Rollouts \X Devices /\ completed' \subseteq Rollouts \X Devices
    BY <1>5, <2>1 DEF Reports, Typed, TypeOK
  <2> QED
    BY <1>1, <1>5, <2>4, <2>5, <2>6 DEF Reports, Typed, TypeOK
<1>6. CASE ReportSaves(d)
  <2>1. states' \in [Rollouts -> [Devices -> Seq(DeviceStatuses)]]
    <3>1. report[d].event \in DeviceStatuses
      <4>1. pc[d] = "state"
        BY <1>6 DEF ReportSaves
      <4>2. report[d].event \in Events
        BY <4>1 DEF Typed, Clearing
      <4> QED
        BY <4>2 DEF DeviceStatuses
    <3> QED
      BY <1>6, <3>1, StateTyped DEF ReportSaves, Typed, TypeOK
  <2> DEFINE label == IF report[d].event \in Ended THEN "record"
                      ELSE IF Operates(report[d].event) THEN "operate" ELSE "find"
  <2>2. label \in Labels /\ pc' = [pc EXCEPT ![d] = label]
    BY <1>6 DEF ReportSaves, Labels
  <2>3. /\ pc' \in [Actors -> Labels] /\ Working'
        /\ pc'[d] = label /\ \A b \in Devices \ {d} : pc'[b] = pc[b]
    BY <1>6, <2>2, DeviceMoves DEF ReportSaves
  <2>4. Clearing'
    <3>1. pc[d] = "state" /\ report' = report
      BY <1>6 DEF ReportSaves
    <3>2. report[d].event \in Ended => report[d].clears \in 1..2
      BY <3>1 DEF Typed, Clearing
    <3>3. label # "state" /\ (label = "record" => report[d].event \in Ended)
      OBVIOUS
    <3> HIDE DEF label
    <3> QED
      BY <2>3, <3>1, <3>2, <3>3 DEF Typed, Clearing
  <2> QED
    BY <1>1, <1>6, <2>1, <2>3, <2>4 DEF ReportSaves, Typed, TypeOK
<1>7. CASE Clears(d)
  <2>1. report[d].clears \in 1..2
    BY <1>7 DEF Clears, Typed, Clearing
  <2> DEFINE h == [report[d] EXCEPT !.clears = report[d].clears - 1]
             label == IF report[d].clears > 1 THEN "record" ELSE "operate"
  <2>2. h \in Handled /\ (label = "record" => h.clears \in 1..2) /\ label \in Labels /\ label # "state"
    <3>1. report[d].clears - 1 \in 0..2
      BY <2>1
    <3>2. h \in Handled /\ h.clears = report[d].clears - 1
      BY <1>2, <3>1, ReportFields
    <3> QED
      BY <2>1, <3>2 DEF Labels
  <2> HIDE DEF h, label
  <2>3. pc' = [pc EXCEPT ![d] = label] /\ report' = [report EXCEPT ![d] = h]
    BY <1>7 DEF Clears, h, label
  <2>4. pc' \in [Actors -> Labels] /\ Working' /\ Clearing' /\ report' \in [Devices -> Handled]
    <3>1. /\ pc' \in [Actors -> Labels] /\ Working'
          /\ pc'[d] = label /\ \A b \in Devices \ {d} : pc'[b] = pc[b]
      BY <1>7, <2>2, <2>3, DeviceMoves DEF Clears
    <3>2. report' \in [Devices -> Handled] /\ report'[d] = h
          /\ \A b \in Devices \ {d} : report'[b] = report[b]
      BY <2>2, <2>3 DEF Typed, TypeOK
    <3> QED
      BY <2>2, <3>1, <3>2 DEF Typed, Clearing
  <2>5. updates' \in [Devices -> Announced]
    BY <1>7 DEF Clears, Announced, Typed, TypeOK
  <2> QED
    BY <1>1, <1>7, <2>4, <2>5 DEF Clears, Typed, TypeOK
<1>8. CASE ReportCounts(d)
  <2>1. pc' \in [Actors -> Labels] /\ Working' /\ pc'[d] = "save"
        /\ \A b \in Devices \ {d} : pc'[b] = pc[b]
    BY <1>8, DeviceMoves DEF ReportCounts, Labels
  <2>2. report' \in [Devices -> Handled] /\ \A b \in Devices \ {d} : report'[b] = report[b]
    <3> DEFINE h == [report[d] EXCEPT !.all = (CompletedOf(report[d].rollout) = report[d].size)]
    <3>1. h \in Handled
      <4>1. (CompletedOf(report[d].rollout) = report[d].size) \in BOOLEAN
        OBVIOUS
      <4> QED
        BY <1>2, <4>1, ReportFields
    <3>2. report' = [report EXCEPT ![d] = h]
      BY <1>8 DEF ReportCounts
    <3> HIDE DEF h
    <3> QED
      BY <3>1, <3>2 DEF Typed, TypeOK
  <2>3. Clearing'
    BY <2>1, <2>2 DEF Typed, Clearing
  <2> QED
    BY <1>1, <1>8, <2>1, <2>2, <2>3 DEF ReportCounts, Typed, TypeOK
<1>9. CASE ReportEnds(d)
  <2>1. rollouts' \in [Rollouts -> Documents]
    BY <1>2, <1>9, StatusTyped DEF ReportEnds, StatusSaved, RolloutStatuses, Handled, Typed, TypeOK
  <2>2. pc' \in [Actors -> Labels] /\ Working' /\ pc'[d] = "idle"
        /\ \A b \in Devices \ {d} : pc'[b] = pc[b]
    BY <1>9, DeviceMoves DEF ReportEnds, Labels
  <2>3. report' \in [Devices -> Handled] /\ \A b \in Devices \ {d} : report'[b] = report[b]
    BY <1>9, NullsTyped DEF ReportEnds, Typed, TypeOK
  <2>4. Clearing'
    BY <2>2, <2>3 DEF Typed, Clearing
  <2> QED
    BY <1>1, <1>9, <2>1, <2>2, <2>3, <2>4 DEF ReportEnds, Typed, TypeOK
<1>10. ASSUME NEW ok \in BOOLEAN, ReportOperates(d, ok) PROVE Typed'
  <2>1. spent' \in 0..MaxOdd
    BY <1>10 DEF ReportOperates, Spends, Typed, TypeOK
  <2>2. pc' \in [Actors -> Labels] /\ Working' /\ pc'[d] = "find"
        /\ \A b \in Devices \ {d} : pc'[b] = pc[b]
    BY <1>10, DeviceMoves DEF ReportOperates, Labels
  <2>3. Clearing'
    BY <1>10, <2>2 DEF ReportOperates, Typed, Clearing
  <2> QED
    BY <1>1, <1>10, <2>1, <2>2, <2>3 DEF ReportOperates, Typed, TypeOK
<1> QED
  BY <1>3, <1>4, <1>5, <1>6, <1>7, <1>8, <1>9, <1>10 DEF Device

\* and so every step.
LEMMA TypedNext == Typed /\ [Next]_vars => Typed'
<1> SUFFICES ASSUME Typed, [Next]_vars PROVE Typed'
  OBVIOUS
<1>1. CASE UNCHANGED vars
  BY <1>1 DEF vars, books, device, history, Typed, TypeOK, Clearing, Working
<1>2. CASE Next
  BY <1>2, RequestTyped, AdminTyped, DeviceTyped DEF Next
<1> QED
  BY <1>1, <1>2

\* Every variable keeps its type: no status, announcement or label is ever written that
\* the rest of the code does not know.
THEOREM TypeCorrect == SafeSpec => []TypeOK
<1>1. Typed => TypeOK
  BY DEF Typed
<1> QED
  BY <1>1, InitTyped, TypedNext, PTL DEF SafeSpec

------------------------------------------------------------------------------
(* One active rollout. A rollout becomes active by a request that has its devices in     *)
(* hand and found them in no other active rollout; while nobody else has them in hand,   *)
(* that stays true until the rollout is written.                                         *)

Known(r) == rollouts[r].status # "none"
Calm(d) == odd[d] \cap {"raced", "edited"} = {}

\* Who knows a rollout: agents' records, devices, reports and requests that are past
\* their checks; one that is about to be made belongs to one request.
Born == \A r \in Rollouts : rollouts[r].status = "none" => rollouts[r] = NoRollout
Told ==
  \A d \in Devices :
    /\ updates[d] \in Rollouts => Known(updates[d])
    /\ doing[d] \in Rollouts => Known(doing[d])
    /\ report[d].rollout \in Rollouts => Known(report[d].rollout)
Sure ==
  \A q \in Requests : pc[q] # "idle" =>
    /\ job[q].new.status # "none"
    /\ pc[q] = "create" => ~Known(job[q].rollout)
    /\ pc[q] \notin {"check", "create"} => Known(job[q].rollout)
    /\ ~Known(job[q].rollout) => \A p \in Requests \ {q} : job[p].rollout # job[q].rollout
Knows == Born /\ Told /\ Sure

\* A calm device is in one hand; a request has in hand what its rollout has; what it
\* checked is in no other active rollout.
Alone == \A d \in Devices : Calm(d) => \A p, q \in Handling(d) : p = q
Same ==
  \A q \in Requests, d \in Devices :
    Calm(d) /\ pc[q] # "idle" /\ Known(job[q].rollout) =>
      (d \in rollouts[job[q].rollout].devices <=> d \in job[q].new.devices)
Checked(q, d) ==
  /\ pc[q] # "idle" /\ d \in job[q].new.devices
  /\ pc[q] = "check" => d \notin todo[q]
Free ==
  \A q \in Requests, d \in Devices :
    Calm(d) /\ Checked(q, d) =>
      \A r \in Rollouts \ {job[q].rollout} : Active(r) => d \notin rollouts[r].devices
One ==
  \A d \in Devices : Calm(d) =>
    \A r, s \in Rollouts :
      Active(r) /\ Active(s) /\ d \in rollouts[r].devices \cap rollouts[s].devices => r = s
OneInv == Typed /\ Knows /\ Alone /\ Same /\ Free /\ One

\* At first nothing is active, and no request at work.
LEMMA OneInit == Init => OneInv
<1> SUFFICES ASSUME Init PROVE OneInv
  OBVIOUS
<1>1. \A q \in Requests : pc[q] = "idle"
  BY DEF Init, Actors
<1>2. \A r \in Rollouts : rollouts[r] = NoRollout /\ rollouts[r].status = "none"
  BY DEF Init, NoRollout
<1>3. Knows
  BY <1>1, <1>2 DEF Init, Knows, Born, Told, Sure, NoReport
<1>4. Alone /\ Same /\ Free /\ One
  BY <1>1, <1>2 DEF Alone, Handling, Same, Free, Checked, One, Active
<1> QED
  BY <1>3, <1>4, InitTyped DEF OneInv

\* A device that is calm after a step was calm before it, is in one hand, and none of the
\* rollouts it is or was part of had its devices exchanged.
LEMMA StaysCalm ==
  ASSUME Typed, Note, NEW d \in Devices, Calm(d)'
  PROVE  /\ Calm(d)
         /\ \A p, q \in Handling(d)' : p = q
         /\ \A r \in Rollouts :
              rollouts[r] # NoRollout /\ d \in rollouts[r].devices \cup rollouts'[r].devices
                => rollouts'[r].devices = rollouts[r].devices
<1> DEFINE all == odd[d] \cup {o \in Oddities : Happens(d, o)}
<1>1. odd'[d] = Kept(all)
  BY DEF Note
<1>2. ~Happens(d, "raced") /\ ~Happens(d, "edited") /\ Calm(d)
  <2>1. "raced" \notin all /\ "edited" \notin all
    BY <1>1 DEF Calm, Kept
  <2> QED
    BY <2>1 DEF Calm, Oddities
<1>3. \A a, b \in InHand(d)' : a = b
  BY <1>2 DEF Happens
<1>4. Handling(d)' \subseteq InHand(d)'
  BY DEF InHand
<1>5. ~\E r \in Rollouts :
        /\ rollouts[r] # NoRollout
        /\ rollouts[r].devices # rollouts'[r].devices
        /\ d \in rollouts[r].devices \cup rollouts'[r].devices
  BY <1>2 DEF Happens
<1> QED
  BY <1>2, <1>3, <1>4, <1>5

\* What a request does leaves the others as they are.
LEMMA OthersStay ==
  ASSUME Typed, NEW q \in Requests, Request(q), NEW p \in Requests \ {q}
  PROVE  pc'[p] = pc[p] /\ job'[p] = job[p] /\ todo'[p] = todo[p]
<1> USE DEF Typed, TypeOK, Ends, Begins, books, device, history
<1>1. ASSUME NEW r \in Rollouts, Plays(q, r) \/ \E draft \in Drafts : Creates(q, r, draft)
      PROVE  pc'[p] = pc[p] /\ job'[p] = job[p] /\ todo'[p] = todo[p]
  <2>1. CASE Plays(q, r)
    BY <2>1 DEF Plays, Actors
  <2>2. ASSUME NEW draft \in Drafts, Creates(q, r, draft)
        PROVE  pc'[p] = pc[p] /\ job'[p] = job[p] /\ todo'[p] = todo[p]
    BY <2>2 DEF Creates, Actors
  <2> QED
    BY <1>1, <2>1, <2>2
<1>2. ASSUME NEW d \in Devices, Checks(q, d) \/ Tells(q, d)
      PROVE  pc'[p] = pc[p] /\ job'[p] = job[p] /\ todo'[p] = todo[p]
  BY <1>2 DEF Checks, Tells, Actors
<1>3. ASSUME Inserts(q) \/ Prepares(q) \/ InsertsStates(q) \/ Maps(q) \/ FindsAgents(q) \/ Syncs(q)
      PROVE  pc'[p] = pc[p] /\ job'[p] = job[p] /\ todo'[p] = todo[p]
  BY <1>3 DEF Inserts, Prepares, InsertsStates, Maps, FindsAgents, Syncs, Actors
<1>4. ASSUME NEW reached \in SUBSET Devices, TakesOut(q, reached)
      PROVE  pc'[p] = pc[p] /\ job'[p] = job[p] /\ todo'[p] = todo[p]
  BY <1>4 DEF TakesOut, Actors
<1> QED
  BY <1>1, <1>2, <1>3, <1>4 DEF Request

\* Edits, archiving and devices leave the requests alone.
LEMMA RequestsStay ==
  ASSUME Typed, (\E r \in Rollouts : Admin(r)) \/ \E d \in Devices : Device(d)
  PROVE  /\ \A p \in Requests : pc'[p] = pc[p]
         /\ job' = job /\ todo' = todo
<1> USE DEF Typed, TypeOK, books, device, history
<1>1. ASSUME NEW r \in Rollouts, Admin(r) PROVE pc' = pc /\ job' = job /\ todo' = todo
  BY <1>1 DEF Admin, Archives, Edits
<1>2. ASSUME NEW d \in Devices, Device(d)
      PROVE (\A p \in Requests : pc'[p] = pc[p]) /\ job' = job /\ todo' = todo
  <2>1. \A p \in Requests : p # d /\ p \in Actors
    BY DEF Actors
  <2>2. pc' = pc \/ \E label : pc' = [pc EXCEPT ![d] = label]
    BY <1>2 DEF Device, Fetches, Starts, Reports, Begins, ReportSaves, Clears, ReportCounts,
                ReportEnds, ReportOperates
  <2>3. job' = job /\ todo' = todo
    BY <1>2 DEF Device, Fetches, Starts, Reports, Begins, ReportSaves, Clears, ReportCounts,
                ReportEnds, ReportOperates
  <2> QED
    BY <2>1, <2>2, <2>3
<1> QED
  BY <1>1, <1>2

\* A step that makes no rollout active, keeps the devices of the rollouts as far as they
\* stay calm, and checks nothing, keeps what is known of both.
LEMMA MildKeeps ==
  ASSUME OneInv, Note,
         \A r \in Rollouts : (Active(r)' => Active(r)) /\ (Known(r)' <=> Known(r)),
         \A r \in Rollouts, d \in Devices :
           Calm(d)' => (d \in rollouts'[r].devices <=> d \in rollouts[r].devices),
         \A q \in Requests : pc'[q] # "idle" =>
           pc[q] # "idle" /\ job'[q].rollout = job[q].rollout /\ job'[q].new = job[q].new,
         \A q \in Requests, d \in Devices : Checked(q, d)' => Checked(q, d)
  PROVE  Same' /\ Free' /\ One'
<1>1. \A d \in Devices : Calm(d)' => Calm(d)
  BY StaysCalm DEF OneInv
<1>2. Same'
  <2> SUFFICES ASSUME NEW q \in Requests, NEW d \in Devices, Calm(d)', pc'[q] # "idle",
                      Known(job[q].rollout)'
               PROVE  (d \in rollouts[job[q].rollout].devices <=> d \in job[q].new.devices)'
    BY DEF Same
  <2>1. pc[q] # "idle" /\ job'[q].rollout = job[q].rollout /\ job'[q].new = job[q].new
    OBVIOUS
  <2>2. job[q].rollout \in Rollouts
    BY <2>1 DEF OneInv, Typed, Working
  <2>3. Known(job[q].rollout)
    BY <2>1, <2>2 DEF Known
  <2> QED
    BY <1>1, <2>1, <2>2, <2>3 DEF OneInv, Same
<1>3. Free'
  <2> SUFFICES ASSUME NEW q \in Requests, NEW d \in Devices, Calm(d)', Checked(q, d)',
                      NEW r \in Rollouts \ {job'[q].rollout}, Active(r)'
               PROVE  d \notin rollouts'[r].devices
    BY DEF Free
  <2>1. job'[q].rollout = job[q].rollout /\ Checked(q, d) /\ Active(r) /\ Calm(d)
    BY <1>1 DEF Checked
  <2> QED
    BY <2>1 DEF OneInv, Free
<1>4. One'
  BY <1>1 DEF OneInv, One
<1> QED
  BY <1>2, <1>3, <1>4

\* What follows for an administrator's and a device's step: the requests are where they
\* were, and what is checked stays checked.
LEMMA StayingChecks ==
  ASSUME Typed, \A p \in Requests : pc'[p] = pc[p], job' = job, todo' = todo
  PROVE  /\ \A q \in Requests : pc'[q] # "idle" =>
               pc[q] # "idle" /\ job'[q].rollout = job[q].rollout /\ job'[q].new = job[q].new
         /\ \A q \in Requests, d \in Devices : Checked(q, d)' => Checked(q, d)
  BY DEF Checked

\* What a step that knows the same rollouts keeps.
LEMMA AdminKeeps ==
  ASSUME OneInv, Note, NEW r \in Rollouts, Admin(r)
  PROVE  (Knows /\ Alone /\ Same /\ Free /\ One)'
<1>1. /\ \A p \in Requests : pc'[p] = pc[p]
      /\ job' = job /\ todo' = todo
  BY RequestsStay DEF OneInv
<1>2. UNCHANGED <<updates, doing, report>> /\ rollouts[r] # NoRollout
  BY DEF Admin, Archives, Edits, device
<1>3. rollouts \in [Rollouts -> Documents]
  BY DEF OneInv, Typed, TypeOK
<1>4. \A s \in Rollouts :
        /\ rollouts'[s].status = rollouts[s].status
        /\ rollouts'[s].archive \in {TRUE, rollouts[s].archive}
        /\ s # r => rollouts'[s] = rollouts[s]
  <2>1. rollouts[r] \in Documents
    BY <1>3
  <2>2. CASE Archives(r)
    BY <1>3, <2>1, <2>2 DEF Archives, Documents
  <2>3. ASSUME NEW devices, Edits(r, devices)
        PROVE  \A s \in Rollouts :
                 /\ rollouts'[s].status = rollouts[s].status
                 /\ rollouts'[s].archive \in {TRUE, rollouts[s].archive}
                 /\ s # r => rollouts'[s] = rollouts[s]
    BY <1>3, <2>1, <2>3 DEF Edits, Documents
  <2> QED
    BY <2>2, <2>3 DEF Admin
<1>5. \A s \in Rollouts : (Active(s)' => Active(s)) /\ (Known(s)' <=> Known(s))
  BY <1>4 DEF Active, Known
<1>6. Knows'
  <2>1. rollouts[r].status # "none"
    BY <1>2 DEF OneInv, Knows, Born
  <2>2. Born'
    <3> SUFFICES ASSUME NEW s \in Rollouts, rollouts'[s].status = "none"
                 PROVE  rollouts'[s] = NoRollout
      BY DEF Born
    <3>1. s # r
      BY <1>4, <2>1
    <3>2. rollouts'[s] = rollouts[s]
      BY <1>4, <3>1
    <3> QED
      BY <3>2 DEF OneInv, Knows, Born
  <2>3. Told'
    BY <1>2, <1>5 DEF OneInv, Knows, Told, Known
  <2>4. Sure'
    <3>1. \A q \in Requests : pc[q] # "idle" => (Known(job[q].rollout)' <=> Known(job[q].rollout))
      BY <1>1, <1>5 DEF OneInv, Typed, Working, Known
    <3> QED
      BY <1>1, <3>1 DEF OneInv, Knows, Sure
  <2> QED
    BY <2>2, <2>3, <2>4 DEF Knows
<1>7. \A s \in Rollouts, d \in Devices :
        Calm(d)' => (d \in rollouts'[s].devices <=> d \in rollouts[s].devices)
  <2> SUFFICES ASSUME NEW s \in Rollouts, NEW d \in Devices, Calm(d)'
               PROVE  d \in rollouts'[s].devices <=> d \in rollouts[s].devices
    OBVIOUS
  <2>1. CASE s = r
    <3>1. d \in rollouts[r].devices \cup rollouts'[r].devices => rollouts'[r].devices = rollouts[r].devices
      BY <1>2, StaysCalm DEF OneInv
    <3> QED
      BY <2>1, <3>1
  <2>2. CASE s # r
    BY <1>4, <2>2
  <2> QED
    BY <2>1, <2>2
<1>8. Alone'
  BY StaysCalm DEF OneInv, Alone
<1> QED
  BY <1>1, <1>5, <1>6, <1>7, <1>8, StayingChecks, MildKeeps DEF OneInv

\* A status that is written to a rollout that is known.
LEMMA StatusKnown ==
  ASSUME OneInv, NEW r, NEW status \in RolloutStatuses \ {"none"},
         r \in Rollouts => Known(r), rollouts' = [rollouts EXCEPT ![r].status = status]
  PROVE  /\ \A s \in Rollouts :
              /\ Known(s)' <=> Known(s)
              /\ rollouts'[s].devices = rollouts[s].devices
              /\ rollouts'[s].archive = rollouts[s].archive
              /\ s # r => rollouts'[s] = rollouts[s]
              /\ s = r => rollouts'[s].status = status
         /\ Born'
<1>1. rollouts \in [Rollouts -> Documents]
  BY DEF OneInv, Typed, TypeOK
<1>2. \A s \in Rollouts :
        /\ rollouts'[s].devices = rollouts[s].devices
        /\ rollouts'[s].archive = rollouts[s].archive
        /\ s # r => rollouts'[s] = rollouts[s]
        /\ s = r => rollouts'[s].status = status
  BY <1>1 DEF Documents
<1>3. \A s \in Rollouts : Known(s)' <=> Known(s)
  BY <1>2 DEF Known
<1>4. Born'
  <2> SUFFICES ASSUME NEW s \in Rollouts, rollouts'[s].status = "none"
               PROVE  rollouts'[s] = NoRollout
    BY DEF Born
  <2>1. rollouts'[s] = rollouts[s]
    BY <1>2
  <2> QED
    BY <2>1 DEF OneInv, Knows, Born
<1> QED
  BY <1>2, <1>3, <1>4

\* Requests that stay where they are stay sure, if nothing becomes known.
LEMMA SureStays ==
  ASSUME OneInv, \A r \in Rollouts : Known(r)' <=> Known(r),
         \A p \in Requests : pc'[p] = pc[p], job' = job
  PROVE  Sure'
<1>1. \A q \in Requests : pc[q] # "idle" => (Known(job[q].rollout)' <=> Known(job[q].rollout))
  BY DEF OneInv, Typed, Working, Known
<1> QED
  BY <1>1 DEF OneInv, Knows, Sure

\* A device and its reports put nothing on a rollout.
LEMMA DeviceKeeps ==
  ASSUME OneInv, Note, NEW d \in Devices, Device(d)
  PROVE  (Knows /\ Alone /\ Same /\ Free /\ One)'
<1>1. /\ \A p \in Requests : pc'[p] = pc[p]
      /\ job' = job /\ todo' = todo
  BY RequestsStay DEF OneInv
<1>2. Alone'
  BY StaysCalm DEF OneInv, Alone
<1>3. /\ \A s \in Rollouts :
           /\ Known(s)' <=> Known(s)
           /\ rollouts'[s].devices = rollouts[s].devices
           /\ Active(s)' => Active(s)
      /\ Born'
  <2>1. CASE rollouts' = rollouts
    BY <2>1 DEF OneInv, Knows, Born, Known, Active
  <2>2. CASE rollouts' # rollouts
    <3>1. rollouts' = [rollouts EXCEPT ![report[d].rollout].status = "COMPLETED"]
      BY <2>2 DEF Device, Fetches, Starts, Reports, Begins, ReportSaves, Clears, ReportCounts,
                  ReportEnds, ReportOperates, StatusSaved, books
    <3>2. report[d].rollout \in Rollouts => Known(report[d].rollout)
      BY DEF OneInv, Knows, Told
    <3>3. /\ \A s \in Rollouts :
               /\ Known(s)' <=> Known(s)
               /\ rollouts'[s].devices = rollouts[s].devices
               /\ rollouts'[s].archive = rollouts[s].archive
               /\ s # report[d].rollout => rollouts'[s] = rollouts[s]
               /\ s = report[d].rollout => rollouts'[s].status = "COMPLETED"
          /\ Born'
      BY <3>1, <3>2, StatusKnown DEF RolloutStatuses
    <3>4. \A s \in Rollouts : Active(s)' => Active(s)
      BY <3>3 DEF Active
    <3> QED
      BY <3>3, <3>4
  <2> QED
    BY <2>1, <2>2
<1>4. Told'
  <2> USE DEF Typed, TypeOK, books, device, history
  <2>1. ASSUME NEW b \in Devices, updates'[b] \in Rollouts PROVE Known(updates'[b])
    <3>1. updates'[b] = updates[b]
      <4>1. updates' = updates \/ updates' = [updates EXCEPT ![d] = "none"]
        BY DEF Device, Fetches, Starts, Reports, Begins, ReportSaves, Clears,
               ReportCounts, ReportEnds, ReportOperates
      <4>2. updates \in [Devices -> Announced] /\ "none" \notin Rollouts
        BY DEF OneInv
      <4> QED
        BY <2>1, <4>1, <4>2
    <3> QED
      BY <2>1, <3>1 DEF OneInv, Knows, Told
  <2>2. ASSUME NEW b \in Devices, doing'[b] \in Rollouts PROVE Known(doing'[b])
    <3>1. doing'[b] = doing[b] \/ doing'[b] = updates[b]
      <4>1. doing \in [Devices -> Rollouts \cup {"none"}] /\ "none" \notin Rollouts
        BY DEF OneInv
      <4>2. CASE Starts(d)
        BY <4>1, <4>2 DEF Starts
      <4>3. CASE \E e \in Events : Reports(d, e)
        <5>1. doing' = [doing EXCEPT ![d] = "none"] \/ doing' = [doing EXCEPT ![d] = doing[d]]
          BY <4>3 DEF Reports
        <5> QED
          BY <2>2, <4>1, <5>1
      <4>4. CASE doing' = doing
        BY <4>4
      <4> QED
        BY <4>2, <4>3, <4>4 DEF Device, Fetches, ReportSaves, Clears, ReportCounts, ReportEnds,
                                ReportOperates
    <3> QED
      BY <2>2, <3>1 DEF OneInv, Knows, Told
  <2>3. ASSUME NEW b \in Devices, report'[b].rollout \in Rollouts PROVE Known(report'[b].rollout)
    <3>1. report'[b].rollout = report[b].rollout \/ report'[b].rollout = doing[b]
      <4>1. report \in [Devices -> Handled] /\ report[b] \in Handled /\ report[d] \in Handled
        BY DEF OneInv
      <4>2. CASE \E e \in Events : Reports(d, e)
        <5>1. PICK e \in Events : Reports(d, e)
          BY <4>2
        <5> DEFINE h == [NoReport EXCEPT !.rollout = doing[d], !.event = e,
                           !.seen = rollouts[doing[d]].status,
                           !.size = Cardinality(rollouts[doing[d]].devices),
                           !.clears = CASE e = "COMPLETED" -> 1 [] e = "FAILED" -> 2 [] OTHER -> 0]
        <5>2. report' = report \/ report' = [report EXCEPT ![d] = h]
          BY <5>1 DEF Reports
        <5>3. h.rollout = doing[d]
          BY NullsTyped DEF Handled
        <5> HIDE DEF h
        <5> QED
          BY <4>1, <5>2, <5>3
      <4>3. CASE Clears(d) \/ ReportCounts(d)
        BY <4>1, <4>3 DEF Clears, ReportCounts, Handled
      <4>4. CASE ReportEnds(d)
        BY <2>3, <4>1, <4>4 DEF ReportEnds, NoReport
      <4>5. CASE report' = report
        BY <4>5
      <4> QED
        BY <4>2, <4>3, <4>4, <4>5 DEF Device, Fetches, Starts, ReportSaves, ReportOperates
    <3> QED
      BY <2>3, <3>1 DEF OneInv, Knows, Told
  <2>4. \A r \in Rollouts : Known(r) => Known(r)'
    BY <1>3
  <2> QED
    BY <2>1, <2>2, <2>3, <2>4 DEF Told, Known
<1>5. Sure'
  BY <1>1, <1>3, SureStays
<1>6. Same' /\ Free' /\ One'
  BY <1>1, <1>3, StayingChecks, MildKeeps DEF OneInv
<1> QED
  BY <1>2, <1>3, <1>4, <1>5, <1>6 DEF Knows

\* What the steps of a request after its checks have in common.
Late == {"prepare", "insert", "map", "agents", "tell", "sync", "takeOut"}
Works(q) ==
  /\ pc[q] \in Late /\ pc'[q] \in Late
  /\ job'[q].rollout = job[q].rollout /\ job'[q].new = job[q].new
  /\ \A p \in Requests \ {q} : pc'[p] = pc[p] /\ job'[p] = job[p] /\ todo'[p] = todo[p]
  /\ UNCHANGED <<doing, report>>
  /\ \A d \in Devices : updates'[d] \in {updates[d], job[q].rollout}

\* The steps of playRollout after its check are those of a request at work.
LEMMA IsLate ==
  ASSUME OneInv, NEW q \in Requests,
         (\E d \in Devices : Tells(q, d)) \/ Prepares(q) \/ InsertsStates(q) \/ Maps(q)
           \/ FindsAgents(q) \/ Syncs(q)
  PROVE  Works(q)
<1>1. \A p \in Requests \ {q} : pc'[p] = pc[p] /\ job'[p] = job[p] /\ todo'[p] = todo[p]
  BY OthersStay DEF OneInv, Request
<1>2. /\ pc \in [Actors -> Labels] /\ job \in [Requests -> Jobs] /\ job[q] \in Jobs
      /\ updates \in [Devices -> Announced] /\ q \in Actors
  BY DEF OneInv, Typed, TypeOK, Actors
<1> USE DEF Works, Late, books, device, history
<1>3. CASE Prepares(q) \/ InsertsStates(q) \/ Maps(q)
  BY <1>1, <1>2, <1>3 DEF Prepares, InsertsStates, Maps
<1>4. CASE FindsAgents(q)
  BY <1>1, <1>2, <1>4, JobFields DEF FindsAgents, Jobs
<1>5. CASE Syncs(q)
  BY <1>1, <1>2, <1>5 DEF Syncs, Jobs
<1>6. ASSUME NEW d \in Devices, Tells(q, d) PROVE Works(q)
  <2>1. pc[q] \in Late /\ pc'[q] \in Late /\ UNCHANGED <<doing, report>>
    BY <1>2, <1>6 DEF Tells
  <2>2. job'[q].rollout = job[q].rollout /\ job'[q].new = job[q].new
    BY <1>2, <1>6 DEF Tells, Jobs
  <2>3. \A b \in Devices : updates'[b] \in {updates[b], job[q].rollout}
    BY <1>2, <1>6 DEF Tells
  <2> QED
    BY <1>1, <2>1, <2>2, <2>3
<1> QED
  BY <1>3, <1>4, <1>5, <1>6

\* They know what they knew.
LEMMA WorksKnows ==
  ASSUME OneInv, NEW q \in Requests, Works(q), Born',
         \A r \in Rollouts : Known(r)' <=> Known(r)
  PROVE  Knows'
<1>1. job[q].rollout \in Rollouts /\ Known(job[q].rollout) /\ job[q].new.status # "none"
  BY DEF OneInv, Works, Late, Knows, Sure, Typed, Working
<1>2. Told'
  <2>1. \A d \in Devices : updates'[d] \in Rollouts => Known(updates'[d])
    BY <1>1 DEF OneInv, Works, Knows, Told
  <2> QED
    BY <2>1 DEF OneInv, Works, Knows, Told, Known
<1>3. Sure'
  <2> SUFFICES ASSUME NEW p \in Requests, pc'[p] # "idle"
      PROVE (/\ job[p].new.status # "none"
             /\ pc[p] = "create" => ~Known(job[p].rollout)
             /\ pc[p] \notin {"check", "create"} => Known(job[p].rollout)
             /\ ~Known(job[p].rollout) =>
                   \A o \in Requests \ {p} : job[o].rollout # job[p].rollout)'
    BY DEF Sure
  <2>1. CASE p = q
    BY <1>1, <2>1 DEF Works, Late, Known
  <2>2. CASE p # q
    <3>1. pc'[p] = pc[p] /\ job'[p] = job[p] /\ pc[p] # "idle"
      BY <2>2 DEF Works
    <3>2. job[p].rollout \in Rollouts
      BY <3>1 DEF OneInv, Typed, Working
    <3>3. Known(job[p].rollout)' <=> Known(job[p].rollout)
      BY <3>1, <3>2 DEF Known
    <3>4. \A o \in Requests : job'[o].rollout = job[o].rollout
      BY DEF Works
    <3> QED
      BY <3>1, <3>3, <3>4 DEF OneInv, Knows, Sure
  <2> QED
    BY <2>1, <2>2
<1> QED
  BY <1>2, <1>3 DEF Knows

\* Those that write no rollout.
LEMMA WorksKeeps ==
  ASSUME OneInv, Note, NEW q \in Requests, Works(q), rollouts' = rollouts
  PROVE  (Knows /\ Alone /\ Same /\ Free /\ One)'
<1>1. Alone'
  BY StaysCalm DEF OneInv, Alone
<1>2. Knows'
  BY WorksKnows DEF OneInv, Knows, Born, Known
<1>3. \A r \in Rollouts : (Active(r)' => Active(r)) /\ (Known(r)' <=> Known(r))
  BY DEF Active, Known
<1>4. \A p \in Requests : pc'[p] # "idle" =>
        pc[p] # "idle" /\ job'[p].rollout = job[p].rollout /\ job'[p].new = job[p].new
  BY DEF Works, Late
<1>5. \A p \in Requests, d \in Devices : Checked(p, d)' => Checked(p, d)
  BY DEF Works, Late, Checked
<1> QED
  BY <1>1, <1>2, <1>3, <1>4, <1>5, MildKeeps

\* Those that write the status of the rollout that is played: it may become active again,
\* and its calm devices are in no other active one.
LEMMA PlayingKeeps ==
  ASSUME OneInv, Note, NEW q \in Requests, Works(q), NEW status \in RolloutStatuses \ {"none"},
         rollouts' = [rollouts EXCEPT ![job[q].rollout].status = status]
  PROVE  (Knows /\ Alone /\ Same /\ Free /\ One)'
<1> DEFINE r0 == job[q].rollout
<1>1. r0 \in Rollouts /\ Known(r0)
  BY DEF OneInv, Works, Late, Knows, Sure, Typed, Working
<1>2. /\ \A s \in Rollouts :
           /\ Known(s)' <=> Known(s)
           /\ rollouts'[s].devices = rollouts[s].devices
           /\ rollouts'[s].archive = rollouts[s].archive
           /\ s # r0 => rollouts'[s] = rollouts[s]
           /\ s = r0 => rollouts'[s].status = status
      /\ Born'
  BY <1>1, StatusKnown
<1>3. Alone'
  BY StaysCalm DEF OneInv, Alone
<1>4. Knows'
  BY <1>2, WorksKnows
<1>5. \A d \in Devices : Calm(d)' => Calm(d)
  BY StaysCalm DEF OneInv
<1>6. \A p \in Requests : pc'[p] # "idle" =>
        pc[p] # "idle" /\ job'[p].rollout = job[p].rollout /\ job'[p].new = job[p].new
  BY DEF Works, Late
<1>7. Same'
  <2> SUFFICES ASSUME NEW p \in Requests, NEW d \in Devices, Calm(d)', pc'[p] # "idle",
                      Known(job[p].rollout)'
               PROVE  (d \in rollouts[job[p].rollout].devices <=> d \in job[p].new.devices)'
    BY DEF Same
  <2>1. pc[p] # "idle" /\ job'[p].rollout = job[p].rollout /\ job'[p].new = job[p].new
    BY <1>6
  <2>2. job[p].rollout \in Rollouts
    BY <2>1 DEF OneInv, Typed, Working
  <2>3. Known(job[p].rollout) /\ rollouts'[job[p].rollout].devices = rollouts[job[p].rollout].devices
    BY <1>2, <2>1, <2>2 DEF Known
  <2> QED
    BY <1>5, <2>1, <2>2, <2>3 DEF OneInv, Same
<1>8. \A d \in Devices :
        Calm(d) /\ d \in rollouts[r0].devices => d \in job[q].new.devices /\ Checked(q, d)
  BY <1>1 DEF OneInv, Same, Checked, Works, Late
<1>9. Free'
  <2> SUFFICES ASSUME NEW p \in Requests, NEW d \in Devices, Calm(d)', Checked(p, d)',
                      NEW r \in Rollouts \ {job'[p].rollout}, Active(r)'
               PROVE  d \notin rollouts'[r].devices
    BY DEF Free
  <2>1. job'[p].rollout = job[p].rollout /\ Checked(p, d) /\ Calm(d)
    BY <1>5, <1>6 DEF Checked, Works, Late
  <2>2. CASE r # r0
    BY <1>2, <2>1, <2>2 DEF OneInv, Free, Active
  <2>3. CASE r = r0
    <3>1. p # q
      BY <2>1, <2>3
    <3>2. p \in Handling(d) /\ pc[q] # "idle"
      BY <2>1 DEF Checked, Handling, Works, Late
    <3>3. d \in rollouts[r0].devices => q \in Handling(d)
      BY <1>8, <2>1, <3>2 DEF Handling
    <3> QED
      BY <1>2, <2>1, <2>3, <3>1, <3>2, <3>3 DEF OneInv, Alone
  <2> QED
    BY <2>2, <2>3
<1>10. One'
  <2> SUFFICES ASSUME NEW d \in Devices, Calm(d)', NEW r \in Rollouts, NEW s \in Rollouts,
                      Active(r)', Active(s)', d \in rollouts'[r].devices \cap rollouts'[s].devices,
                      r # s
               PROVE  FALSE
    BY DEF One
  <2>1. Calm(d) /\ d \in rollouts[r].devices /\ d \in rollouts[s].devices
    BY <1>2, <1>5
  <2>2. CASE r # r0 /\ s # r0
    BY <1>2, <2>1, <2>2 DEF OneInv, One, Active
  <2>3. CASE r = r0
    BY <1>2, <1>8, <2>1, <2>3 DEF OneInv, Free, Active
  <2>4. CASE s = r0
    BY <1>2, <1>8, <2>1, <2>4 DEF OneInv, Free, Active
  <2> QED
    BY <2>2, <2>3, <2>4
<1> QED
  BY <1>3, <1>4, <1>7, <1>9, <1>10

\* A request that ends gives its rollout up.
LEMMA EndsKeeps ==
  ASSUME OneInv, Note, NEW q \in Requests, Ends(q), rollouts' = rollouts,
         UNCHANGED <<updates, doing, report>>,
         \A p \in Requests \ {q} : pc'[p] = pc[p] /\ job'[p] = job[p] /\ todo'[p] = todo[p]
  PROVE  (Knows /\ Alone /\ Same /\ Free /\ One)'
<1>1. pc'[q] = "idle" /\ job'[q].rollout = "none"
  BY DEF OneInv, Typed, TypeOK, Ends, Actors, NoJob
<1>2. Alone'
  BY StaysCalm DEF OneInv, Alone
<1>3. Sure'
  <2> SUFFICES ASSUME NEW p \in Requests, pc'[p] # "idle"
      PROVE (/\ job[p].new.status # "none"
             /\ pc[p] = "create" => ~Known(job[p].rollout)
             /\ pc[p] \notin {"check", "create"} => Known(job[p].rollout)
             /\ ~Known(job[p].rollout) =>
                   \A o \in Requests \ {p} : job[o].rollout # job[p].rollout)'
    BY DEF Sure
  <2>1. p # q /\ pc'[p] = pc[p] /\ job'[p] = job[p] /\ pc[p] # "idle"
    BY <1>1
  <2>2. job[p].rollout \in Rollouts /\ job[p].rollout # "none"
    BY <2>1 DEF OneInv, Typed, Working
  <2>3. Known(job[p].rollout)' <=> Known(job[p].rollout)
    BY <2>1 DEF Known
  <2>4. \A o \in Requests : job'[o].rollout \in {job[o].rollout, "none"}
    BY <1>1
  <2> QED
    BY <2>1, <2>2, <2>3, <2>4 DEF OneInv, Knows, Sure
<1>4. Born' /\ Told'
  BY DEF OneInv, Knows, Born, Told, Known
<1>5. \A r \in Rollouts : (Active(r)' => Active(r)) /\ (Known(r)' <=> Known(r))
  BY DEF Active, Known
<1>6. \A p \in Requests : pc'[p] # "idle" =>
        pc[p] # "idle" /\ job'[p].rollout = job[p].rollout /\ job'[p].new = job[p].new
  BY <1>1
<1>7. \A p \in Requests, d \in Devices : Checked(p, d)' => Checked(p, d)
  BY <1>1 DEF Checked
<1>8. Same' /\ Free' /\ One'
  BY <1>5, <1>6, <1>7, MildKeeps
<1> QED
  BY <1>2, <1>3, <1>4, <1>8 DEF Knows

\* A request that begins has checked nothing; it plays a rollout that is known, or makes
\* one nobody else is making.
LEMMA BeginsKeeps ==
  ASSUME OneInv, Note, NEW q \in Requests, NEW r0 \in Rollouts, NEW new,
         pc'[q] = "check", job'[q].rollout = r0, job'[q].new = new, todo'[q] = new.devices,
         new.status # "none", rollouts' = rollouts, UNCHANGED <<updates, doing, report>>,
         \/ Known(r0) /\ new = rollouts[r0]
         \/ ~Known(r0) /\ \A p \in Requests : job[p].rollout # r0,
         \A p \in Requests \ {q} : pc'[p] = pc[p] /\ job'[p] = job[p] /\ todo'[p] = todo[p]
  PROVE  (Knows /\ Alone /\ Same /\ Free /\ One)'
<1>1. Alone'
  BY StaysCalm DEF OneInv, Alone
<1>2. \A d \in Devices : Calm(d)' => Calm(d)
  BY StaysCalm DEF OneInv
<1>3. Sure'
  <2> SUFFICES ASSUME NEW p \in Requests, pc'[p] # "idle"
      PROVE (/\ job[p].new.status # "none"
             /\ pc[p] = "create" => ~Known(job[p].rollout)
             /\ pc[p] \notin {"check", "create"} => Known(job[p].rollout)
             /\ ~Known(job[p].rollout) =>
                   \A o \in Requests \ {p} : job[o].rollout # job[p].rollout)'
    BY DEF Sure
  <2>1. CASE p = q
    BY <2>1 DEF Known
  <2>2. CASE p # q
    <3>1. pc'[p] = pc[p] /\ job'[p] = job[p] /\ pc[p] # "idle"
      BY <2>2
    <3>2. Known(job[p].rollout)' <=> Known(job[p].rollout)
      BY <3>1 DEF Known
    <3>3. ~Known(job[p].rollout) => job[p].rollout # r0
      BY <2>2
    <3>4. \A o \in Requests : job'[o].rollout \in {job[o].rollout, r0}
      OBVIOUS
    <3> QED
      BY <3>1, <3>2, <3>3, <3>4 DEF OneInv, Knows, Sure
  <2> QED
    BY <2>1, <2>2
<1>4. Born' /\ Told'
  BY DEF OneInv, Knows, Born, Told, Known
<1>5. Same'
  <2> SUFFICES ASSUME NEW p \in Requests, NEW d \in Devices, Calm(d)', pc'[p] # "idle",
                      Known(job[p].rollout)'
               PROVE  (d \in rollouts[job[p].rollout].devices <=> d \in job[p].new.devices)'
    BY DEF Same
  <2>1. CASE p = q
    BY <2>1 DEF Known
  <2>2. CASE p # q
    <3>1. pc'[p] = pc[p] /\ job'[p] = job[p] /\ pc[p] # "idle"
      BY <2>2
    <3>2. Known(job[p].rollout)
      BY <3>1 DEF Known
    <3> QED
      BY <1>2, <3>1, <3>2 DEF OneInv, Same
  <2> QED
    BY <2>1, <2>2
<1>6. Free'
  <2> SUFFICES ASSUME NEW p \in Requests, NEW d \in Devices, Calm(d)', Checked(p, d)',
                      NEW r \in Rollouts \ {job'[p].rollout}, Active(r)'
               PROVE  d \notin rollouts'[r].devices
    BY DEF Free
  <2>1. p # q
    BY DEF Checked
  <2>2. job'[p].rollout = job[p].rollout /\ Checked(p, d) /\ Active(r) /\ Calm(d)
    BY <1>2, <2>1 DEF Checked, Active
  <2> QED
    BY <2>2 DEF OneInv, Free
<1>7. One'
  BY <1>2 DEF OneInv, One, Active
<1> QED
  BY <1>1, <1>3, <1>4, <1>5, <1>6, <1>7 DEF Knows

\* A request that begins to play has checked nothing yet.
LEMMA PlaysKeeps ==
  ASSUME OneInv, Note, NEW q \in Requests, NEW r \in Rollouts, Plays(q, r)
  PROVE  (Knows /\ Alone /\ Same /\ Free /\ One)'
<1> USE DEF books, device
<1>1. \A p \in Requests \ {q} : pc'[p] = pc[p] /\ job'[p] = job[p] /\ todo'[p] = todo[p]
  BY OthersStay DEF OneInv, Request
<1>2. /\ pc \in [Actors -> Labels] /\ job \in [Requests -> Jobs] /\ q \in Actors
      /\ todo \in [Requests -> SUBSET Devices]
  BY DEF OneInv, Typed, TypeOK, Actors
<1>3. pc'[q] = "check" /\ todo'[q] = rollouts[r].devices
  BY <1>2 DEF Plays
<1>4. job'[q].rollout = r /\ job'[q].new = rollouts[r]
  BY <1>2, NullsTyped DEF Plays, Jobs
<1>5. rollouts[r].status # "none"
  BY DEF OneInv, Knows, Born, Plays
<1>6. rollouts' = rollouts /\ UNCHANGED <<updates, doing, report>>
  BY DEF Plays
<1> QED
  BY <1>1, <1>3, <1>4, <1>5, <1>6, BeginsKeeps DEF Known

\* Neither has one that begins to create or to clone.
LEMMA CreatesKeeps ==
  ASSUME OneInv, Note, NEW q \in Requests, NEW r \in Rollouts, NEW draft \in Drafts,
         Creates(q, r, draft)
  PROVE  (Knows /\ Alone /\ Same /\ Free /\ One)'
<1> USE DEF books, device
<1>1. \A p \in Requests \ {q} : pc'[p] = pc[p] /\ job'[p] = job[p] /\ todo'[p] = todo[p]
  BY OthersStay DEF OneInv, Request
<1>2. /\ pc \in [Actors -> Labels] /\ job \in [Requests -> Jobs] /\ q \in Actors
      /\ todo \in [Requests -> SUBSET Devices] /\ rollouts \in [Rollouts -> Documents]
  BY DEF OneInv, Typed, TypeOK, Actors
<1>3. pc'[q] = "check" /\ todo'[q] = draft.devices
  BY <1>2 DEF Creates
<1>4. job'[q].rollout = r /\ job'[q].new = draft
  BY <1>2, NullsTyped DEF Creates, Jobs
<1>5. draft.status # "none"
  <2>1. CASE draft \in [status : {"CREATED"}, devices : SUBSET Devices \ {{}}, archive : {FALSE}]
    BY <2>1
  <2>2. ASSUME NEW o \in Rollouts, draft = [rollouts[o] EXCEPT !.status = "CREATED"]
        PROVE  draft.status # "none"
    <3>1. rollouts[o] \in Documents
      BY <1>2
    <3> QED
      BY <2>2, <3>1 DEF Documents
  <2> QED
    BY <2>1, <2>2 DEF Drafts
<1>6. rollouts' = rollouts /\ UNCHANGED <<updates, doing, report>>
  BY DEF Creates
<1>7. ~Known(r) /\ \A p \in Requests : job[p].rollout # r
  BY DEF Creates, Known, NoRollout
<1> QED
  BY <1>1, <1>3, <1>4, <1>5, <1>6, <1>7, BeginsKeeps

\* A check refuses the request, or finds the device in no other active rollout.
LEMMA ChecksKeeps ==
  ASSUME OneInv, Note, NEW q \in Requests, NEW d0 \in Devices, Checks(q, d0)
  PROVE  (Knows /\ Alone /\ Same /\ Free /\ One)'
<1> DEFINE r0 == job[q].rollout
<1>1. \A p \in Requests \ {q} : pc'[p] = pc[p] /\ job'[p] = job[p] /\ todo'[p] = todo[p]
  BY OthersStay DEF OneInv, Request
<1>2. rollouts' = rollouts /\ UNCHANGED <<updates, doing, report>>
  BY DEF Checks, books, device
<1>3. CASE Ends(q)
  BY <1>1, <1>2, <1>3, EndsKeeps
<1>4. CASE ~Ends(q)
  <2>1. /\ pc \in [Actors -> Labels] /\ job \in [Requests -> Jobs] /\ q \in Actors
        /\ todo \in [Requests -> SUBSET Devices]
    BY DEF OneInv, Typed, TypeOK, Actors
  <2>2. pc[q] = "check" /\ job' = job /\ d0 \in todo[q]
        /\ ~InActive(d0, IF Creating(q) THEN {} ELSE {r0})
    BY <1>4 DEF Checks
  <2>3. \/ pc'[q] = "check" /\ todo'[q] = todo[q] \ {d0}
        \/ pc'[q] = "create" /\ Creating(q) /\ todo[q] = {d0}
        \/ pc'[q] = "prepare" /\ ~Creating(q) /\ todo[q] = {d0}
    BY <1>4, <2>1, <2>2 DEF Checks
  <2>4. r0 \in Rollouts
    BY <2>2 DEF OneInv, Typed, Working
  <2>5. \A r \in Rollouts \ {r0} : Active(r) => d0 \notin rollouts[r].devices
    BY <2>2 DEF InActive
  <2>6. Alone'
    BY StaysCalm DEF OneInv, Alone
  <2>7. \A d \in Devices : Calm(d)' => Calm(d)
    BY StaysCalm DEF OneInv
  <2>8. \A p \in Requests : pc'[p] # "idle" <=> pc[p] # "idle"
    BY <1>1, <2>2, <2>3
  <2>9. Sure'
    <3> SUFFICES ASSUME NEW p \in Requests, pc'[p] # "idle"
        PROVE (/\ job[p].new.status # "none"
               /\ pc[p] = "create" => ~Known(job[p].rollout)
               /\ pc[p] \notin {"check", "create"} => Known(job[p].rollout)
               /\ ~Known(job[p].rollout) =>
                     \A o \in Requests \ {p} : job[o].rollout # job[p].rollout)'
      BY DEF Sure
    <3>1. Known(job[p].rollout)' <=> Known(job[p].rollout)
      BY <1>2, <2>2 DEF Known
    <3>2. CASE p = q
      <4>1. Creating(q) => ~Known(r0)
        BY DEF Creating, Known, NoRollout
      <4>2. ~Creating(q) => Known(r0)
        BY <2>4 DEF Creating, Known, OneInv, Knows, Born
      <4> QED
        BY <2>2, <2>3, <3>1, <3>2, <4>1, <4>2 DEF OneInv, Knows, Sure
    <3>3. CASE p # q
      BY <1>1, <2>2, <2>8, <3>1, <3>3 DEF OneInv, Knows, Sure
    <3> QED
      BY <3>2, <3>3
  <2>10. Born' /\ Told'
    BY <1>2 DEF OneInv, Knows, Born, Told, Known
  <2>11. Same'
    BY <1>2, <2>2, <2>7, <2>8 DEF OneInv, Same, Known
  <2>12. Free'
    <3> SUFFICES ASSUME NEW p \in Requests, NEW d \in Devices, Calm(d)', Checked(p, d)',
                        NEW r \in Rollouts \ {job'[p].rollout}, Active(r)'
                 PROVE  d \notin rollouts'[r].devices
      BY DEF Free
    <3>1. Calm(d) /\ Active(r) /\ r \in Rollouts \ {job[p].rollout}
      BY <1>2, <2>2, <2>7 DEF Active
    <3>2. Checked(p, d) \/ (p = q /\ d = d0)
      BY <1>1, <2>2, <2>3 DEF Checked
    <3> QED
      BY <1>2, <2>5, <3>1, <3>2 DEF OneInv, Free
  <2>13. One'
    BY <1>2, <2>7 DEF OneInv, One, Active
  <2> QED
    BY <2>6, <2>9, <2>10, <2>11, <2>12, <2>13 DEF Knows
<1> QED
  BY <1>3, <1>4

\* A rollout that is made was nobody else's, and its calm devices are in no other one.
LEMMA InsertsKeeps ==
  ASSUME OneInv, Note, NEW q \in Requests, Inserts(q)
  PROVE  (Knows /\ Alone /\ Same /\ Free /\ One)'
<1> DEFINE r0 == job[q].rollout
<1>1. \A p \in Requests \ {q} : pc'[p] = pc[p] /\ job'[p] = job[p] /\ todo'[p] = todo[p]
  BY OthersStay DEF OneInv, Request
<1>2. pc[q] = "create" /\ UNCHANGED <<updates, doing, report>>
  BY DEF Inserts, device
<1>3. /\ r0 \in Rollouts /\ ~Known(r0) /\ job[q].new.status # "none"
      /\ \A p \in Requests \ {q} : job[p].rollout # r0
  BY <1>2 DEF OneInv, Typed, Working, Knows, Sure
<1>4. \A r \in Rollouts :
        /\ r # r0 => rollouts'[r] = rollouts[r]
        /\ r = r0 => rollouts'[r] = job[q].new
  BY DEF Inserts, OneInv, Typed, TypeOK
<1>5. pc'[q] = "idle" /\ job'[q].rollout = "none"
  BY DEF OneInv, Typed, TypeOK, Inserts, Ends, Actors, NoJob
<1>6. Alone'
  BY StaysCalm DEF OneInv, Alone
<1>7. \A d \in Devices : Calm(d)' => Calm(d)
  BY StaysCalm DEF OneInv
<1>8. \A r \in Rollouts : Known(r) => Known(r)'
  BY <1>3, <1>4 DEF Known
<1>9. Born'
  <2> SUFFICES ASSUME NEW r \in Rollouts, rollouts'[r].status = "none"
               PROVE  rollouts'[r] = NoRollout
    BY DEF Born
  <2>1. rollouts'[r] = rollouts[r]
    BY <1>3, <1>4
  <2> QED
    BY <2>1 DEF OneInv, Knows, Born
<1>10. Told'
  BY <1>2, <1>8 DEF OneInv, Knows, Told, Known
<1>11. \A p \in Requests : pc'[p] # "idle" =>
        /\ p # q /\ pc'[p] = pc[p] /\ job'[p] = job[p] /\ pc[p] # "idle"
        /\ job[p].rollout \in Rollouts \ {r0} /\ job[p].rollout # "none"
        /\ rollouts'[job[p].rollout] = rollouts[job[p].rollout]
  <2> SUFFICES ASSUME NEW p \in Requests, pc'[p] # "idle"
      PROVE  /\ p # q /\ pc'[p] = pc[p] /\ job'[p] = job[p] /\ pc[p] # "idle"
             /\ job[p].rollout \in Rollouts \ {r0} /\ job[p].rollout # "none"
             /\ rollouts'[job[p].rollout] = rollouts[job[p].rollout]
    OBVIOUS
  <2>1. p # q /\ pc'[p] = pc[p] /\ job'[p] = job[p] /\ pc[p] # "idle"
    BY <1>1, <1>5
  <2>2. job[p].rollout \in Rollouts
    BY <2>1 DEF OneInv, Typed, Working
  <2> QED
    BY <1>3, <1>4, <2>1, <2>2
<1>12. Sure'
  <2> SUFFICES ASSUME NEW p \in Requests, pc'[p] # "idle"
      PROVE (/\ job[p].new.status # "none"
             /\ pc[p] = "create" => ~Known(job[p].rollout)
             /\ pc[p] \notin {"check", "create"} => Known(job[p].rollout)
             /\ ~Known(job[p].rollout) =>
                   \A o \in Requests \ {p} : job[o].rollout # job[p].rollout)'
    BY DEF Sure
  <2>1. Known(job[p].rollout)' <=> Known(job[p].rollout)
    BY <1>11 DEF Known
  <2>2. \A o \in Requests : job'[o].rollout \in {job[o].rollout, "none"}
    BY <1>1, <1>5
  <2> QED
    BY <1>11, <2>1, <2>2 DEF OneInv, Knows, Sure
<1>13. Same'
  <2> SUFFICES ASSUME NEW p \in Requests, NEW d \in Devices, Calm(d)', pc'[p] # "idle",
                      Known(job[p].rollout)'
               PROVE  (d \in rollouts[job[p].rollout].devices <=> d \in job[p].new.devices)'
    BY DEF Same
  <2>1. Known(job[p].rollout)
    BY <1>11 DEF Known
  <2> QED
    BY <1>7, <1>11, <2>1 DEF OneInv, Same
<1>14. Free'
  <2> SUFFICES ASSUME NEW p \in Requests, NEW d \in Devices, Calm(d)', Checked(p, d)',
                      NEW r \in Rollouts \ {job'[p].rollout}, Active(r)',
                      d \in rollouts'[r].devices
               PROVE  FALSE
    BY DEF Free
  <2>1. p # q /\ job'[p] = job[p] /\ Checked(p, d) /\ Calm(d)
    BY <1>1, <1>7, <1>11 DEF Checked
  <2>2. CASE r # r0
    BY <1>4, <2>1, <2>2 DEF OneInv, Free, Active
  <2>3. CASE r = r0
    <3>1. p \in Handling(d) /\ q \in Handling(d)
      BY <1>2, <1>4, <2>1, <2>3 DEF Checked, Handling
    <3> QED
      BY <2>1, <3>1 DEF OneInv, Alone
  <2> QED
    BY <2>2, <2>3
<1>15. One'
  <2> SUFFICES ASSUME NEW d \in Devices, Calm(d)', NEW r \in Rollouts, NEW s \in Rollouts,
                      Active(r)', Active(s)', d \in rollouts'[r].devices \cap rollouts'[s].devices,
                      r # s
               PROVE  FALSE
    BY DEF One
  <2>1. d \in job[q].new.devices => Checked(q, d)
    BY <1>2 DEF Checked
  <2>2. CASE r # r0 /\ s # r0
    BY <1>4, <1>7, <2>2 DEF OneInv, One, Active
  <2>3. CASE r = r0
    BY <1>4, <1>7, <2>1, <2>3 DEF OneInv, Free, Active
  <2>4. CASE s = r0
    BY <1>4, <1>7, <2>1, <2>4 DEF OneInv, Free, Active
  <2> QED
    BY <2>2, <2>3, <2>4
<1> QED
  BY <1>6, <1>9, <1>10, <1>12, <1>13, <1>14, <1>15 DEF Knows

\* Every step of a request keeps the invariant,
LEMMA RequestKeeps ==
  ASSUME OneInv, Note, NEW q \in Requests, Request(q)
  PROVE  (Knows /\ Alone /\ Same /\ Free /\ One)'
<1>1. ASSUME NEW reached \in SUBSET Devices, TakesOut(q, reached)
      PROVE  (Knows /\ Alone /\ Same /\ Free /\ One)'
  <2>1. \A p \in Requests \ {q} : pc'[p] = pc[p] /\ job'[p] = job[p] /\ todo'[p] = todo[p]
    BY OthersStay DEF OneInv
  <2> QED
    BY <1>1, <2>1, EndsKeeps DEF TakesOut, device
<1>2. ASSUME (\E d \in Devices : Tells(q, d)) \/ InsertsStates(q) \/ FindsAgents(q) \/ Syncs(q)
      PROVE  (Knows /\ Alone /\ Same /\ Free /\ One)'
  <2>1. Works(q)
    BY <1>2, IsLate
  <2>2. rollouts' = rollouts
    BY <1>2 DEF Tells, InsertsStates, FindsAgents, Syncs, books
  <2> QED
    BY <2>1, <2>2, WorksKeeps
<1>3. CASE Prepares(q)
  <2>1. Works(q)
    BY <1>3, IsLate
  <2>2. CASE rollouts' = rollouts
    BY <2>1, <2>2, WorksKeeps
  <2>3. CASE rollouts' = [rollouts EXCEPT ![job[q].rollout].status = "PREPARE_ROLLOUT"]
    <3>1. "PREPARE_ROLLOUT" \in RolloutStatuses \ {"none"}
      BY DEF RolloutStatuses
    <3> QED
      BY <2>1, <2>3, <3>1, PlayingKeeps
  <2> QED
    BY <1>3, <2>2, <2>3 DEF Prepares, StatusSaved
<1>4. CASE Maps(q)
  <2>1. Works(q)
    BY <1>4, IsLate
  <2>2. "DEVICE_STATE_MAP_CREATED" \in RolloutStatuses \ {"none"}
    BY DEF RolloutStatuses
  <2>3. rollouts' = [rollouts EXCEPT ![job[q].rollout].status = "DEVICE_STATE_MAP_CREATED"]
    BY <1>4 DEF Maps
  <2> QED
    BY <2>1, <2>2, <2>3, PlayingKeeps
<1> QED
  BY <1>1, <1>2, <1>3, <1>4, PlaysKeeps, CreatesKeeps, ChecksKeeps, InsertsKeeps DEF Request

\* and so does every step.
LEMMA OneNext == OneInv /\ [Next]_vars => OneInv'
<1> SUFFICES ASSUME OneInv, [Next]_vars PROVE OneInv'
  OBVIOUS
<1>1. Typed'
  BY TypedNext DEF OneInv
<1>2. CASE UNCHANGED vars
  BY <1>1, <1>2 DEF vars, books, device, history, OneInv, Knows, Born, Told, Sure, Known, Alone,
    Calm, Handling, Same, Free, Checked, One, Active
<1>3. CASE Next
  BY <1>1, <1>3, RequestKeeps, AdminKeeps, DeviceKeeps DEF Next, OneInv
<1> QED
  BY <1>2, <1>3

\* No device is part of two active rollouts, whatever requests create, clone, play, edit
\* and archive them, unless its rollouts' devices were edited or it was in two hands at
\* once: the checks of createRollout and playRollout do for it.
THEOREM OneIsActive == SafeSpec => []OneActiveRollout
<1>1. OneInv => OneActiveRollout
  BY DEF OneInv, One, Calm, OneActiveRollout
<1> QED
  BY <1>1, OneInit, OneNext, PTL DEF SafeSpec

------------------------------------------------------------------------------
(* What a step leaves as it is *)

\* Nothing happened to a device that one of these oddities would name.
Clean(d, oddities) == odd[d] \cap oddities = {}

\* What is noted of a device that nobody else had in hand stays noted.
LEMMA StaysClean ==
  ASSUME Typed, Note, NEW d \in Devices, NEW oddities \in SUBSET Oddities,
         "raced" \in oddities, Clean(d, oddities)'
  PROVE  /\ Clean(d, oddities)
         /\ \A o \in oddities : ~Happens(d, o)
         /\ \A a, b \in InHand(d)' : a = b
<1> DEFINE all == odd[d] \cup {o \in Oddities : Happens(d, o)}
<1>1. odd'[d] = Kept(all)
  BY DEF Note
<1>2. "raced" \notin all
  BY <1>1 DEF Clean, Kept
<1>3. odd'[d] = all
  BY <1>1, <1>2 DEF Kept
<1>4. \A o \in oddities : ~Happens(d, o)
  BY <1>3 DEF Clean
<1>5. "raced" \in Oddities /\ ~Happens(d, "raced")
  BY <1>4
<1> QED
  BY <1>3, <1>4, <1>5 DEF Clean, Happens

\* A device whose report is handled is in no request's hands.
LEMMA InOneHand ==
  ASSUME Typed, Note, NEW d \in Devices, NEW oddities \in SUBSET Oddities,
         "raced" \in oddities, Clean(d, oddities)', pc'[d] # "idle"
  PROVE  \A q \in Requests : pc'[q] # "idle" => d \notin job'[q].new.devices
<1> SUFFICES ASSUME NEW q \in Requests, pc'[q] # "idle", d \in job'[q].new.devices
             PROVE  FALSE
  OBVIOUS
<1>1. q \in InHand(d)' /\ d \in InHand(d)' /\ q # d
  BY DEF InHand, Handling
<1> QED
  BY <1>1, StaysClean

\* Requests, edits and archiving leave the devices and their reports alone,
LEMMA DevicesStay ==
  ASSUME Typed, (\E q \in Requests : Request(q)) \/ \E r \in Rollouts : Admin(r)
  PROVE  /\ \A d \in Devices : pc'[d] = pc[d]
         /\ UNCHANGED <<report, doing, phase, completed>>
         /\ owed \subseteq owed'
<1> USE DEF Typed, TypeOK, books, device, history
<1>3. pc \in [Actors -> Labels] /\ \A d \in Devices : d \in Actors
  BY DEF Actors
<1>1. ASSUME NEW r \in Rollouts, Admin(r)
      PROVE  (\A d \in Devices : pc'[d] = pc[d]) /\ UNCHANGED <<report, doing, phase, completed, owed>>
  BY <1>1 DEF Admin, Archives, Edits
<1>2. ASSUME NEW q \in Requests, Request(q)
      PROVE  /\ \A d \in Devices : pc'[d] = pc[d]
             /\ UNCHANGED <<report, doing, phase, completed>> /\ owed \subseteq owed'
  <2>1. \A d \in Devices : d # q
    OBVIOUS
  <2>2. pc' = pc \/ \E label : pc' = [pc EXCEPT ![q] = label]
    BY <1>2 DEF Request, Plays, Creates, Checks, Tells, TakesOut, Inserts, Prepares,
                InsertsStates, Maps, FindsAgents, Syncs, Ends, Begins
  <2>3. UNCHANGED <<report, doing, phase, completed>> /\ owed \subseteq owed'
    BY <1>2 DEF Request, Plays, Creates, Checks, Tells, TakesOut, Inserts, Prepares,
                InsertsStates, Maps, FindsAgents, Syncs
  <2>4. \A d \in Devices : pc'[d] = pc[d]
    BY <1>3, <2>1, <2>2
  <2> QED
    BY <2>3, <2>4
<1> QED
  BY <1>1, <1>2

\* and a device leaves the others alone.
LEMMA OtherDevicesStay ==
  ASSUME Typed, NEW d \in Devices, Device(d), NEW b \in Devices \ {d}
  PROVE  /\ pc'[b] = pc[b] /\ report'[b] = report[b] /\ doing'[b] = doing[b]
         /\ updates'[b] = updates[b]
         /\ b \in out' <=> b \in out
         /\ \A r \in Rollouts : <<r, b>> \in owed' <=> <<r, b>> \in owed
         /\ \A r \in Rollouts : <<r, b>> \in completed' <=> <<r, b>> \in completed
<1> USE DEF Typed, TypeOK, books, device, history, Actors
<1>1. CASE Fetches(d) \/ Starts(d)
  BY <1>1 DEF Fetches, Starts
<1>2. ASSUME NEW e \in Events, Reports(d, e)
      PROVE  /\ pc'[b] = pc[b] /\ report'[b] = report[b] /\ doing'[b] = doing[b]
             /\ \A r \in Rollouts : <<r, b>> \in owed' <=> <<r, b>> \in owed
             /\ \A r \in Rollouts : <<r, b>> \in completed' <=> <<r, b>> \in completed
  <2>1. doing'[b] = doing[b] /\ pc'[b] = pc[b] /\ report'[b] = report[b]
    BY <1>2 DEF Reports
  <2>2. /\ owed' \in {owed, owed \ {<<doing[d], d>>}}
        /\ completed' \in {completed, completed \cup {<<doing[d], d>>}}
    BY <1>2 DEF Reports
  <2> QED
    BY <2>1, <2>2
<1>3. CASE ReportSaves(d) \/ Clears(d) \/ ReportCounts(d) \/ ReportEnds(d)
  BY <1>3 DEF ReportSaves, Clears, ReportCounts, ReportEnds
<1>4. ASSUME NEW ok \in BOOLEAN, ReportOperates(d, ok)
      PROVE  /\ pc'[b] = pc[b]
             /\ b \in out' <=> b \in out
             /\ UNCHANGED <<report, doing, updates, owed, completed>>
  BY <1>4 DEF ReportOperates
<1> QED
  BY <1>1, <1>2, <1>3, <1>4 DEF Device, Reports

------------------------------------------------------------------------------
(* How a request comes through its devices *)

SameJob(q) == job'[q].rollout = job[q].rollout /\ job'[q].new = job[q].new
Goes(q) ==
  \/ pc[q] \in {"check", "create", "takeOut"} /\ pc'[q] = "idle"
  \/ pc[q] = "idle" /\ pc'[q] = "check" /\ todo'[q] = job'[q].new.devices
  \/ /\ pc[q] = "check" /\ SameJob(q)
     /\ \/ pc'[q] = "check" /\ todo'[q] \subseteq todo[q]
        \/ pc'[q] \in {"create", "prepare"} /\ todo'[q] = job[q].new.devices
  \/ /\ pc[q] \in {"prepare", "insert", "map", "agents"} /\ SameJob(q)
     /\ pc'[q] \in {"insert", "map", "agents", "tell"} /\ todo'[q] = todo[q]
     /\ pc'[q] = "tell" => job'[q].agents = updates /\ FindsAgents(q)
  \/ /\ pc[q] = "tell" /\ pc'[q] = "sync" /\ SameJob(q) /\ todo'[q] = todo[q]
     /\ job'[q].agents = job[q].agents
     /\ job'[q].current \in todo[q] /\ <<job[q].rollout, job'[q].current>> \in owed'
  \/ /\ pc[q] = "sync" /\ SameJob(q) /\ todo'[q] = todo[q] \ {job[q].current}
     /\ job'[q].agents = job[q].agents
     /\ pc'[q] = IF todo'[q] = {} THEN "takeOut" ELSE "tell"

\* The steps of a request take it from one await to the next,
LEMMA RequestGoes ==
  ASSUME Typed, NEW q \in Requests, Request(q)
  PROVE  Goes(q)
<1>1. /\ pc \in [Actors -> Labels] /\ job \in [Requests -> Jobs] /\ job[q] \in Jobs
      /\ todo \in [Requests -> SUBSET Devices] /\ q \in Actors
  BY DEF Typed, TypeOK, Actors
<1>2. ASSUME NEW r \in Rollouts, Plays(q, r) PROVE Goes(q)
  <2>1. pc[q] = "idle" /\ pc'[q] = "check" /\ todo'[q] = rollouts[r].devices
    BY <1>1, <1>2 DEF Plays, Begins
  <2>2. job'[q].new = rollouts[r]
    BY <1>1, <1>2, NullsTyped DEF Plays, Jobs
  <2> QED
    BY <2>1, <2>2 DEF Goes
<1>3. ASSUME NEW r \in Rollouts, NEW draft \in Drafts, Creates(q, r, draft) PROVE Goes(q)
  <2>1. pc[q] = "idle" /\ pc'[q] = "check" /\ todo'[q] = draft.devices
    BY <1>1, <1>3 DEF Creates, Begins
  <2>2. job'[q].new = draft
    BY <1>1, <1>3, NullsTyped DEF Creates, Jobs
  <2> QED
    BY <2>1, <2>2 DEF Goes
<1>4. ASSUME NEW d \in Devices, Checks(q, d) PROVE Goes(q)
  <2>1. CASE Ends(q)
    BY <1>1, <1>4, <2>1 DEF Checks, Ends, Goes
  <2>2. CASE ~Ends(q)
    <3>1. pc[q] = "check" /\ job' = job
      BY <1>4, <2>2 DEF Checks
    <3>2. \/ pc'[q] = "check" /\ todo'[q] = todo[q] \ {d}
          \/ pc'[q] \in {"create", "prepare"} /\ todo'[q] = job[q].new.devices
      BY <1>1, <1>4, <2>2, <3>1 DEF Checks
    <3> QED
      BY <3>1, <3>2 DEF Goes, SameJob
  <2> QED
    BY <2>1, <2>2
<1>5. ASSUME Inserts(q) \/ \E reached \in SUBSET Devices : TakesOut(q, reached) PROVE Goes(q)
  BY <1>1, <1>5 DEF Inserts, TakesOut, Ends, Goes
<1>6. CASE Prepares(q) \/ InsertsStates(q) \/ Maps(q)
  BY <1>1, <1>6 DEF Prepares, InsertsStates, Maps, Goes, SameJob
<1>7. CASE FindsAgents(q)
  <2>1. SameJob(q) /\ job'[q].agents = updates
    BY <1>1, <1>7 DEF FindsAgents, SameJob, Jobs
  <2> QED
    BY <1>1, <1>7, <2>1 DEF FindsAgents, Goes
<1>8. ASSUME NEW d \in Devices, Tells(q, d) PROVE Goes(q)
  <2>1. SameJob(q) /\ job'[q].current = d /\ job'[q].agents = job[q].agents
    BY <1>1, <1>8 DEF Tells, SameJob, Jobs
  <2>2. pc[q] = "tell" /\ pc'[q] = "sync" /\ todo'[q] = todo[q] /\ d \in todo[q]
        /\ <<job[q].rollout, d>> \in owed'
    BY <1>1, <1>8 DEF Tells
  <2> QED
    BY <2>1, <2>2 DEF Goes
<1>9. CASE Syncs(q)
  <2>1. SameJob(q) /\ job'[q].agents = job[q].agents
    BY <1>1, <1>9 DEF Syncs, SameJob, Jobs
  <2>2. /\ pc[q] = "sync" /\ todo'[q] = todo[q] \ {job[q].current}
        /\ pc'[q] = IF todo'[q] = {} THEN "takeOut" ELSE "tell"
    BY <1>1, <1>9 DEF Syncs
  <2> QED
    BY <2>1, <2>2 DEF Goes
<1> QED
  BY <1>2, <1>3, <1>4, <1>5, <1>6, <1>7, <1>8, <1>9 DEF Request

\* and in every step each request goes on or stays where it is.
LEMMA EachGoes ==
  ASSUME Typed, Next, NEW q \in Requests
  PROVE  Goes(q) \/ (pc'[q] = pc[q] /\ job'[q] = job[q] /\ todo'[q] = todo[q])
<1>1. ASSUME NEW p \in Requests, Request(p)
      PROVE  Goes(q) \/ (pc'[q] = pc[q] /\ job'[q] = job[q] /\ todo'[q] = todo[q])
  BY <1>1, RequestGoes, OthersStay
<1>2. ASSUME (\E r \in Rollouts : Admin(r)) \/ \E d \in Devices : Device(d)
      PROVE  pc'[q] = pc[q] /\ job'[q] = job[q] /\ todo'[q] = todo[q]
  BY <1>2, RequestsStay
<1> QED
  BY <1>1, <1>2 DEF Next

\* A request has all its devices before it when it begins to tell them, and none when it
\* is through.
Todos ==
  \A q \in Requests :
    /\ pc[q] \in {"create", "prepare", "insert", "map", "agents"} => todo[q] = job[q].new.devices
    /\ pc[q] # "idle" => todo[q] \subseteq job[q].new.devices
    /\ pc[q] = "takeOut" => todo[q] = {}

\* It does in every state.
LEMMA TodosNext ==
  ASSUME Typed, Todos, Next
  PROVE  Todos'
<1> SUFFICES ASSUME NEW q \in Requests
    PROVE (/\ pc[q] \in {"create", "prepare", "insert", "map", "agents"}
                => todo[q] = job[q].new.devices
           /\ pc[q] # "idle" => todo[q] \subseteq job[q].new.devices
           /\ pc[q] = "takeOut" => todo[q] = {})'
  BY DEF Todos
<1>1. CASE Goes(q)
  BY <1>1 DEF Goes, SameJob, Todos
<1>2. CASE pc'[q] = pc[q] /\ job'[q] = job[q] /\ todo'[q] = todo[q]
  BY <1>2 DEF Todos
<1> QED
  BY <1>1, <1>2, EachGoes

\* A device that a request has told.
ToldBy(q, d) ==
  /\ pc[q] \in {"tell", "sync", "takeOut"} /\ d \in job[q].new.devices
  /\ d \notin todo[q] \/ (pc[q] = "sync" /\ d = job[q].current)

\* A device that was told was told before, or is told in this step and owes the rollout.
LEMMA ToldBefore ==
  ASSUME Typed, Todos, Next, NEW q \in Requests, NEW d \in Devices, ToldBy(q, d)'
  PROVE  /\ job'[q].rollout = job[q].rollout
         /\ ToldBy(q, d) \/ <<job[q].rollout, d>> \in owed'
<1>1. CASE Goes(q)
  <2>1. SameJob(q) /\ pc[q] \in {"prepare", "insert", "map", "agents", "tell", "sync"}
    BY <1>1 DEF Goes, ToldBy
  <2>2. CASE pc[q] \in {"prepare", "insert", "map", "agents"}
    BY <1>1, <2>1, <2>2 DEF Goes, ToldBy, Todos, SameJob
  <2>3. CASE pc[q] = "tell"
    BY <1>1, <2>1, <2>3 DEF Goes, ToldBy, SameJob
  <2>4. CASE pc[q] = "sync"
    BY <1>1, <2>1, <2>4 DEF Goes, ToldBy, SameJob
  <2> QED
    BY <2>1, <2>2, <2>3, <2>4 DEF SameJob
<1>2. CASE pc'[q] = pc[q] /\ job'[q] = job[q] /\ todo'[q] = todo[q]
  BY <1>2 DEF ToldBy
<1> QED
  BY <1>1, <1>2, EachGoes

------------------------------------------------------------------------------
(* Chargers come back into operation. A charger is taken out by a request that told its  *)
(* device, which owes the rollout from then on; the report that ends what is owed has    *)
(* the charger in hand until it is back.                                                 *)

\* Of a device that is told no archived rollout is under way.
Marked ==
  \A d \in Devices : Clean(d, {"raced", "archived"}) =>
    \A r \in Rollouts : rollouts[r].archive => d \notin rollouts[r].devices /\ doing[d] # r
ToldOwes ==
  \A q \in Requests, d \in Devices :
    ToldBy(q, d) /\ Clean(d, {"raced", "archived"}) => <<job[q].rollout, d>> \in owed
Restores(d) == pc[d] \in {"state", "record", "operate"} /\ report[d].event \in Ended
InService ==
  \A d \in out :
    Clean(d, {"raced", "archived", "unreached"}) =>
      (\E r \in Rollouts : <<r, d>> \in owed) \/ Restores(d)
ServiceInv == Typed /\ Todos /\ Marked /\ ToldOwes /\ InService

\* Every step notes what is archived.
LEMMA MarkedNext ==
  ASSUME Typed, Note
  PROVE  Marked'
<1> SUFFICES ASSUME NEW d \in Devices, Clean(d, {"raced", "archived"})',
                    NEW r \in Rollouts, rollouts'[r].archive
             PROVE  d \notin rollouts'[r].devices /\ doing'[d] # r
  BY DEF Marked
<1>1. ~Happens(d, "archived")
  BY StaysClean DEF Oddities
<1> QED
  BY <1>1 DEF Happens

\* The report of a device that is clean is handled, while no request has the device.
LEMMA ReportHandled ==
  ASSUME Typed, Marked, Note, NEW d \in Devices, NEW e \in Events, Reports(d, e),
         Clean(d, {"raced", "archived"})'
  PROVE  /\ pc[d] = "idle" /\ pc'[d] = "state" /\ doing[d] \in Rollouts
         /\ report'[d] = [NoReport EXCEPT
              !.rollout = doing[d], !.event = e, !.seen = rollouts[doing[d]].status,
              !.size = Cardinality(rollouts[doing[d]].devices),
              !.clears = CASE e = "COMPLETED" -> 1 [] e = "FAILED" -> 2 [] OTHER -> 0]
         /\ report'[d].rollout = doing[d] /\ report'[d].event = e
         /\ \A q \in Requests : pc'[q] # "idle" => d \notin job'[q].new.devices
<1>1. Clean(d, {"raced", "archived"})
  BY StaysClean DEF Oddities
<1>2. /\ doing[d] \in Rollouts /\ pc \in [Actors -> Labels] /\ d \in Actors
      /\ report \in [Devices -> Handled]
  BY DEF Reports, UnderWay, Typed, TypeOK, Actors
<1>3. ~rollouts[doing[d]].archive
  BY <1>1, <1>2 DEF Marked
<1>4. pc[d] = "idle" /\ pc'[d] = "state"
  BY <1>2, <1>3 DEF Reports, Begins
<1> DEFINE h == [NoReport EXCEPT !.rollout = doing[d], !.event = e, !.seen = rollouts[doing[d]].status,
                   !.size = Cardinality(rollouts[doing[d]].devices),
                   !.clears = CASE e = "COMPLETED" -> 1 [] e = "FAILED" -> 2 [] OTHER -> 0]
<1>5. report'[d] = h
  BY <1>2, <1>3 DEF Reports
<1>6. h.rollout = doing[d] /\ h.event = e
  BY NullsTyped DEF Handled
<1>7. \A q \in Requests : pc'[q] # "idle" => d \notin job'[q].new.devices
  BY <1>4, InOneHand DEF Oddities
<1> HIDE DEF h
<1>8. report'[d].rollout = doing[d] /\ report'[d].event = e
  BY <1>5, <1>6
<1> QED
  BY <1>2, <1>4, <1>5, <1>7, <1>8 DEF h

\* What is owed is owed until the device reports the end of it.
LEMMA OwedUntilReported ==
  ASSUME Typed, Next, NEW r \in Rollouts, NEW d \in Devices, <<r, d>> \in owed, <<r, d>> \notin owed'
  PROVE  \E e \in Events \cap Ended : Reports(d, e) /\ doing[d] = r
<1>1. PICK b \in Devices : Device(b)
  BY DevicesStay DEF Next
<1>2. b = d
  BY <1>1, OtherDevicesStay
<1>3. PICK e \in Events : Reports(d, e)
  BY <1>1, <1>2 DEF Device, Fetches, Starts, ReportSaves, Clears, ReportCounts, ReportEnds,
    ReportOperates, history
<1> QED
  BY <1>3 DEF Reports

\* What a request told is owed as long as it works on the device.
LEMMA ToldOwesNext ==
  ASSUME Typed, Todos, Marked, ToldOwes, Next
  PROVE  ToldOwes'
<1> SUFFICES ASSUME NEW q \in Requests, NEW d \in Devices, ToldBy(q, d)',
                    Clean(d, {"raced", "archived"})', <<job'[q].rollout, d>> \notin owed'
             PROVE  FALSE
  BY DEF ToldOwes
<1>1. Note /\ Clean(d, {"raced", "archived"})
  BY StaysClean DEF Next, Oddities
<1>2. job'[q].rollout = job[q].rollout /\ ToldBy(q, d)
  BY ToldBefore
<1>3. job[q].rollout \in Rollouts /\ <<job[q].rollout, d>> \in owed
  BY <1>1, <1>2 DEF ToldOwes, ToldBy, Typed, Working
<1>4. PICK e \in Events : Reports(d, e)
  BY <1>2, <1>3, OwedUntilReported
<1>5. \A p \in Requests : pc'[p] # "idle" => d \notin job'[p].new.devices
  BY <1>1, <1>4, ReportHandled
<1> QED
  BY <1>5 DEF ToldBy

\* A charger is taken out of operation for what its device owes, and is back when the
\* report of the end is through.
LEMMA InServiceNext ==
  ASSUME ServiceInv, Next, ToldOwes'
  PROVE  InService'
<1> SUFFICES ASSUME NEW d \in out', Clean(d, {"raced", "archived", "unreached"})',
                    \A r \in Rollouts : <<r, d>> \notin owed'
             PROVE  Restores(d)'
  BY DEF InService
<1>1. Typed /\ Note /\ Typed'
  BY TypedNext DEF ServiceInv, Next
<1>2. d \in Devices
  BY <1>1 DEF Typed, TypeOK
<1>3. /\ Clean(d, {"raced", "archived", "unreached"}) /\ ~Happens(d, "unreached")
      /\ Clean(d, {"raced", "archived"}) /\ Clean(d, {"raced", "archived"})'
  <2>1. {"raced", "archived", "unreached"} \in SUBSET Oddities
    BY DEF Oddities
  <2>2. Clean(d, {"raced", "archived", "unreached"}) /\ ~Happens(d, "unreached")
    BY <1>1, <1>2, <2>1, StaysClean
  <2> QED
    BY <2>2 DEF Clean
<1>4. d \in out
  <2>1. ASSUME d \notin out PROVE \E q \in Requests, reached \in SUBSET Devices : TakesOut(q, reached)
    <3>1. CASE \E q \in Requests : Request(q)
      BY <1>2, <2>1, <3>1 DEF Request, Plays, Creates, Checks, Tells, Inserts, Prepares,
         InsertsStates, Maps, FindsAgents, Syncs, books
    <3>2. CASE (\E r \in Rollouts : Admin(r)) \/ \E b \in Devices : Device(b)
      BY <1>2, <2>1, <3>2 DEF Admin, Archives, Edits, Device, Fetches, Starts, Reports,
         ReportSaves, Clears, ReportCounts, ReportEnds, ReportOperates, books
    <3> QED
      BY <3>1, <3>2 DEF Next
  <2>2. ASSUME NEW q \in Requests, NEW reached \in SUBSET Devices, TakesOut(q, reached), d \in reached
        PROVE  FALSE
    <3>1. ToldBy(q, d)
      BY <2>2 DEF TakesOut, ToldBy, ServiceInv, Todos
    <3>2. <<job[q].rollout, d>> \in owed /\ job[q].rollout \in Rollouts
      BY <1>2, <1>3, <3>1 DEF ServiceInv, ToldOwes, ToldBy, Typed, Working
    <3>3. owed' = owed
      BY <2>2 DEF TakesOut, history
    <3> QED
      BY <3>2, <3>3
  <2> QED
    BY <2>1, <2>2 DEF TakesOut
<1>5. (\E r \in Rollouts : <<r, d>> \in owed) \/ Restores(d)
  BY <1>3, <1>4 DEF ServiceInv, InService
<1>6. CASE \E r \in Rollouts : <<r, d>> \in owed
  <2>1. PICK e \in Events \cap Ended : Reports(d, e)
    BY <1>1, <1>2, <1>6, OwedUntilReported
  <2>2. pc'[d] = "state" /\ report'[d].event = e
    BY <1>1, <1>2, <1>3, <2>1, ReportHandled DEF ServiceInv
  <2> QED
    BY <2>1, <2>2 DEF Restores
<1>7. CASE Restores(d)
  <2>1. CASE pc'[d] = pc[d] /\ report'[d] = report[d]
    BY <1>7, <2>1 DEF Restores
  <2>2. CASE Device(d)
    <3>1. pc \in [Actors -> Labels] /\ d \in Actors /\ report \in [Devices -> Handled] /\ report[d] \in Handled
      BY <1>1, <1>2 DEF Typed, TypeOK, Actors
    <3>2. CASE Fetches(d) \/ Starts(d)
      BY <2>1, <3>2 DEF Fetches, Starts, books
    <3>3. ASSUME NEW e \in Events, Reports(d, e) PROVE FALSE
      BY <1>7, <3>3 DEF Reports, Begins, Restores
    <3>4. CASE ReportSaves(d)
      BY <1>7, <3>1, <3>4 DEF ReportSaves, Restores
    <3>5. CASE Clears(d)
      <4>1. pc'[d] \in {"record", "operate"}
        BY <3>1, <3>5 DEF Clears
      <4>2. report'[d].event = report[d].event
        BY <3>1, <3>5 DEF Clears, Handled
      <4> QED
        BY <1>7, <4>1, <4>2 DEF Restores
    <3>6. ASSUME NEW ok \in BOOLEAN, ReportOperates(d, ok) PROVE FALSE
      <4>1. CASE ok
        BY <1>7, <3>6, <4>1 DEF ReportOperates, Operates, Restores
      <4>2. CASE ~ok
        <5>1. spent \in Nat /\ spent' = spent + 1
          BY <1>1, <3>6, <4>2 DEF ReportOperates, Spends, Typed, TypeOK
        <5> QED
          BY <1>3, <3>6, <5>1 DEF Happens, ReportOperates
      <4> QED
        BY <4>1, <4>2
    <3>7. ~ReportCounts(d) /\ ~ReportEnds(d)
      BY <1>7 DEF ReportCounts, ReportEnds, Restores
    <3> QED
      BY <2>2, <3>2, <3>3, <3>4, <3>5, <3>6, <3>7 DEF Device
  <2> QED
    BY <1>1, <1>2, <2>1, <2>2, DevicesStay, OtherDevicesStay DEF Next
<1> QED
  BY <1>5, <1>6, <1>7

\* The invariant holds at first: nothing is out of operation.
LEMMA ServiceInit == Init => ServiceInv
<1> SUFFICES ASSUME Init PROVE ServiceInv
  OBVIOUS
<1>1. \A a \in Actors : pc[a] = "idle"
  BY DEF Init
<1>2. \A r \in Rollouts : rollouts[r].archive = FALSE
  BY DEF Init, NoRollout
<1> QED
  BY <1>1, <1>2, InitTyped DEF Init, ServiceInv, Todos, Marked, ToldOwes, ToldBy, InService, Actors

\* Every step keeps it.
LEMMA ServiceNext == ServiceInv /\ [Next]_vars => ServiceInv'
<1> SUFFICES ASSUME ServiceInv, [Next]_vars PROVE ServiceInv'
  OBVIOUS
<1>1. Typed'
  BY TypedNext DEF ServiceInv
<1>2. CASE Next
  BY <1>1, <1>2, TodosNext, MarkedNext, ToldOwesNext, InServiceNext DEF ServiceInv, Next
<1>3. CASE UNCHANGED vars
  BY <1>1, <1>3 DEF vars, books, device, history, ServiceInv, Todos, Marked, Clean, ToldOwes,
    ToldBy, InService, Restores
<1> QED
  BY <1>2, <1>3

\* A charger that nobody has in hand is out of operation only for what its device owes,
\* unless a rollout was archived, two had the device in hand at once, or the command to
\* put it back did not reach it: sendEventToCharger is called at every end.
THEOREM ChargersComeBack == SafeSpec => []BackInService
<1>1. ServiceInv => BackInService
  <2> SUFFICES ASSUME ServiceInv, NEW d \in out, Idle(d),
                      Clean(d, {"raced", "archived", "unreached"})
               PROVE  \E r \in Rollouts : <<r, d>> \in owed
    BY DEF BackInService, Clean
  <2>1. pc[d] = "idle"
    BY DEF Idle, InHand
  <2> QED
    BY <2>1 DEF ServiceInv, InService, Restores
<1> QED
  BY <1>1, ServiceInit, ServiceNext, PTL DEF SafeSpec

------------------------------------------------------------------------------
(* What a device owes it is told of. While a request tells a device, nobody else writes   *)
(* its record; and a device owes one rollout at a time, as it is part of one that is      *)
(* active.                                                                                *)

Ordinary(d) == Clean(d, {"untold", "raced", "edited", "archived", "overtaken"})
Settled(d) == Clean(d, {"raced", "archived"})
\* The handler of the report that ends an installation is about to clear the record.
Ending(d) == pc[d] = "record" \/ (pc[d] = "state" /\ report[d].event \in Ended)
\* A device that a request has found the record of and did not come to yet.
Ahead(q, d) ==
  /\ pc[q] \in {"tell", "sync"} /\ d \in todo[q]
  /\ pc[q] = "sync" => d # job[q].current

OwedKnown == \A r \in Rollouts, d \in Devices : <<r, d>> \in owed => Known(r)
OwedPart ==
  \A r \in Rollouts, d \in Devices : Calm(d) /\ <<r, d>> \in owed => d \in rollouts[r].devices
Overdue ==
  \A r \in Rollouts, d \in Devices :
    Clean(d, {"raced", "overtaken"}) /\ <<r, d>> \in owed => rollouts[r].status # "COMPLETED"
\* What is announced, installed or reported on is owed.
AnnouncedOwes ==
  \A d \in Devices : Settled(d) =>
    /\ updates[d] \in Rollouts => <<updates[d], d>> \in owed \/ Ending(d)
    /\ doing[d] \in Rollouts => <<doing[d], d>> \in owed
    /\ pc[d] # "idle" /\ report[d].event \notin Ended => <<report[d].rollout, d>> \in owed
FoundStill ==
  \A q \in Requests, d \in Devices :
    Ordinary(d) /\ Ahead(q, d) => job[q].agents[d] = updates[d] /\ updates[d] # "absent"
OwedTold ==
  \A r \in Rollouts, d \in Devices :
    Ordinary(d) /\ <<r, d>> \in owed => (updates[d] = r \/ doing[d] = r) /\ ~Ending(d)
OneOwed ==
  \A d \in Devices : Ordinary(d) =>
    \A r, s \in Rollouts : <<r, d>> \in owed /\ <<s, d>> \in owed => r = s
OwesInv == OneInv /\ Todos /\ Marked /\ Overdue /\ OwedKnown /\ OwedPart /\ AnnouncedOwes
ToldInv == OwesInv /\ FoundStill /\ OwedTold

\* A device comes to owe a rollout by being told of it.
LEMMA OwedByTelling ==
  ASSUME Next, NEW r, NEW d, <<r, d>> \in owed', <<r, d>> \notin owed
  PROVE  \E q \in Requests : Tells(q, d) /\ d \in Devices /\ r = job[q].rollout
<1>1. CASE \E q \in Requests : Request(q)
  <2>1. PICK q \in Requests : Request(q)
    BY <1>1
  <2>2. PICK b \in Devices : Tells(q, b)
    BY <2>1 DEF Request, Plays, Creates, Checks, TakesOut, Inserts, Prepares, InsertsStates, Maps,
      FindsAgents, Syncs, history
  <2>3. owed' = owed \cup {<<job[q].rollout, b>>}
    BY <2>2 DEF Tells
  <2> QED
    BY <2>2, <2>3
<1>2. CASE \E r2 \in Rollouts : Admin(r2)
  BY <1>2 DEF Admin, Archives, Edits, history
<1>3. CASE \E b \in Devices : Device(b)
  BY <1>3 DEF Device, Fetches, Starts, Reports, ReportSaves, Clears, ReportCounts, ReportEnds,
    ReportOperates, history
<1> QED
  BY <1>1, <1>2, <1>3 DEF Next

\* Of the requests, the one that tells a device writes its record,
LEMMA RecordTold ==
  ASSUME Typed, (\E q \in Requests : Request(q)) \/ (\E r \in Rollouts : Admin(r)),
         NEW d \in Devices, updates'[d] # updates[d]
  PROVE  \E q \in Requests : Tells(q, d) /\ updates'[d] = job[q].rollout
<1>1. PICK q \in Requests : Request(q)
  BY DEF Admin, Archives, Edits
<1>2. PICK b \in Devices : Tells(q, b)
  BY <1>1 DEF Request, Plays, Creates, Checks, TakesOut, Inserts, Prepares, InsertsStates, Maps,
    FindsAgents, Syncs, books
<1>3. updates' = [updates EXCEPT ![b] = job[q].rollout]
  BY <1>2 DEF Tells
<1> QED
  BY <1>2, <1>3 DEF Typed, TypeOK

\* and besides it the end of the device's report, or its first call.
LEMMA RecordWritten ==
  ASSUME Typed, Next, NEW d \in Devices, updates'[d] # updates[d]
  PROVE  \/ \E q \in Requests : Tells(q, d) /\ updates'[d] = job[q].rollout
         \/ Clears(d)
         \/ Fetches(d)
<1>1. ASSUME NEW b \in Devices, Device(b) PROVE Clears(d) \/ Fetches(d)
  <2>1. b = d
    BY <1>1, OtherDevicesStay
  <2> QED
    BY <1>1, <2>1 DEF Device, Starts, Reports, ReportSaves, ReportCounts, ReportEnds,
      ReportOperates, books
<1> QED
  BY <1>1, RecordTold DEF Next

\* A rollout that is known stays known.
LEMMA KnownStays ==
  ASSUME OneInv, Next, NEW r \in Rollouts, Known(r)
  PROVE  Known(r)'
<1>1. rollouts \in [Rollouts -> Documents]
  BY DEF OneInv, Typed, TypeOK
<1>2. ASSUME NEW q \in Requests, Request(q) PROVE Known(r)'
  <2>1. CASE Inserts(q)
    <3>1. ~Known(job[q].rollout)
      BY <2>1 DEF Inserts, OneInv, Knows, Sure
    <3> QED
      BY <1>1, <2>1, <3>1 DEF Inserts, Known
  <2>2. CASE Prepares(q) \/ Maps(q)
    BY <1>1, <2>2 DEF Prepares, Maps, StatusSaved, Known, Documents
  <2>3. CASE rollouts' = rollouts
    BY <2>3 DEF Known
  <2> QED
    BY <1>2, <2>1, <2>2, <2>3 DEF Request, Plays, Creates, Checks, Tells, TakesOut, InsertsStates,
      FindsAgents, Syncs, books
<1>3. ASSUME NEW s \in Rollouts, Admin(s) PROVE Known(r)'
  BY <1>1, <1>3 DEF Admin, Archives, Edits, Known, Documents
<1>4. ASSUME NEW b \in Devices, Device(b) PROVE Known(r)'
  <2>1. rollouts' = rollouts \/ rollouts' = [rollouts EXCEPT ![report[b].rollout].status = "COMPLETED"]
    BY <1>4 DEF Device, Fetches, Starts, Reports, ReportSaves, Clears, ReportCounts,
      ReportEnds, ReportOperates, StatusSaved, books
  <2> QED
    BY <1>1, <2>1 DEF Known, Documents
<1> QED
  BY <1>2, <1>3, <1>4 DEF Next

\* Who tells a device has it in hand, and its rollout is known.
LEMMA TellsPart ==
  ASSUME OneInv, Todos, NEW q \in Requests, NEW d \in Devices, Tells(q, d)
  PROVE  /\ job[q].rollout \in Rollouts /\ Known(job[q].rollout)
         /\ d \in job[q].new.devices /\ q \in Handling(d)'
         /\ pc'[q] = "sync" /\ job'[q].current = d /\ rollouts' = rollouts
         /\ Calm(d) => d \in rollouts[job[q].rollout].devices
<1>1. pc[q] = "tell" /\ d \in job[q].new.devices /\ rollouts' = rollouts
  BY DEF Tells, Todos
<1>2. job[q].rollout \in Rollouts /\ Known(job[q].rollout)
  BY <1>1 DEF OneInv, Typed, Working, Knows, Sure
<1>3. /\ pc \in [Actors -> Labels] /\ q \in Actors /\ job \in [Requests -> Jobs] /\ job[q] \in Jobs
  BY DEF OneInv, Typed, TypeOK, Actors
<1>4. pc'[q] = "sync" /\ job'[q].current = d /\ job'[q].new = job[q].new
  BY <1>3 DEF Tells, Jobs
<1>5. q \in Handling(d)'
  BY <1>1, <1>4 DEF Handling
<1> QED
  BY <1>1, <1>2, <1>4, <1>5 DEF OneInv, Same

\* What is owed is owed of a known rollout that the device is part of, unless edited,
LEMMA OwedKnownNext ==
  ASSUME OneInv, Todos, OwedKnown, OwedPart, Next
  PROVE  OwedKnown' /\ OwedPart'
<1>1. Typed /\ Note /\ \A r \in Rollouts : Known(r) => Known(r)'
  BY KnownStays DEF OneInv, Next
<1>2. OwedKnown'
  BY <1>1, OwedByTelling, TellsPart DEF OwedKnown
<1>3. OwedPart'
  <2> SUFFICES ASSUME NEW r \in Rollouts, NEW d \in Devices, Calm(d)', <<r, d>> \in owed'
               PROVE  d \in rollouts'[r].devices
    BY DEF OwedPart
  <2>1. /\ Calm(d)
        /\ rollouts[r] # NoRollout /\ d \in rollouts[r].devices => rollouts'[r].devices = rollouts[r].devices
    BY <1>1, StaysCalm
  <2>2. CASE <<r, d>> \in owed
    <3>1. rollouts[r] # NoRollout /\ d \in rollouts[r].devices
      BY <2>1, <2>2 DEF OwedKnown, OwedPart, Known, NoRollout
    <3> QED
      BY <2>1, <3>1
  <2>3. CASE <<r, d>> \notin owed
    BY <2>1, <2>3, OwedByTelling, TellsPart
  <2> QED
    BY <2>2, <2>3
<1> QED
  BY <1>2, <1>3

\* and of one that is not completed.
LEMMA OverdueNext ==
  ASSUME Typed, Note
  PROVE  Overdue'
<1> SUFFICES ASSUME NEW r \in Rollouts, NEW d \in Devices, Clean(d, {"raced", "overtaken"})',
                    <<r, d>> \in owed', rollouts'[r].status = "COMPLETED"
             PROVE  FALSE
  BY DEF Overdue
<1>1. ~Happens(d, "overtaken")
  BY StaysClean DEF Oddities
<1> QED
  BY <1>1 DEF Happens

\* A device owes one rollout at a time.
LEMMA OwedOnce == OwesInv => OneOwed
<1> SUFFICES ASSUME OwesInv, NEW d \in Devices, Ordinary(d),
                    NEW r \in Rollouts, NEW s \in Rollouts, <<r, d>> \in owed, <<s, d>> \in owed
             PROVE  r = s
  BY DEF OneOwed
<1>1. Calm(d) /\ Clean(d, {"raced", "archived"}) /\ Clean(d, {"raced", "overtaken"})
  BY DEF Ordinary, Clean, Calm
<1>2. ASSUME NEW x \in Rollouts, <<x, d>> \in owed
      PROVE  Active(x) /\ d \in rollouts[x].devices
  BY <1>1, <1>2 DEF OwesInv, Marked, Overdue, OwedKnown, OwedPart, Known, Active
<1> QED
  BY <1>1, <1>2 DEF OwesInv, OneInv, One

\* What is announced, installed or reported on is owed: the report of the end of what is
\* owed clears the record.
LEMMA AnnouncedOwesNext ==
  ASSUME Typed, Marked, AnnouncedOwes, Next
  PROVE  AnnouncedOwes'
<1> SUFFICES ASSUME NEW d \in Devices, Settled(d)'
    PROVE (/\ updates[d] \in Rollouts => <<updates[d], d>> \in owed \/ Ending(d)
           /\ doing[d] \in Rollouts => <<doing[d], d>> \in owed
           /\ pc[d] # "idle" /\ report[d].event \notin Ended => <<report[d].rollout, d>> \in owed)'
  BY DEF AnnouncedOwes
<1>1. Note /\ Settled(d) /\ Clean(d, {"raced", "archived"})'
  BY StaysClean DEF Next, Oddities, Settled
<1>2. /\ updates[d] \in Rollouts => <<updates[d], d>> \in owed \/ Ending(d)
      /\ doing[d] \in Rollouts => <<doing[d], d>> \in owed
      /\ pc[d] # "idle" /\ report[d].event \notin Ended => <<report[d].rollout, d>> \in owed
  BY <1>1 DEF AnnouncedOwes
<1>3. /\ pc \in [Actors -> Labels] /\ report \in [Devices -> Handled] /\ report[d] \in Handled
      /\ updates \in [Devices -> Announced] /\ doing \in [Devices -> Rollouts \cup {"none"}]
      /\ d \in Actors /\ "none" \notin Rollouts
  BY DEF Typed, TypeOK, Actors
<1>4. CASE (\E q \in Requests : Request(q)) \/ \E r \in Rollouts : Admin(r)
  <2>1. pc'[d] = pc[d] /\ report'[d] = report[d] /\ doing'[d] = doing[d] /\ owed \subseteq owed'
    BY <1>4, DevicesStay
  <2>2. updates'[d] = updates[d] \/ <<updates'[d], d>> \in owed'
    BY <1>4, RecordTold DEF Tells
  <2>3. Ending(d)' <=> Ending(d)
    BY <2>1 DEF Ending
  <2> QED
    BY <1>2, <2>1, <2>2, <2>3
<1>5. ASSUME NEW b \in Devices \ {d}, Device(b)
      PROVE (/\ updates[d] \in Rollouts => <<updates[d], d>> \in owed \/ Ending(d)
             /\ doing[d] \in Rollouts => <<doing[d], d>> \in owed
             /\ pc[d] # "idle" /\ report[d].event \notin Ended => <<report[d].rollout, d>> \in owed)'
  <2>1. /\ pc'[d] = pc[d] /\ report'[d] = report[d] /\ doing'[d] = doing[d]
        /\ updates'[d] = updates[d]
        /\ \A r \in Rollouts : <<r, d>> \in owed' <=> <<r, d>> \in owed
    BY <1>5, OtherDevicesStay
  <2>2. <<report[d].rollout, d>> \in owed => <<report[d].rollout, d>> \in owed'
    BY <2>1 DEF Typed, TypeOK
  <2> QED
    BY <1>2, <2>1, <2>2 DEF Ending
<1>6. ASSUME NEW e \in Events, Reports(d, e)
      PROVE (/\ updates[d] \in Rollouts => <<updates[d], d>> \in owed \/ Ending(d)
             /\ doing[d] \in Rollouts => <<doing[d], d>> \in owed
             /\ pc[d] # "idle" /\ report[d].event \notin Ended => <<report[d].rollout, d>> \in owed)'
  <2>1. /\ pc[d] = "idle" /\ pc'[d] = "state" /\ doing[d] \in Rollouts
        /\ report'[d].rollout = doing[d] /\ report'[d].event = e
    BY <1>1, <1>6, ReportHandled
  <2>2. updates' = updates /\ ~Ending(d)
    BY <1>6, <2>1 DEF Reports, books, Ending
  <2>3. CASE e \in Ended
    <3>1. doing'[d] = "none" /\ Ending(d)'
      BY <1>3, <1>6, <2>1, <2>3 DEF Reports, Ending
    <3> QED
      BY <1>3, <2>1, <2>3, <3>1
  <2>4. CASE e \notin Ended
    <3>1. doing'[d] = doing[d] /\ owed' = owed
      BY <1>3, <1>6, <2>4 DEF Reports
    <3> QED
      BY <1>2, <2>1, <2>2, <3>1
  <2> QED
    BY <2>3, <2>4
<1>7. ASSUME Device(d), ~\E e \in Events : Reports(d, e)
      PROVE (/\ updates[d] \in Rollouts => <<updates[d], d>> \in owed \/ Ending(d)
             /\ doing[d] \in Rollouts => <<doing[d], d>> \in owed
             /\ pc[d] # "idle" /\ report[d].event \notin Ended => <<report[d].rollout, d>> \in owed)'
  <2>1. owed' = owed
    BY <1>7 DEF Device, Fetches, Starts, ReportSaves, Clears, ReportCounts, ReportEnds,
      ReportOperates, history
  <2>2. CASE Fetches(d)
    BY <1>2, <1>3, <2>1, <2>2 DEF Fetches, Ending, device
  <2>3. CASE Starts(d)
    <3>1. pc[d] = "idle" /\ doing'[d] = updates[d] /\ UNCHANGED <<pc, report, updates>>
      BY <1>3, <2>3 DEF Starts, books
    <3> QED
      BY <1>2, <2>1, <3>1 DEF Ending
  <2>4. CASE ReportSaves(d)
    <3>1. /\ pc[d] = "state" /\ UNCHANGED <<report, updates, doing>>
          /\ report[d].event \in Ended => pc'[d] = "record"
      BY <1>3, <2>4 DEF ReportSaves, device
    <3> QED
      BY <1>2, <2>1, <3>1 DEF Ending
  <2>5. CASE Clears(d)
    <3>1. pc[d] = "record" /\ updates'[d] \notin Rollouts /\ doing' = doing
      BY <1>3, <2>5 DEF Clears, device
    <3>2. report'[d].event = report[d].event /\ report'[d].rollout = report[d].rollout
      BY <1>3, <2>5 DEF Clears, Handled
    <3> QED
      BY <1>2, <2>1, <3>1, <3>2
  <2>6. ASSUME NEW ok \in BOOLEAN, ReportOperates(d, ok)
        PROVE  pc[d] = "operate" /\ pc'[d] = "find" /\ UNCHANGED <<report, updates, doing>>
    BY <1>3, <2>6 DEF ReportOperates, device
  <2>7. CASE \E ok \in BOOLEAN : ReportOperates(d, ok)
    BY <1>2, <2>1, <2>6, <2>7 DEF Ending
  <2>8. CASE ReportCounts(d)
    <3>1. pc[d] = "find" /\ UNCHANGED <<updates, doing>>
      BY <2>8 DEF ReportCounts, device, books
    <3>2. report'[d].event = report[d].event /\ report'[d].rollout = report[d].rollout
      BY <1>3, <2>8 DEF ReportCounts, Handled
    <3> QED
      BY <1>2, <2>1, <3>1, <3>2 DEF Ending
  <2>9. CASE ReportEnds(d)
    <3>1. pc[d] = "save" /\ pc'[d] = "idle" /\ UNCHANGED <<updates, doing>>
      BY <1>3, <2>9 DEF ReportEnds, device
    <3> QED
      BY <1>2, <2>1, <3>1 DEF Ending
  <2> QED
    BY <1>7, <2>2, <2>3, <2>4, <2>5, <2>7, <2>8, <2>9 DEF Device
<1> QED
  BY <1>4, <1>5, <1>6, <1>7 DEF Next

\* Nobody else writes the record of a device that a request is about to tell.
LEMMA FoundStillNext ==
  ASSUME Typed, Todos, Todos', FoundStill, Next
  PROVE  FoundStill'
<1> SUFFICES ASSUME NEW q \in Requests, NEW d \in Devices, Ordinary(d)', Ahead(q, d)'
             PROVE  job'[q].agents[d] = updates'[d] /\ updates'[d] # "absent"
  BY DEF FoundStill
<1>1. /\ Note /\ Ordinary(d) /\ ~Happens(d, "untold")
      /\ \A a, b \in InHand(d)' : a = b
  BY StaysClean DEF Next, Oddities, Ordinary
<1>2. q \in InHand(d)' /\ pc'[q] # "idle" /\ q # d
  BY DEF Ahead, Todos, InHand, Handling
<1>3. pc'[d] = "idle"
  BY <1>1, <1>2 DEF InHand
<1>4. CASE FindsAgents(q)
  <2>1. job'[q].agents = updates /\ updates' = updates /\ todo'[q] = todo[q] /\ pc'[q] = "tell"
    BY <1>4 DEF FindsAgents, books, Typed, TypeOK, Jobs, Actors
  <2> QED
    BY <1>1, <1>4, <2>1 DEF Happens, FindsAgents, Ahead
<1>5. CASE ~FindsAgents(q)
  <2>1. Ahead(q, d) /\ job'[q].agents = job[q].agents
    <3>1. CASE Goes(q)
      BY <1>5, <3>1 DEF Goes, Ahead
    <3>2. CASE pc'[q] = pc[q] /\ job'[q] = job[q] /\ todo'[q] = todo[q]
      BY <3>2 DEF Ahead
    <3> QED
      BY <3>1, <3>2, EachGoes
  <2>2. job[q].agents[d] = updates[d] /\ updates[d] # "absent"
    BY <1>1, <2>1 DEF FoundStill
  <2>3. updates'[d] = updates[d]
    <3> SUFFICES ASSUME updates'[d] # updates[d] PROVE FALSE
      OBVIOUS
    <3>1. /\ pc \in [Actors -> Labels] /\ q \in Actors /\ d \in Actors
          /\ job \in [Requests -> Jobs] /\ \A p \in Requests : job[p] \in Jobs
      BY DEF Typed, TypeOK, Actors
    <3>2. ~Clears(d) /\ ~Fetches(d)
      BY <1>3, <2>2, <3>1 DEF Clears, Fetches
    <3>3. PICK p \in Requests : Tells(p, d)
      BY <3>2, RecordWritten
    <3>4. pc'[p] = "sync" /\ job'[p].current = d /\ job'[p].new = job[p].new
      BY <3>1, <3>3 DEF Tells, Jobs, Actors
    <3>5. d \in job[p].new.devices
      BY <3>3 DEF Tells, Todos
    <3>6. p \in InHand(d)'
      BY <3>4, <3>5 DEF InHand, Handling
    <3>7. p = q
      BY <1>1, <1>2, <3>6
    <3> QED
      BY <3>4, <3>7 DEF Ahead
  <2> QED
    BY <2>1, <2>2, <2>3
<1> QED
  BY <1>4, <1>5

\* What is owed is announced or installed.
LEMMA OwedToldNext ==
  ASSUME ToldInv, OwesInv', Next
  PROVE  OwedTold'
<1> SUFFICES ASSUME NEW r \in Rollouts, NEW d \in Devices, Ordinary(d)', <<r, d>> \in owed'
             PROVE  (updates'[d] = r \/ doing'[d] = r) /\ ~Ending(d)'
  BY DEF OwedTold
<1>1. Typed /\ Note /\ Ordinary(d) /\ Settled(d) /\ Settled(d)' /\ "none" \notin Rollouts
  <2>1. Typed /\ Note
    BY DEF Next, ToldInv, OwesInv, OneInv
  <2>2. Ordinary(d)
    BY <2>1, StaysClean DEF Oddities, Ordinary
  <2> QED
    BY <2>1, <2>2 DEF Ordinary, Settled, Clean
<1>2. \A s \in Rollouts : <<s, d>> \in owed' => s = r
  <2>1. OneOwed'
    BY OwedOnce, PTL
  <2> QED
    BY <2>1 DEF OneOwed
<1>3. \A a, b \in InHand(d)' : a = b
  BY <1>1, StaysClean DEF Oddities, Ordinary
<1>4. /\ pc \in [Actors -> Labels] /\ d \in Actors /\ report \in [Devices -> Handled]
      /\ report[d] \in Handled /\ updates \in [Devices -> Announced]
      /\ doing \in [Devices -> Rollouts \cup {"none"}]
  BY <1>1 DEF Typed, TypeOK, Actors
<1>5. ASSUME NEW q \in Requests, Tells(q, d)
      PROVE  (updates'[d] = r \/ doing'[d] = r) /\ ~Ending(d)'
  <2>1. job[q].rollout = r
    <3>1. job[q].rollout \in Rollouts /\ <<job[q].rollout, d>> \in owed'
      BY <1>5, TellsPart DEF Tells, ToldInv, OwesInv
    <3> QED
      BY <1>2, <3>1
  <2>2. pc'[d] = "idle"
    <3>1. q \in InHand(d)' /\ q # d
      BY <1>5, TellsPart DEF InHand, ToldInv, OwesInv
    <3> QED
      BY <1>3, <3>1 DEF InHand
  <2>3. job[q].agents[d] = updates[d] /\ updates[d] # "absent"
    BY <1>1, <1>5 DEF ToldInv, FoundStill, Ahead, Tells
  <2>4. updates'[d] = r
    BY <1>4, <1>5, <2>1, <2>3 DEF Tells, TellsRecord
  <2> QED
    BY <2>2, <2>4 DEF Ending
<1>6. ASSUME ~\E q \in Requests : Tells(q, d)
      PROVE  (updates'[d] = r \/ doing'[d] = r) /\ ~Ending(d)'
  <2>1. <<r, d>> \in owed
    BY <1>6, OwedByTelling
  <2>2. (updates[d] = r \/ doing[d] = r) /\ ~Ending(d)
    BY <1>1, <2>1 DEF ToldInv, OwedTold
  <2>3. ASSUME NEW e \in Events \cap Ended, Reports(d, e) PROVE FALSE
    <3>1. doing[d] \in Rollouts /\ owed' = owed \ {<<doing[d], d>>}
      BY <1>4, <2>3 DEF Reports, UnderWay
    <3>2. <<doing[d], d>> \in owed
      BY <1>1, <3>1 DEF ToldInv, OwesInv, AnnouncedOwes
    <3>3. doing[d] = r
      BY <1>1, <2>1, <3>1, <3>2, OwedOnce DEF ToldInv, OneOwed
    <3> QED
      BY <3>1, <3>3
  <2>4. updates[d] = r => updates'[d] = r
    <3>1. ~Clears(d)
      BY <2>2 DEF Clears, Ending
    <3>2. updates[d] = r => ~Fetches(d)
      BY DEF Fetches
    <3> QED
      BY <1>1, <1>6, <3>1, <3>2, RecordWritten DEF Next
  <2>5. doing'[d] = doing[d] \/ Starts(d)
    <3>1. ASSUME NEW b \in Devices, Device(b) PROVE doing'[d] = doing[d] \/ Starts(d)
      <4>1. CASE b # d
        BY <1>1, <3>1, <4>1, OtherDevicesStay
      <4>2. ASSUME NEW e \in Events, Reports(d, e) PROVE doing'[d] = doing[d]
        BY <1>4, <2>3, <4>2 DEF Reports
      <4> QED
        BY <3>1, <4>1, <4>2 DEF Device, Fetches, ReportSaves, Clears, ReportCounts, ReportEnds,
          ReportOperates, device
    <3> QED
      BY <1>1, <3>1, DevicesStay DEF Next
  <2>6. updates'[d] = r \/ doing'[d] = r
    <3>1. CASE Starts(d)
      BY <2>2, <2>4, <3>1 DEF Starts, UnderWay
    <3> QED
      BY <2>2, <2>4, <2>5, <3>1
  <2>7. ~Ending(d)'
    <3>1. ASSUME Device(d) PROVE ~Ending(d)'
      <4>1. ASSUME NEW e \in Events, Reports(d, e) PROVE ~Ending(d)'
        <5>1. pc'[d] = "state" /\ report'[d].event = e
          BY <1>1, <4>1, ReportHandled DEF ToldInv, OwesInv, Settled
        <5> QED
          BY <2>3, <4>1, <5>1 DEF Ending
      <4>2. CASE Fetches(d) \/ Starts(d)
        BY <2>2, <4>2 DEF Fetches, Starts, Ending, books
      <4>3. CASE ReportSaves(d)
        BY <1>4, <2>2, <4>3 DEF ReportSaves, Ending
      <4>4. ~Clears(d)
        BY <2>2 DEF Clears, Ending
      <4>5. CASE ReportCounts(d) \/ ReportEnds(d) \/ \E ok \in BOOLEAN : ReportOperates(d, ok)
        BY <1>4, <4>5 DEF ReportCounts, ReportEnds, ReportOperates, Ending
      <4> QED
        BY <3>1, <4>1, <4>2, <4>3, <4>4, <4>5 DEF Device
    <3>2. ASSUME pc'[d] = pc[d], report'[d] = report[d] PROVE ~Ending(d)'
      BY <2>2, <3>2 DEF Ending
    <3> QED
      BY <1>1, <3>1, <3>2, DevicesStay, OtherDevicesStay DEF Next
  <2> QED
    BY <2>6, <2>7
<1> QED
  BY <1>5, <1>6

\* The invariant holds at first, when nothing is owed,
LEMMA ToldInit == Init => ToldInv
<1> SUFFICES ASSUME Init PROVE ToldInv
  OBVIOUS
<1>1. \A a \in Actors : pc[a] = "idle"
  BY DEF Init
<1>2. owed = {} /\ \A d \in Devices : updates[d] \notin Rollouts /\ doing[d] \notin Rollouts
  BY DEF Init
<1>3. Todos /\ Marked
  BY ServiceInit DEF ServiceInv
<1> QED
  BY <1>1, <1>2, <1>3, OneInit DEF ToldInv, OwesInv, Overdue, OwedKnown, OwedPart, AnnouncedOwes,
    FoundStill, Ahead, OwedTold, Actors

\* and every step keeps it.
LEMMA ToldNext == ToldInv /\ [Next]_vars => ToldInv'
<1> SUFFICES ASSUME ToldInv, [Next]_vars PROVE ToldInv'
  OBVIOUS
<1>1. OneInv'
  BY OneNext DEF ToldInv, OwesInv
<1>2. CASE Next
  <2>1. OneInv /\ Typed /\ Note
    BY <1>2 DEF ToldInv, OwesInv, OneInv, Next
  <2>2. OwesInv'
    BY <1>1, <1>2, <2>1, TodosNext, MarkedNext, OverdueNext, OwedKnownNext, AnnouncedOwesNext
      DEF ToldInv, OwesInv
  <2>3. FoundStill' /\ OwedTold'
    BY <1>2, <2>1, <2>2, FoundStillNext, OwedToldNext DEF ToldInv, OwesInv
  <2> QED
    BY <2>2, <2>3 DEF ToldInv
<1>3. CASE UNCHANGED vars
  BY <1>1, <1>3 DEF vars, books, device, history, ToldInv, OwesInv, Todos, Marked, Clean, Overdue,
    OwedKnown, Known, OwedPart, Calm, AnnouncedOwes, Settled, Ending, FoundStill, Ordinary, Ahead,
    OwedTold
<1> QED
  BY <1>2, <1>3

\* A device that owes a rollout is told of it by its record, or installs it, whatever was
\* created, played and reported meanwhile: unless it had no record when it was played, or
\* two rollouts had it at once, by an edit, a race, an archived one, or one that was
\* completed while it was owed.
THEOREM OwedIsAnnounced == SafeSpec => []OwedIsTold
<1>1. ToldInv => OwedIsTold
  BY DEF ToldInv, OwedTold, Ordinary, Clean, OwedIsTold
<1> QED
  BY <1>1, ToldInit, ToldNext, PTL DEF SafeSpec

------------------------------------------------------------------------------
(* Completion is true. As long as the devices of a rollout are not exchanged, exactly     *)
(* they have documents of it, and only the first document of a device can say that it is  *)
(* completed: so as many such documents as devices are all of them.                       *)

Whole(r) == \E d \in rollouts[r].devices : "edited" \notin odd[d]

Documented ==
  \A r \in Rollouts, d \in Devices :
    /\ states[r][d] # <<>> => Known(r) /\ (Whole(r) => d \in rollouts[r].devices)
    /\ \A i \in DOMAIN states[r][d] :
         states[r][d][i] = "COMPLETED" => i = 1 /\ <<r, d>> \in completed
    /\ <<r, d>> \in completed => states[r][d] # <<>>
\* A request works on the devices its rollout has, and makes only new rollouts.
Drafted ==
  \A q \in Requests : pc[q] # "idle" =>
    /\ ~Known(job[q].rollout) => job[q].new.status = "CREATED"
    /\ Known(job[q].rollout) /\ Whole(job[q].rollout) =>
         job[q].new.devices = rollouts[job[q].rollout].devices
\* The device that a request is at, it has not come past.
AtHand == \A q \in Requests : pc[q] = "sync" => job[q].current \in todo[q]
\* What the handler of a report holds is true of its rollout.
Holds(d) ==
  LET r == report[d].rollout IN
    /\ r \in Rollouts /\ states[r][d] # <<>>
    /\ pc[d] = "state" /\ report[d].event = "COMPLETED" => <<r, d>> \in completed
    /\ Whole(r) =>
         /\ report[d].size = Cardinality(rollouts[r].devices)
         /\ report[d].all => \A b \in rollouts[r].devices : <<r, b>> \in completed
         /\ "raced" \notin odd[d] /\ report[d].seen = "COMPLETED" => rollouts[r].status = "COMPLETED"
Reported ==
  \A d \in Devices :
    /\ doing[d] \in Rollouts => states[doing[d]][d] # <<>>
    /\ pc[d] # "idle" => Holds(d)
CompletedAll ==
  \A r \in Rollouts :
    rollouts[r].status = "COMPLETED" /\ Whole(r) => \A d \in rollouts[r].devices : <<r, d>> \in completed

\* Who writes the documents of a device's state.
LEMMA StatesWritten ==
  ASSUME Typed, Next, NEW r \in Rollouts, NEW d \in Devices, states'[r][d] # states[r][d]
  PROVE  \/ \E q \in Requests :
              /\ InsertsStates(q) /\ job[q].rollout = r /\ d \in todo[q]
              /\ states'[r][d] = Append(states[r][d], "NEW")
         \/ \E q \in Requests :
              /\ Syncs(q) /\ job[q].rollout = r /\ d = job[q].current
              /\ states'[r][d] = [states[r][d] EXCEPT ![Len(states[r][d])] = "DEVICE_REMOTE_STATE_SYNCED"]
         \/ /\ ReportSaves(d) /\ report[d].rollout = r
            /\ states'[r][d] = [states[r][d] EXCEPT ![1] = report[d].event]
<1>0. states \in [Rollouts -> [Devices -> Seq(DeviceStatuses)]]
  BY DEF Typed, TypeOK
<1>1. ASSUME NEW q \in Requests, InsertsStates(q)
      PROVE  job[q].rollout = r /\ d \in todo[q] /\ states'[r][d] = Append(states[r][d], "NEW")
  BY <1>0, <1>1 DEF InsertsStates
<1>2. ASSUME NEW q \in Requests, Syncs(q)
      PROVE  /\ job[q].rollout = r /\ d = job[q].current
             /\ states'[r][d] = [states[r][d] EXCEPT ![Len(states[r][d])] = "DEVICE_REMOTE_STATE_SYNCED"]
  <2> DEFINE s == job[q].rollout
             b == job[q].current
  <2>1. states' = [states EXCEPT ![s][b][Len(states[s][b])] = "DEVICE_REMOTE_STATE_SYNCED"]
    BY <1>2 DEF Syncs
  <2> HIDE DEF s, b
  <2>2. s = r
    BY <1>0, <2>1
  <2>3. b = d
    BY <1>0, <2>1, <2>2
  <2> QED
    BY <1>0, <2>1, <2>2, <2>3 DEF s, b
<1>3. ASSUME NEW b \in Devices, ReportSaves(b)
      PROVE  /\ b = d /\ report[d].rollout = r
             /\ states'[r][d] = [states[r][d] EXCEPT ![1] = report[d].event]
  <2> DEFINE s == report[b].rollout
  <2>1. states' = [states EXCEPT ![s][b][1] = report[b].event]
    BY <1>3 DEF ReportSaves
  <2> HIDE DEF s
  <2>2. s = r
    BY <1>0, <2>1
  <2>3. b = d
    BY <1>0, <2>1, <2>2
  <2> QED
    BY <1>0, <2>1, <2>2, <2>3 DEF s
<1>4. ASSUME NEW q \in Requests, Request(q) PROVE InsertsStates(q) \/ Syncs(q)
  BY <1>4 DEF Request, Plays, Creates, Checks, Tells, TakesOut, Inserts, Prepares, Maps,
    FindsAgents, books
<1>5. ~\E s \in Rollouts : Admin(s)
  BY DEF Admin, Archives, Edits
<1>6. ASSUME NEW b \in Devices, Device(b) PROVE ReportSaves(b)
  BY <1>6 DEF Device, Fetches, Starts, Reports, Clears, ReportCounts, ReportEnds, ReportOperates,
    books
<1> QED
  BY <1>1, <1>2, <1>3, <1>4, <1>5, <1>6 DEF Next

\* A device that has documents keeps them, and only its own report writes the first one
\* of several.
LEMMA DocumentsStay ==
  ASSUME Typed, Next, NEW r \in Rollouts, NEW d \in Devices, states[r][d] # <<>>
  PROVE  /\ states'[r][d] # <<>>
         /\ \/ states'[r][d][1] = states[r][d][1]
            \/ \E q \in Requests : Syncs(q) /\ job[q].rollout = r /\ d = job[q].current
            \/ /\ ReportSaves(d) /\ report[d].rollout = r
               /\ states'[r][d][1] = report[d].event
<1> DEFINE s == states[r][d]
<1>1. s \in Seq(DeviceStatuses) /\ Len(s) \in Nat /\ 1 \in DOMAIN s /\ DOMAIN s = 1..Len(s)
  BY DEF Typed, TypeOK
<1> HIDE DEF s
<1>2. CASE states'[r][d] = states[r][d]
  BY <1>2
<1>3. ASSUME states'[r][d] = Append(s, "NEW") PROVE states'[r][d] # <<>> /\ states'[r][d][1] = s[1]
  BY <1>1, <1>3
<1>4. ASSUME NEW i, NEW v, states'[r][d] = [s EXCEPT ![i] = v]
      PROVE  states'[r][d] # <<>> /\ (i = 1 => states'[r][d][1] = v)
  BY <1>1, <1>4
<1>5. CASE states'[r][d] = Append(s, "NEW")
  BY <1>3, <1>5 DEF s
<1>6. ASSUME NEW q \in Requests, Syncs(q), job[q].rollout = r, d = job[q].current,
             states'[r][d] = [s EXCEPT ![Len(s)] = "DEVICE_REMOTE_STATE_SYNCED"]
      PROVE  states'[r][d] # <<>>
  BY <1>4, <1>6
<1>7. ASSUME states'[r][d] = [s EXCEPT ![1] = report[d].event]
      PROVE  states'[r][d] # <<>> /\ states'[r][d][1] = report[d].event
  BY <1>4, <1>7
<1> QED
  BY <1>2, <1>5, <1>6, <1>7, StatesWritten DEF s

\* Who writes the status of a rollout.
LEMMA StatusWritten ==
  ASSUME Typed, Next, NEW r \in Rollouts, rollouts'[r].status # rollouts[r].status
  PROVE  \/ \E q \in Requests : Inserts(q) /\ job[q].rollout = r /\ rollouts'[r] = job[q].new
         \/ \E q \in Requests :
              (Prepares(q) \/ Maps(q)) /\ job[q].rollout = r /\ rollouts'[r].status # "COMPLETED"
         \/ \E d \in Devices :
              ReportEnds(d) /\ report[d].all /\ report[d].rollout = r /\ rollouts'[r].status = "COMPLETED"
<1>1. rollouts \in [Rollouts -> Documents] /\ rollouts[r] \in Documents
  BY DEF Typed, TypeOK
<1>2. rollouts' # rollouts
  OBVIOUS
<1>3. ASSUME NEW q \in Requests, Request(q)
      PROVE  \/ Inserts(q) /\ job[q].rollout = r /\ rollouts'[r] = job[q].new
             \/ (Prepares(q) \/ Maps(q)) /\ job[q].rollout = r /\ rollouts'[r].status # "COMPLETED"
  <2>1. CASE Inserts(q)
    BY <1>1, <2>1 DEF Inserts
  <2>2. CASE Prepares(q)
    BY <1>1, <2>2 DEF Prepares, StatusSaved, Documents
  <2>3. CASE Maps(q)
    BY <1>1, <2>3 DEF Maps, Documents
  <2> QED
    BY <1>2, <1>3, <2>1, <2>2, <2>3 DEF Request, Plays, Creates, Checks, Tells, TakesOut,
      InsertsStates, FindsAgents, Syncs, books
<1>4. ASSUME NEW s \in Rollouts, Admin(s) PROVE FALSE
  BY <1>1, <1>4 DEF Admin, Archives, Edits, Documents
<1>5. ASSUME NEW d \in Devices, Device(d)
      PROVE  ReportEnds(d) /\ report[d].all /\ report[d].rollout = r /\ rollouts'[r].status = "COMPLETED"
  <2>1. ReportEnds(d)
    BY <1>2, <1>5 DEF Device, Fetches, Starts, Reports, ReportSaves, Clears, ReportCounts,
      ReportOperates, books
  <2>2. report[d].all /\ rollouts' = [rollouts EXCEPT ![report[d].rollout].status = "COMPLETED"]
    BY <1>2, <2>1 DEF ReportEnds, StatusSaved
  <2> QED
    BY <1>1, <2>1, <2>2 DEF Documents
<1> QED
  BY <1>3, <1>4, <1>5 DEF Next

\* A rollout becomes known by a request that inserts it.
LEMMA KnownByInserting ==
  ASSUME OneInv, Next, NEW r \in Rollouts, ~Known(r), Known(r)'
  PROVE  \E q \in Requests : Inserts(q) /\ job[q].rollout = r /\ rollouts'[r] = job[q].new
<1>1. ASSUME NEW q \in Requests, Prepares(q) \/ Maps(q) PROVE job[q].rollout # r
  BY <1>1 DEF Prepares, Maps, OneInv, Knows, Sure
<1>2. \A d \in Devices : report[d].rollout # r
  BY DEF OneInv, Knows, Told
<1> QED
  BY <1>1, <1>2, StatusWritten DEF Known, OneInv

\* A rollout that is whole after a step was so before it, and has the same devices.
LEMMA WholeStays ==
  ASSUME Typed', Note, NEW r \in Rollouts, Known(r), Whole(r)'
  PROVE  Whole(r) /\ rollouts'[r].devices = rollouts[r].devices
<1>1. PICK d \in rollouts'[r].devices : "edited" \notin odd'[d]
  BY DEF Whole
<1>2. d \in Devices
  BY DEF Typed, TypeOK, Documents
<1> DEFINE all == odd[d] \cup {o \in Oddities : Happens(d, o)}
<1>3. odd'[d] = Kept(all)
  BY <1>2 DEF Note
<1>4. "edited" \notin all
  BY <1>1, <1>3 DEF Kept
<1>5. "edited" \notin odd[d] /\ ~Happens(d, "edited")
  BY <1>4 DEF Oddities
<1>6. rollouts'[r].devices = rollouts[r].devices
  BY <1>1, <1>5 DEF Happens, Known, NoRollout
<1> QED
  BY <1>1, <1>5, <1>6 DEF Whole

\* What was completed stays completed.
LEMMA CompletedStays ==
  ASSUME Next
  PROVE  completed \subseteq completed'
<1>1. ASSUME NEW q \in Requests, Request(q) PROVE completed' = completed
  BY <1>1 DEF Request, Plays, Creates, Checks, Tells, TakesOut, Inserts, Prepares, InsertsStates,
    Maps, FindsAgents, Syncs, history
<1>2. ASSUME NEW r \in Rollouts, Admin(r) PROVE completed' = completed
  BY <1>2 DEF Admin, Archives, Edits, history
<1>3. ASSUME NEW d \in Devices, Device(d) PROVE completed \subseteq completed'
  BY <1>3 DEF Device, Fetches, Starts, Reports, ReportSaves, Clears, ReportCounts, ReportEnds,
    ReportOperates, history
<1> QED
  BY <1>1, <1>2, <1>3 DEF Next

\* A rollout has as many completed documents as devices if and only if the first document
\* of each of its devices is completed.
LEMMA CountsCompleted ==
  ASSUME Typed, Documented, NEW r \in Rollouts, Whole(r)
  PROVE  CompletedOf(r) = Cardinality(rollouts[r].devices)
           <=> \A d \in rollouts[r].devices : states[r][d] # <<>> /\ states[r][d][1] = "COMPLETED"
<1> DEFINE devices == rollouts[r].devices
           done == {d \in Devices : states[r][d] # <<>> /\ states[r][d][1] = "COMPLETED"}
           docs == UNION {{<<d, i>> : i \in {j \in DOMAIN states[r][d] : states[r][d][j] \in {"COMPLETED"}}}
                            : d \in Devices}
           f == [d \in done |-> <<d, 1>>]
<1>1. devices \subseteq Devices /\ IsFiniteSet(devices)
  BY FS_Subset DEF Typed, TypeOK, Documents
<1>2. done \subseteq devices /\ IsFiniteSet(done)
  BY <1>1, FS_Subset DEF Documented
<1>3. docs = {<<d, 1>> : d \in done}
  <2>1. \A d \in Devices : states[r][d] \in Seq(DeviceStatuses)
    BY DEF Typed, TypeOK
  <2>2. ASSUME NEW d \in Devices, NEW i \in DOMAIN states[r][d], states[r][d][i] = "COMPLETED"
        PROVE  i = 1 /\ d \in done
    BY <2>1, <2>2 DEF Documented
  <2>3. ASSUME NEW d \in done
        PROVE  1 \in DOMAIN states[r][d] /\ states[r][d][1] \in {"COMPLETED"}
    BY <2>1, <2>3
  <2>4. ASSUME NEW x \in docs PROVE x \in {<<d, 1>> : d \in done}
    <3> HIDE DEF done
    <3> QED
      BY <2>2, <2>4
  <2>5. ASSUME NEW d \in done PROVE <<d, 1>> \in docs
    <3>1. d \in Devices
      OBVIOUS
    <3> HIDE DEF done
    <3> QED
      BY <2>3, <3>1
  <2> HIDE DEF docs, done
  <2> QED
    BY <2>4, <2>5
<1> HIDE DEF docs, done
<1>4. f \in Bijection(done, docs)
  <2>1. f \in [done -> docs]
    BY <1>3
  <2>2. IsInjective(f)
    BY DEF IsInjective
  <2>3. \A x \in docs : \E d \in done : f[d] = x
    BY <1>3
  <2> QED
    BY <2>1, <2>2, <2>3 DEF Bijection, Injection, Surjection
<1>5. Cardinality(docs) = Cardinality(done)
  BY <1>2, <1>4, FS_Bijection DEF ExistsBijection
<1>6. CompletedOf(r) = Cardinality(docs)
  BY DEF CompletedOf, CountOf, docs
<1>7. Cardinality(done) = Cardinality(devices) <=> done = devices
  BY <1>1, <1>2, FS_Subset
<1>8. done = devices <=> \A d \in devices : states[r][d] # <<>> /\ states[r][d][1] = "COMPLETED"
  BY <1>1, <1>2 DEF done
<1> QED
  BY <1>5, <1>6, <1>7, <1>8

\* How the handler of a device's report comes from one await to the next.
SameReport(d) ==
  /\ report'[d].rollout = report[d].rollout /\ report'[d].event = report[d].event
  /\ report'[d].size = report[d].size /\ report'[d].seen = report[d].seen
Accepts(d, e) ==
  /\ Reports(d, e) /\ pc[d] = "idle" /\ pc'[d] = "state" /\ doing[d] \in Rollouts
  /\ report'[d].rollout = doing[d] /\ report'[d].event = e /\ ~report'[d].all
  /\ report'[d].size = Cardinality(rollouts[doing[d]].devices)
  /\ report'[d].seen = rollouts[doing[d]].status /\ rollouts' = rollouts
HandlerGoes(d) ==
  \/ pc'[d] = "idle" /\ (pc[d] = "idle" \/ ReportEnds(d))
  \/ \E e \in Events : Accepts(d, e)
  \/ /\ pc[d] \in {"state", "record", "operate"} /\ pc'[d] \in {"record", "operate", "find"}
     /\ SameReport(d) /\ report'[d].all = report[d].all
  \/ /\ ReportCounts(d) /\ pc'[d] = "save" /\ SameReport(d)
     /\ report'[d].all = (CompletedOf(report[d].rollout) = report[d].size)
  \/ pc'[d] = pc[d] /\ report'[d] = report[d]

\* It does in every step.
LEMMA EachHandlerGoes ==
  ASSUME Typed, Next, NEW d \in Devices
  PROVE  HandlerGoes(d)
<1>1. /\ pc \in [Actors -> Labels] /\ d \in Actors /\ report \in [Devices -> Handled]
      /\ report[d] \in Handled /\ doing \in [Devices -> Rollouts \cup {"none"}]
  BY DEF Typed, TypeOK, Actors
<1>2. CASE pc'[d] = pc[d] /\ report'[d] = report[d]
  BY <1>2 DEF HandlerGoes
<1>3. CASE Device(d)
  <2>1. CASE Fetches(d) \/ Starts(d)
    BY <1>2, <2>1 DEF Fetches, Starts, books
  <2>2. ASSUME NEW e \in Events, Reports(d, e) PROVE HandlerGoes(d)
    <3> DEFINE c == CASE e = "COMPLETED" -> 1 [] e = "FAILED" -> 2 [] OTHER -> 0
               h == [NoReport EXCEPT !.rollout = doing[d], !.event = e,
                       !.seen = rollouts[doing[d]].status,
                       !.size = Cardinality(rollouts[doing[d]].devices), !.clears = c]
    <3>1. h.rollout = doing[d] /\ h.event = e /\ ~h.all /\ h.seen = rollouts[doing[d]].status
          /\ h.size = Cardinality(rollouts[doing[d]].devices)
      BY DEF NoReport
    <3>2. (UNCHANGED <<pc, report>>)
            \/ (pc' = [pc EXCEPT ![d] = "state"] /\ report' = [report EXCEPT ![d] = h])
      BY <2>2 DEF Reports
    <3> HIDE DEF h
    <3>3. CASE UNCHANGED <<pc, report>>
      BY <1>2, <3>3
    <3>4. CASE pc' = [pc EXCEPT ![d] = "state"] /\ report' = [report EXCEPT ![d] = h]
      <4>1. pc'[d] = "state" /\ report'[d] = h
        BY <1>1, <3>4
      <4>2. pc[d] = "idle" /\ doing[d] \in Rollouts /\ rollouts' = rollouts
        BY <1>1, <2>2 DEF Reports, Begins, UnderWay, books
      <4>3. Accepts(d, e)
        BY <2>2, <3>1, <4>1, <4>2 DEF Accepts
      <4> QED
        BY <4>3 DEF HandlerGoes
    <3> QED
      BY <3>2, <3>3, <3>4
  <2>3. CASE ReportSaves(d)
    <3>1. pc[d] = "state" /\ pc'[d] \in {"record", "operate", "find"} /\ report' = report
      BY <1>1, <2>3 DEF ReportSaves
    <3> QED
      BY <3>1 DEF HandlerGoes, SameReport
  <2>4. CASE Clears(d)
    <3>1. pc[d] = "record" /\ pc'[d] \in {"record", "operate"}
      BY <1>1, <2>4 DEF Clears
    <3>2. SameReport(d) /\ report'[d].all = report[d].all
      BY <1>1, <2>4 DEF Clears, Handled, SameReport
    <3> QED
      BY <3>1, <3>2 DEF HandlerGoes
  <2>5. ASSUME NEW ok \in BOOLEAN, ReportOperates(d, ok) PROVE HandlerGoes(d)
    <3>1. pc[d] = "operate" /\ pc'[d] = "find" /\ report' = report
      BY <1>1, <2>5 DEF ReportOperates
    <3> QED
      BY <3>1 DEF HandlerGoes, SameReport
  <2>6. CASE ReportCounts(d)
    <3> DEFINE all == CompletedOf(report[d].rollout) = report[d].size
    <3>1. pc'[d] = "save" /\ report' = [report EXCEPT ![d].all = all]
      BY <1>1, <2>6 DEF ReportCounts
    <3> HIDE DEF all
    <3>2. SameReport(d) /\ report'[d].all = all
      BY <1>1, <3>1 DEF SameReport, Handled
    <3> QED
      BY <2>6, <3>1, <3>2 DEF HandlerGoes, all
  <2>7. CASE ReportEnds(d)
    BY <1>1, <2>7 DEF ReportEnds, HandlerGoes
  <2> QED
    BY <1>3, <2>1, <2>2, <2>3, <2>4, <2>5, <2>6, <2>7 DEF Device
<1> QED
  BY <1>2, <1>3, DevicesStay, OtherDevicesStay DEF Next

\* The request that is at a device has it before it.
LEMMA AtHandNext ==
  ASSUME Typed, AtHand, Next
  PROVE  AtHand'
<1> SUFFICES ASSUME NEW q \in Requests, pc'[q] = "sync" PROVE job'[q].current \in todo'[q]
  BY DEF AtHand
<1>1. CASE Goes(q)
  BY <1>1 DEF Goes
<1>2. CASE pc'[q] = pc[q] /\ job'[q] = job[q] /\ todo'[q] = todo[q]
  BY <1>2 DEF AtHand
<1> QED
  BY <1>1, <1>2, EachGoes

\* What a device has completed it has reported.
LEMMA CompletedByReport ==
  ASSUME Next, NEW r, NEW d, <<r, d>> \in completed', <<r, d>> \notin completed
  PROVE  "COMPLETED" \in Events /\ Reports(d, "COMPLETED") /\ doing[d] = r
<1>1. ASSUME NEW q \in Requests, Request(q) PROVE completed' = completed
  BY <1>1 DEF Request, Plays, Creates, Checks, Tells, TakesOut, Inserts, Prepares, InsertsStates,
    Maps, FindsAgents, Syncs, history
<1>2. ASSUME NEW s \in Rollouts, Admin(s) PROVE completed' = completed
  BY <1>2 DEF Admin, Archives, Edits, history
<1>3. PICK b \in Devices : Device(b)
  BY <1>1, <1>2 DEF Next
<1>4. PICK e \in Events : Reports(b, e)
  BY <1>3 DEF Device, Fetches, Starts, ReportSaves, Clears, ReportCounts, ReportEnds,
    ReportOperates, history
<1>5. e = "COMPLETED" /\ completed' = completed \cup {<<doing[b], b>>}
  BY <1>4 DEF Reports
<1> QED
  BY <1>4, <1>5

\* Exactly the devices of a whole rollout have documents, and only those that completed
\* it a completed one.
LEMMA DocumentedNext ==
  ASSUME OneInv, Typed', Todos, Documented, Drafted, Reported, Next
  PROVE  Documented'
<1> SUFFICES ASSUME NEW r \in Rollouts, NEW d \in Devices
    PROVE (/\ states[r][d] # <<>> => Known(r) /\ (Whole(r) => d \in rollouts[r].devices)
           /\ \A i \in DOMAIN states[r][d] :
                states[r][d][i] = "COMPLETED" => i = 1 /\ <<r, d>> \in completed
           /\ <<r, d>> \in completed => states[r][d] # <<>>)'
  BY DEF Documented
<1> DEFINE s == states[r][d]
           new == states'[r][d]
<1>1. Typed /\ Note /\ s \in Seq(DeviceStatuses) /\ completed \subseteq completed'
  <2>1. Typed /\ Note
    BY DEF OneInv, Next
  <2>2. s \in Seq(DeviceStatuses)
    BY <2>1 DEF Typed, TypeOK
  <2> QED
    BY <2>1, <2>2, CompletedStays
<1>2. Known(r) => Known(r)'
  BY KnownStays
<1>3. Known(r) /\ Whole(r)' => Whole(r) /\ rollouts'[r].devices = rollouts[r].devices
  BY <1>1, WholeStays
<1>4. /\ s # <<>> => Known(r) /\ (Whole(r) => d \in rollouts[r].devices)
      /\ \A i \in DOMAIN s : s[i] = "COMPLETED" => i = 1 /\ <<r, d>> \in completed
      /\ <<r, d>> \in completed => s # <<>>
  BY DEF Documented
<1>5. ASSUME <<r, d>> \in completed' PROVE new # <<>>
  <2>1. CASE <<r, d>> \in completed
    BY <1>1, <1>4, <2>1, DocumentsStay
  <2>2. CASE <<r, d>> \notin completed
    <3>1. s # <<>>
      BY <1>5, <2>2, CompletedByReport DEF Reported
    <3> QED
      BY <1>1, <3>1, DocumentsStay
  <2> QED
    BY <2>1, <2>2
<1> HIDE DEF s, new
<1>6. ASSUME NEW q \in Requests, InsertsStates(q), job[q].rollout = r, d \in todo[q], new = Append(s, "NEW")
      PROVE  /\ Known(r)' /\ (Whole(r)' => d \in rollouts'[r].devices)
             /\ \A i \in DOMAIN new : new[i] = "COMPLETED" => i = 1 /\ <<r, d>> \in completed'
  <2>1. pc[q] = "insert" /\ d \in job[q].new.devices
    BY <1>6 DEF InsertsStates, Todos
  <2>2. Known(r)
    BY <1>6, <2>1 DEF OneInv, Knows, Sure
  <2>3. Whole(r) => d \in rollouts[r].devices
    BY <1>6, <2>1, <2>2 DEF Drafted
  <2>4. ASSUME NEW i \in DOMAIN new, new[i] = "COMPLETED" PROVE i \in DOMAIN s /\ new[i] = s[i]
    BY <1>1, <1>6, <2>4
  <2> QED
    BY <1>1, <1>2, <1>3, <1>4, <2>2, <2>3, <2>4
<1>7. ASSUME NEW j, NEW v, new = [s EXCEPT ![j] = v],
             v = "COMPLETED" => j = 1 /\ <<r, d>> \in completed
      PROVE  /\ new # <<>> => Known(r)' /\ (Whole(r)' => d \in rollouts'[r].devices)
             /\ \A i \in DOMAIN new : new[i] = "COMPLETED" => i = 1 /\ <<r, d>> \in completed'
  <2>1. DOMAIN new = DOMAIN s
    BY <1>1, <1>7
  <2>2. new # <<>> => s # <<>>
    <3>1. s = <<>> => new = s
      BY <1>1, <1>7
    <3> QED
      BY <3>1
  <2>3. ASSUME NEW i \in DOMAIN new, new[i] = "COMPLETED" PROVE i = 1 /\ <<r, d>> \in completed
    <3>1. CASE i = j
      BY <1>1, <1>7, <2>1, <2>3, <3>1
    <3>2. CASE i # j
      BY <1>1, <1>4, <1>7, <2>1, <2>3, <3>2
    <3> QED
      BY <3>1, <3>2
  <2> QED
    BY <1>1, <1>2, <1>3, <1>4, <2>2, <2>3
<1>8. CASE new = s
  BY <1>1, <1>2, <1>3, <1>4, <1>5, <1>8 DEF s, new
<1>9. CASE new # s
  <2>1. CASE \E q \in Requests : InsertsStates(q) /\ job[q].rollout = r /\ d \in todo[q] /\ new = Append(s, "NEW")
    BY <1>5, <1>6, <2>1 DEF s, new
  <2>2. CASE new = [s EXCEPT ![Len(s)] = "DEVICE_REMOTE_STATE_SYNCED"]
    <3>1. /\ new # <<>> => Known(r)' /\ (Whole(r)' => d \in rollouts'[r].devices)
          /\ \A i \in DOMAIN new : new[i] = "COMPLETED" => i = 1 /\ <<r, d>> \in completed'
      BY <1>7, <2>2
    <3> QED
      BY <1>5, <3>1 DEF s, new
  <2>3. CASE ReportSaves(d) /\ report[d].rollout = r /\ new = [s EXCEPT ![1] = report[d].event]
    <3>1. report[d].event = "COMPLETED" => <<r, d>> \in completed
      BY <2>3 DEF ReportSaves, Reported, Holds
    <3>2. /\ new # <<>> => Known(r)' /\ (Whole(r)' => d \in rollouts'[r].devices)
          /\ \A i \in DOMAIN new : new[i] = "COMPLETED" => i = 1 /\ <<r, d>> \in completed'
      BY <1>7, <2>3, <3>1
    <3> QED
      BY <1>5, <3>2 DEF s, new
  <2> QED
    BY <1>1, <1>9, <2>1, <2>2, <2>3, StatesWritten DEF s, new
<1> QED
  BY <1>8, <1>9

\* A request at work began in this step, or goes on with its job.
LEMMA JobGoes ==
  ASSUME Typed, Next, NEW q \in Requests, pc'[q] # "idle"
  PROVE  \/ pc[q] # "idle" /\ SameJob(q)
         \/ \E r \in Rollouts : Plays(q, r)
         \/ \E r \in Rollouts, draft \in Drafts : Creates(q, r, draft)
<1>1. CASE pc[q] # "idle"
  BY <1>1, EachGoes DEF Goes, SameJob
<1>2. CASE pc[q] = "idle"
  <2>1. PICK p \in Requests : Request(p)
    BY <1>2, RequestsStay DEF Next
  <2>2. p = q
    BY <1>2, <2>1, OthersStay
  <2> QED
    BY <1>2, <2>1, <2>2 DEF Request, Checks, Tells, TakesOut, Inserts, Prepares, InsertsStates, Maps,
      FindsAgents, Syncs
<1> QED
  BY <1>1, <1>2

\* A request has the devices of its rollout in hand, as long as they are not exchanged.
LEMMA DraftedNext ==
  ASSUME OneInv, Typed', Drafted, Next
  PROVE  Drafted'
<1> SUFFICES ASSUME NEW q \in Requests, pc'[q] # "idle"
    PROVE (/\ ~Known(job[q].rollout) => job[q].new.status = "CREATED"
           /\ Known(job[q].rollout) /\ Whole(job[q].rollout) =>
                job[q].new.devices = rollouts[job[q].rollout].devices)'
  BY DEF Drafted
<1>1. Typed /\ Note /\ job \in [Requests -> Jobs] /\ rollouts \in [Rollouts -> Documents]
  BY DEF OneInv, Typed, TypeOK, Next
<1>2. ASSUME NEW r \in Rollouts, Plays(q, r)
      PROVE  job'[q].rollout = r /\ job'[q].new = rollouts'[r] /\ Known(r)'
  <2>1. rollouts' = rollouts /\ Known(r)
    BY <1>2 DEF Plays, books, OneInv, Knows, Born, Known
  <2>2. job'[q].rollout = r /\ job'[q].new = rollouts[r]
    BY <1>1, <1>2, NullsTyped DEF Plays, Jobs
  <2> QED
    BY <2>1, <2>2 DEF Known
<1>3. ASSUME NEW r \in Rollouts, NEW draft \in Drafts, Creates(q, r, draft)
      PROVE  job'[q].rollout = r /\ job'[q].new.status = "CREATED" /\ ~Known(r)'
  <2>1. rollouts' = rollouts /\ ~Known(r)
    BY <1>3 DEF Creates, books, NoRollout, Known
  <2>2. job'[q].rollout = r /\ job'[q].new = draft
    BY <1>1, <1>3, NullsTyped DEF Creates, Jobs
  <2>3. draft.status = "CREATED"
    <3>1. ASSUME NEW o \in Rollouts, draft = [rollouts[o] EXCEPT !.status = "CREATED"]
          PROVE  draft.status = "CREATED"
      <4>1. rollouts[o] \in Documents
        BY <1>1
      <4> QED
        BY <3>1, <4>1 DEF Documents
    <3>2. CASE draft \in [status : {"CREATED"}, devices : SUBSET Devices \ {{}}, archive : {FALSE}]
      BY <3>2
    <3> QED
      BY <3>1, <3>2 DEF Drafts
  <2> QED
    BY <2>1, <2>2, <2>3 DEF Known
<1>4. CASE pc[q] # "idle" /\ SameJob(q)
  <2>1. job[q].rollout \in Rollouts
    BY <1>1, <1>4 DEF Typed, Working
  <2>2. PICK r \in Rollouts :
          job[q].rollout = r /\ job'[q].rollout = r /\ job'[q].new = job[q].new
    BY <1>4, <2>1 DEF SameJob
  <2>3. CASE Known(r)
    <3>1. Known(r)' /\ (Whole(r)' => Whole(r) /\ rollouts'[r].devices = rollouts[r].devices)
      BY <1>1, <2>2, <2>3, KnownStays, WholeStays
    <3>2. Whole(r) => job[q].new.devices = rollouts[r].devices
      BY <1>4, <2>2, <2>3 DEF Drafted
    <3> QED
      BY <2>2, <3>1, <3>2
  <2>4. CASE ~Known(r)
    <3>1. job[q].new.status = "CREATED"
      BY <1>4, <2>2, <2>4 DEF Drafted
    <3>2. ASSUME Known(r)' PROVE FALSE
      <4>1. PICK p \in Requests : Inserts(p) /\ job[p].rollout = r
        BY <2>2, <2>4, <3>2, KnownByInserting
      <4>2. p # q
        BY <1>1, <4>1 DEF Inserts, Ends, Typed, TypeOK, Actors
      <4> QED
        BY <1>4, <2>2, <2>4, <4>1, <4>2 DEF OneInv, Knows, Sure
    <3> QED
      BY <2>2, <3>1, <3>2
  <2> QED
    BY <2>3, <2>4
<1> QED
  BY <1>1, <1>2, <1>3, <1>4, JobGoes

\* A completed rollout is not played again while a device's report on it is handled,
\* unless the device is in two hands.
LEMMA CompletedMeanwhile ==
  ASSUME OneInv, Typed', Todos, Documented, Drafted, Reported, Next, NEW d \in Devices,
         pc[d] # "idle", pc'[d] # "idle", "raced" \notin odd'[d], Whole(report[d].rollout),
         rollouts[report[d].rollout].status = "COMPLETED"
  PROVE  rollouts'[report[d].rollout].status = "COMPLETED"
<1> DEFINE r == report[d].rollout
<1>1. Typed /\ Note /\ r \in Rollouts /\ states[r][d] # <<>> /\ Known(r)
  BY DEF OneInv, Next, Reported, Holds, Known
<1>2. d \in rollouts[r].devices
  BY <1>1 DEF Documented
<1>3. \A a, b \in InHand(d)' : a = b
  <2>1. Clean(d, {"raced"})'
    BY DEF Clean
  <2> QED
    BY <1>1, <2>1, StaysClean DEF Oddities
<1>4. ASSUME NEW q \in Requests, Prepares(q) \/ Maps(q), job[q].rollout = r PROVE FALSE
  <2>1. pc[q] # "idle" /\ pc'[q] # "idle" /\ job' = job
    BY <1>1, <1>4 DEF Prepares, Maps, Typed, TypeOK, Actors
  <2>2. d \in job'[q].new.devices
    BY <1>1, <1>2, <1>4, <2>1 DEF Drafted
  <2>3. q \in InHand(d)' /\ d \in InHand(d)' /\ q # d
    BY <2>1, <2>2 DEF InHand, Handling
  <2> QED
    BY <1>3, <2>3
<1>5. ASSUME NEW q \in Requests, Inserts(q) PROVE job[q].rollout # r
  BY <1>1, <1>5 DEF Inserts, OneInv, Knows, Sure
<1> HIDE DEF r
<1>6. rollouts[r].status = "COMPLETED"
  BY DEF r
<1>7. rollouts'[r].status = "COMPLETED"
  BY <1>1, <1>4, <1>5, <1>6, StatusWritten
<1> QED
  BY <1>7 DEF r

\* What the handler of a report holds stays true of its rollout.
LEMMA ReportedNext ==
  ASSUME OneInv, Typed', Todos, Documented, Drafted, Reported, Next
  PROVE  Reported'
<1>1. Typed /\ Note /\ completed \subseteq completed'
  BY CompletedStays DEF OneInv, Next
<1>2. ASSUME NEW d \in Devices, doing'[d] \in Rollouts PROVE states'[doing'[d]][d] # <<>>
  <2>1. doing'[d] = doing[d] \/ Starts(d)
    <3>1. doing \in [Devices -> Rollouts \cup {"none"}] /\ "none" \notin Rollouts
      BY <1>1 DEF Typed, TypeOK
    <3>2. ASSUME NEW e \in Events, Reports(d, e) PROVE doing'[d] = doing[d]
      BY <1>2, <3>1, <3>2 DEF Reports
    <3>3. ASSUME Device(d) PROVE doing'[d] = doing[d] \/ Starts(d)
      BY <3>2, <3>3 DEF Device, Fetches, ReportSaves, Clears, ReportCounts, ReportEnds,
        ReportOperates, device
    <3> QED
      BY <1>1, <3>3, DevicesStay, OtherDevicesStay DEF Next
  <2>2. CASE doing'[d] = doing[d]
    BY <1>1, <1>2, <2>2, DocumentsStay DEF Reported
  <2>3. CASE Starts(d)
    <3>1. PICK r \in Rollouts :
            /\ \E i \in DOMAIN states[r][d] : states[r][d][i] \notin Ended
            /\ doing' = [doing EXCEPT ![d] = r]
      BY <2>3 DEF Starts
    <3>2. doing'[d] = r /\ states' = states
      BY <1>1, <2>3, <3>1 DEF Starts, books, Typed, TypeOK
    <3>3. states[r][d] # <<>>
      BY <3>1
    <3> QED
      BY <3>2, <3>3
  <2> QED
    BY <2>1, <2>2, <2>3
<1>3. ASSUME NEW d \in Devices, NEW e \in Events, Accepts(d, e) PROVE Holds(d)'
  <2> DEFINE r == doing[d]
  <2>1. r \in Rollouts /\ states'[r][d] # <<>>
    BY <1>1, <1>3, DocumentsStay DEF Accepts, Reported
  <2>2. e = "COMPLETED" => <<r, d>> \in completed'
    BY <1>3 DEF Accepts, Reports
  <2>3. report'[d].seen = rollouts'[r].status /\ report'[d].size = Cardinality(rollouts'[r].devices)
        /\ report'[d].rollout = r /\ report'[d].event = e /\ ~report'[d].all
    BY <1>3 DEF Accepts
  <2> HIDE DEF r
  <2> QED
    BY <2>1, <2>2, <2>3 DEF Holds
<1>4. ASSUME NEW d \in Devices, pc[d] # "idle", pc'[d] # "idle", SameReport(d),
             pc'[d] = "state" => pc[d] = "state",
             \/ report'[d].all = report[d].all
             \/ report'[d].all = (CompletedOf(report[d].rollout) = report[d].size)
      PROVE  Holds(d)'
  <2>1. Holds(d) /\ report[d].rollout \in Rollouts
    BY <1>4 DEF Reported, Holds
  <2>2. PICK r \in Rollouts : report[d].rollout = r
    BY <2>1
  <2>3. Holds(d) /\ Known(r)
    BY <2>1, <2>2 DEF OneInv, Knows, Told
  <2>4. states'[r][d] # <<>>
    BY <1>1, <2>2, <2>3, DocumentsStay DEF Holds
  <2>5. Whole(r)' => Whole(r) /\ rollouts'[r].devices = rollouts[r].devices
    BY <1>1, <2>2, <2>3, WholeStays
  <2>6. Whole(r) /\ report'[d].all => \A b \in rollouts[r].devices : <<r, b>> \in completed
    <3>1. CASE report'[d].all = report[d].all
      BY <2>2, <2>3, <3>1 DEF Holds
    <3>2. CASE report'[d].all = (CompletedOf(r) = report[d].size)
      <4> SUFFICES ASSUME Whole(r), report'[d].all, NEW b \in rollouts[r].devices
                   PROVE  <<r, b>> \in completed
        OBVIOUS
      <4>1. CompletedOf(r) = Cardinality(rollouts[r].devices)
        BY <2>2, <2>3, <3>2 DEF Holds
      <4>2. b \in Devices /\ states[r][b] \in Seq(DeviceStatuses)
        BY <1>1, <2>2, <2>3 DEF Typed, TypeOK, Documents
      <4>3. states[r][b] # <<>> /\ states[r][b][1] = "COMPLETED"
        BY <1>1, <2>2, <2>3, <4>1, CountsCompleted
      <4>4. 1 \in DOMAIN states[r][b]
        BY <4>2, <4>3
      <4> QED
        BY <2>2, <2>3, <4>2, <4>3, <4>4 DEF Documented
    <3> QED
      BY <1>4, <2>2, <3>1, <3>2
  <2>7. Whole(r) /\ "raced" \notin odd'[d] /\ report[d].seen = "COMPLETED"
          => rollouts'[r].status = "COMPLETED"
    <3>1. "raced" \notin odd'[d] => "raced" \notin odd[d]
      BY <1>1 DEF Note, Kept
    <3> QED
      BY <1>4, <2>2, <2>3, <3>1, CompletedMeanwhile DEF Holds
  <2>8. /\ report'[d].rollout = r /\ report'[d].event = report[d].event
        /\ report'[d].size = report[d].size /\ report'[d].seen = report[d].seen
    BY <1>4, <2>2 DEF SameReport
  <2>9. pc'[d] = "state" /\ report[d].event = "COMPLETED" => <<r, d>> \in completed'
    BY <1>1, <1>4, <2>2, <2>3 DEF Holds
  <2>10. Whole(r) => report[d].size = Cardinality(rollouts[r].devices)
    BY <2>2, <2>3 DEF Holds
  <2> QED
    BY <1>1, <2>2, <2>3, <2>4, <2>5, <2>6, <2>7, <2>8, <2>9, <2>10 DEF Holds
<1>5. ASSUME NEW d \in Devices, pc'[d] # "idle" PROVE Holds(d)'
  <2>1. HandlerGoes(d)
    BY <1>1, EachHandlerGoes
  <2>2. CASE pc'[d] = pc[d] /\ report'[d] = report[d]
    BY <1>4, <1>5, <2>2 DEF SameReport
  <2>3. CASE /\ pc[d] \in {"state", "record", "operate"} /\ pc'[d] \in {"record", "operate", "find"}
             /\ SameReport(d) /\ report'[d].all = report[d].all
    BY <1>4, <2>3
  <2>4. CASE /\ ReportCounts(d) /\ pc'[d] = "save" /\ SameReport(d)
             /\ report'[d].all = (CompletedOf(report[d].rollout) = report[d].size)
    BY <1>4, <2>4 DEF ReportCounts
  <2> QED
    BY <1>3, <1>5, <2>1, <2>2, <2>3, <2>4 DEF HandlerGoes
<1> QED
  BY <1>2, <1>5 DEF Reported

\* A rollout that is completed is completed by all its devices.
LEMMA CompletedAllNext ==
  ASSUME OneInv, Typed', Documented, Drafted, Reported, CompletedAll, Next
  PROVE  CompletedAll'
<1> SUFFICES ASSUME NEW r \in Rollouts, rollouts'[r].status = "COMPLETED", Whole(r)',
                    NEW d \in rollouts'[r].devices
             PROVE  <<r, d>> \in completed'
  BY DEF CompletedAll
<1>1. Typed /\ Note /\ completed \subseteq completed'
  BY CompletedStays DEF OneInv, Next
<1>2. Known(r) => Whole(r) /\ rollouts'[r].devices = rollouts[r].devices
  BY <1>1, WholeStays
<1>3. CASE rollouts[r].status = "COMPLETED"
  BY <1>1, <1>2, <1>3 DEF CompletedAll, Known
<1>4. CASE rollouts[r].status # "COMPLETED"
  <2>1. ASSUME NEW q \in Requests, Inserts(q), job[q].rollout = r, rollouts'[r] = job[q].new
        PROVE  FALSE
    <3>1. pc[q] = "create" /\ ~Known(r)
      BY <2>1 DEF Inserts, OneInv, Knows, Sure
    <3> QED
      BY <2>1, <3>1 DEF Drafted
  <2>2. PICK b \in Devices : ReportEnds(b) /\ report[b].all /\ report[b].rollout = r
    BY <1>1, <1>4, <2>1, StatusWritten
  <2>3. Holds(b) /\ Known(r)
    BY <2>2 DEF ReportEnds, Reported, OneInv, Knows, Told
  <2> QED
    BY <1>1, <1>2, <2>2, <2>3 DEF Holds
<1> QED
  BY <1>3, <1>4

\* Once a device has completed what it owed, its first document says so, or its report is
\* about to write it; and once the documents of all devices do, the rollout is completed,
\* or the report that will find it is still handled, or it is just being played.
Saved ==
  \A r \in Rollouts, d \in Devices :
    Settled(d) /\ <<r, d>> \in completed /\ <<r, d>> \notin owed =>
      \/ states[r][d][1] \in Ended
      \/ pc[d] = "state" /\ report[d].rollout = r /\ report[d].event \in Ended
AllDone(r) ==
  \A d \in rollouts[r].devices :
    /\ Clean(d, {"edited", "archived", "raced"}) /\ <<r, d>> \notin owed
    /\ states[r][d] # <<>> /\ states[r][d][1] = "COMPLETED"
Finds(d, r) ==
  /\ report[d].rollout = r
  /\ \/ pc[d] \in {"state", "record", "operate", "find"}
     \/ pc[d] = "save" /\ report[d].all
PlayedBy(q, r) ==
  job[q].rollout = r /\ pc[q] \in {"insert", "map", "agents", "tell", "sync", "takeOut"}
Complete ==
  \A r \in Rollouts :
    rollouts[r].devices # {} /\ AllDone(r) =>
      \/ rollouts[r].status = "COMPLETED"
      \/ \E d \in rollouts[r].devices : Finds(d, r)
      \/ \E q \in Requests : PlayedBy(q, r)
CompleteInv ==
  /\ OneInv /\ Todos /\ AtHand /\ Marked /\ AnnouncedOwes /\ ToldOwes
  /\ Documented /\ Drafted /\ Reported /\ CompletedAll /\ Saved /\ Complete

\* The end of an installation is in the first document once its report wrote it.
LEMMA SavedNext ==
  ASSUME CompleteInv, Next
  PROVE  Saved'
<1> SUFFICES ASSUME NEW r \in Rollouts, NEW d \in Devices, Settled(d)', <<r, d>> \in completed',
                    <<r, d>> \notin owed'
             PROVE  \/ states'[r][d][1] \in Ended
                    \/ pc'[d] = "state" /\ report'[d].rollout = r /\ report'[d].event \in Ended
  BY DEF Saved
<1>1. Typed /\ Note
  BY DEF CompleteInv, OneInv, Next
<1>2. Settled(d) /\ Clean(d, {"raced", "archived"})'
  BY <1>1, StaysClean DEF Settled, Oddities
<1>3. CASE <<r, d>> \in completed /\ <<r, d>> \notin owed
  <2>1. states[r][d] # <<>> /\ states[r][d] \in Seq(DeviceStatuses)
        /\ states \in [Rollouts -> [Devices -> Seq(DeviceStatuses)]]
    BY <1>1, <1>3 DEF CompleteInv, Documented, Typed, TypeOK
  <2>2. ASSUME ReportSaves(d), report[d].rollout = r PROVE states'[r][d][1] \in Ended
    <3>1. pc[d] = "state" /\ states' = [states EXCEPT ![r][d][1] = report[d].event]
      BY <2>2 DEF ReportSaves
    <3>2. states'[r][d] = [states[r][d] EXCEPT ![1] = report[d].event]
      BY <2>1, <3>1
    <3>3. 1 \in DOMAIN states[r][d]
      BY <2>1
    <3>4. report[d].event \in Ended
      BY <1>2, <1>3, <2>2, <3>1 DEF CompleteInv, AnnouncedOwes
    <3> QED
      BY <3>2, <3>3, <3>4
  <2>3. ASSUME NEW q \in Requests, Syncs(q), job[q].rollout = r, d = job[q].current PROVE FALSE
    <3>1. ToldBy(q, d)
      BY <2>3 DEF Syncs, CompleteInv, AtHand, Todos, ToldBy
    <3> QED
      BY <1>2, <1>3, <2>3, <3>1 DEF CompleteInv, ToldOwes, Settled
  <2>4. CASE states[r][d][1] \in Ended
    BY <1>1, <2>1, <2>2, <2>3, <2>4, DocumentsStay
  <2>5. CASE pc[d] = "state" /\ report[d].rollout = r /\ report[d].event \in Ended
    <3>1. CASE ReportSaves(d)
      BY <2>2, <2>5, <3>1
    <3>2. CASE ~ReportSaves(d)
      <4>1. ASSUME Device(d) PROVE Fetches(d)
        BY <2>5, <3>2, <4>1 DEF Device, Starts, Reports, Begins, Clears, ReportCounts, ReportEnds,
          ReportOperates
      <4>2. pc'[d] = pc[d] /\ report'[d] = report[d]
        BY <1>1, <4>1, DevicesStay, OtherDevicesStay DEF Next, Fetches
      <4> QED
        BY <2>5, <4>2
    <3> QED
      BY <3>1, <3>2
  <2> QED
    BY <1>2, <1>3, <2>4, <2>5 DEF CompleteInv, Saved
<1>4. CASE <<r, d>> \notin completed \/ <<r, d>> \in owed
  <2>1. PICK e \in Events : Reports(d, e) /\ doing[d] = r /\ e \in Ended
    <3>1. CASE <<r, d>> \notin completed
      BY <3>1, CompletedByReport DEF Ended
    <3>2. CASE <<r, d>> \in owed
      BY <1>1, <3>2, OwedUntilReported
    <3> QED
      BY <1>4, <3>1, <3>2
  <2>2. pc'[d] = "state" /\ report'[d].rollout = r /\ report'[d].event = e
    BY <1>1, <1>2, <2>1, ReportHandled DEF CompleteInv
  <2> QED
    BY <2>1, <2>2
<1> QED
  BY <1>3, <1>4

\* The handler that will find all documents completed goes on until it completed the
\* rollout.
LEMMA FindsOn ==
  ASSUME CompleteInv, Typed', Next, NEW r \in Rollouts, NEW d \in rollouts[r].devices, Finds(d, r),
         rollouts[r].devices = rollouts'[r].devices, AllDone(r), AllDone(r)'
  PROVE  Finds(d, r)' \/ rollouts'[r].status = "COMPLETED"
<1>1. Typed /\ Note /\ OneInv /\ d \in Devices /\ rollouts \in [Rollouts -> Documents]
  BY DEF CompleteInv, OneInv, Next, Typed, TypeOK, Documents
<1>2. Holds(d) /\ pc[d] # "idle" /\ report[d].rollout = r
  BY <1>1 DEF CompleteInv, Reported, Finds
<1>3. Whole(r) /\ "raced" \notin odd[d]
  BY DEF Whole, AllDone, Clean
<1>4. HandlerGoes(d)
  BY <1>1, EachHandlerGoes
<1>5. CASE ReportEnds(d)
  <2>1. pc[d] = "save" /\ report[d].all
    BY <1>5 DEF ReportEnds, Finds
  <2>2. CASE report[d].seen = "COMPLETED"
    <3>1. rollouts[r].status = "COMPLETED" /\ rollouts' = rollouts
      BY <1>2, <1>3, <1>5, <2>1, <2>2 DEF Holds, ReportEnds, StatusSaved
    <3> QED
      BY <3>1
  <2>3. CASE report[d].seen # "COMPLETED"
    BY <1>1, <1>2, <1>5, <2>1, <2>3 DEF ReportEnds, StatusSaved, Documents
  <2> QED
    BY <2>2, <2>3
<1>6. CASE \E e \in Events : Accepts(d, e)
  BY <1>2, <1>6 DEF Accepts
<1>7. CASE /\ pc[d] \in {"state", "record", "operate"} /\ pc'[d] \in {"record", "operate", "find"}
           /\ SameReport(d) /\ report'[d].all = report[d].all
  BY <1>2, <1>7 DEF SameReport, Finds
<1>8. CASE /\ ReportCounts(d) /\ pc'[d] = "save" /\ SameReport(d)
           /\ report'[d].all = (CompletedOf(report[d].rollout) = report[d].size)
  <2>1. CompletedOf(r) = Cardinality(rollouts[r].devices)
    BY <1>1, <1>3, CountsCompleted DEF CompleteInv, AllDone
  <2>2. report'[d].all /\ report'[d].rollout = r
    BY <1>2, <1>3, <1>8, <2>1 DEF Holds, SameReport
  <2> QED
    BY <1>8, <2>2 DEF Finds
<1>9. CASE pc'[d] = pc[d] /\ report'[d] = report[d]
  BY <1>9 DEF Finds
<1> QED
  BY <1>2, <1>4, <1>5, <1>6, <1>7, <1>8, <1>9 DEF HandlerGoes

\* A request that plays a rollout goes on until its devices owe it.
LEMMA PlayedOn ==
  ASSUME CompleteInv, Next, NEW r \in Rollouts, NEW q \in Requests, PlayedBy(q, r),
         rollouts[r].devices # {}, AllDone(r)
  PROVE  PlayedBy(q, r)'
<1>1. Typed /\ OneInv /\ Known(r) /\ pc[q] # "idle"
  BY DEF CompleteInv, OneInv, PlayedBy, Knows, Sure
<1>2. pc[q] # "takeOut"
  <2> SUFFICES ASSUME pc[q] = "takeOut" PROVE FALSE
    OBVIOUS
  <2>1. PICK d \in rollouts[r].devices : TRUE
    OBVIOUS
  <2>2. d \in Devices /\ Whole(r) /\ Clean(d, {"raced", "archived"}) /\ <<r, d>> \notin owed
    BY <1>1, <2>1 DEF Typed, TypeOK, Documents, AllDone, Whole, Clean
  <2>3. d \in job[q].new.devices
    BY <1>1, <2>1, <2>2 DEF CompleteInv, Drafted, PlayedBy
  <2>4. ToldBy(q, d)
    BY <2>3 DEF CompleteInv, Todos, ToldBy
  <2> QED
    BY <2>2, <2>4 DEF CompleteInv, ToldOwes, PlayedBy
<1>3. CASE Goes(q)
  BY <1>2, <1>3 DEF Goes, SameJob, PlayedBy
<1>4. CASE pc'[q] = pc[q] /\ job'[q] = job[q] /\ todo'[q] = todo[q]
  BY <1>4 DEF PlayedBy
<1> QED
  BY <1>1, <1>3, <1>4, EachGoes

\* Whoever comes last completes the rollout.
LEMMA CompleteNext ==
  ASSUME CompleteInv, Typed', Documented', Next
  PROVE  Complete'
<1> SUFFICES ASSUME NEW r \in Rollouts, rollouts'[r].devices # {}, AllDone(r)'
             PROVE  \/ rollouts'[r].status = "COMPLETED"
                    \/ \E d \in rollouts'[r].devices : Finds(d, r)'
                    \/ \E q \in Requests : PlayedBy(q, r)'
  BY DEF Complete
<1>1. Typed /\ Note /\ OneInv /\ rollouts \in [Rollouts -> Documents] /\ "raced" \in Oddities
  BY DEF CompleteInv, OneInv, Next, Typed, TypeOK, Oddities
<1>2. PICK d0 \in rollouts'[r].devices : TRUE
  OBVIOUS
<1>3. rollouts'[r].devices \subseteq Devices
  BY DEF Typed, TypeOK, Documents
<1>4. Whole(r)' /\ Known(r)'
  BY <1>2, <1>3 DEF AllDone, Whole, Clean, Documented
<1>5. Known(r)
  <2> SUFFICES ASSUME ~Known(r) PROVE FALSE
    OBVIOUS
  <2>1. states[r][d0] = <<>>
    BY <1>3 DEF CompleteInv, Documented
  <2>2. PICK q \in Requests : Inserts(q)
    BY <1>1, <1>4, KnownByInserting
  <2>3. states' = states
    BY <2>2 DEF Inserts
  <2> QED
    BY <2>1, <2>3 DEF AllDone
<1>6. Whole(r) /\ rollouts'[r].devices = rollouts[r].devices
  BY <1>1, <1>4, <1>5, WholeStays
<1>7. CASE AllDone(r)
  <2>1. CASE rollouts[r].status = "COMPLETED"
    <3>1. CASE rollouts'[r].status = "COMPLETED"
      BY <3>1
    <3>2. CASE rollouts'[r].status # "COMPLETED"
      <4>1. ASSUME NEW q \in Requests, Inserts(q) PROVE job[q].rollout # r
        BY <1>1, <1>5, <4>1 DEF Inserts, OneInv, Knows, Sure
      <4>2. PICK q \in Requests : (Prepares(q) \/ Maps(q)) /\ job[q].rollout = r
        BY <1>1, <2>1, <3>2, <4>1, StatusWritten
      <4>3. PlayedBy(q, r)'
        BY <1>1, <4>2 DEF Prepares, Maps, PlayedBy, Typed, TypeOK, Actors
      <4> QED
        BY <4>3
    <3> QED
      BY <3>1, <3>2
  <2>2. ASSUME NEW d \in rollouts[r].devices, Finds(d, r)
        PROVE  Finds(d, r)' \/ rollouts'[r].status = "COMPLETED"
    BY <1>6, <1>7, <2>2, FindsOn
  <2>3. ASSUME NEW q \in Requests, PlayedBy(q, r) PROVE PlayedBy(q, r)'
    BY <1>2, <1>6, <1>7, <2>3, PlayedOn
  <2>4. \/ rollouts[r].status = "COMPLETED"
        \/ \E d \in rollouts[r].devices : Finds(d, r)
        \/ \E q \in Requests : PlayedBy(q, r)
    BY <1>2, <1>6, <1>7 DEF CompleteInv, Complete
  <2> QED
    BY <1>6, <2>1, <2>2, <2>3, <2>4
<1>8. CASE ~AllDone(r)
  <2>1. PICK d \in rollouts[r].devices :
          ~(/\ Clean(d, {"edited", "archived", "raced"}) /\ <<r, d>> \notin owed
            /\ states[r][d] # <<>> /\ states[r][d][1] = "COMPLETED")
    BY <1>8 DEF AllDone
  <2>2. /\ d \in Devices /\ d \in rollouts'[r].devices
        /\ Clean(d, {"edited", "archived", "raced"})' /\ <<r, d>> \notin owed'
        /\ states'[r][d] # <<>> /\ states'[r][d][1] = "COMPLETED"
    BY <1>3, <1>6, <2>1 DEF AllDone
  <2>3. Clean(d, {"edited", "archived", "raced"}) /\ Clean(d, {"raced", "archived"})'
    <3>1. Clean(d, {"edited", "archived", "raced"})
      BY <1>1, <2>2, StaysClean DEF Oddities
    <3> QED
      BY <2>2, <3>1 DEF Clean
  <2>4. CASE <<r, d>> \in owed
    <3>1. PICK e \in Events \cap Ended : Reports(d, e) /\ doing[d] = r
      BY <1>1, <2>2, <2>4, OwedUntilReported
    <3>2. pc'[d] = "state" /\ report'[d].rollout = r
      BY <1>1, <2>2, <2>3, <3>1, ReportHandled DEF CompleteInv
    <3> QED
      BY <2>2, <3>2 DEF Finds
  <2>5. CASE states[r][d] = <<>>
    <3>1. states[r][d] \in Seq(DeviceStatuses) /\ states'[r][d] # states[r][d]
      BY <1>1, <2>2, <2>5 DEF Typed, TypeOK
    <3>2. PICK q \in Requests : InsertsStates(q) /\ job[q].rollout = r
      <4>1. ASSUME NEW i, NEW v, states'[r][d] = [states[r][d] EXCEPT ![i] = v] PROVE FALSE
        BY <2>5, <3>1, <4>1
      <4>2. states'[r][d] # [states[r][d] EXCEPT ![Len(states[r][d])] = "DEVICE_REMOTE_STATE_SYNCED"]
        BY <4>1
      <4>3. states'[r][d] # [states[r][d] EXCEPT ![1] = report[d].event]
        BY <4>1
      <4> QED
        BY <1>1, <2>2, <3>1, <4>2, <4>3, StatesWritten
    <3>3. PlayedBy(q, r)'
      BY <1>1, <3>2 DEF InsertsStates, PlayedBy, Typed, TypeOK, Actors
    <3> QED
      BY <3>3
  <2>6. CASE states[r][d] # <<>> /\ states[r][d][1] # "COMPLETED" /\ <<r, d>> \notin owed
    <3>1. ASSUME NEW q \in Requests, Syncs(q), job[q].rollout = r, d = job[q].current PROVE FALSE
      <4>1. ToldBy(q, d) /\ Clean(d, {"raced", "archived"})
        BY <2>3, <3>1 DEF Syncs, CompleteInv, AtHand, Todos, ToldBy, Clean
      <4> QED
        BY <2>2, <2>6, <3>1, <4>1 DEF CompleteInv, ToldOwes
    <3>2. ReportSaves(d) /\ report[d].rollout = r
      BY <1>1, <2>2, <2>6, <3>1, DocumentsStay
    <3>3. pc'[d] \in {"record", "operate", "find"} /\ report'[d].rollout = r
      BY <1>1, <2>2, <3>2 DEF ReportSaves, Typed, TypeOK, Actors
    <3> QED
      BY <2>2, <3>3 DEF Finds
  <2> QED
    BY <2>1, <2>3, <2>4, <2>5, <2>6
<1> QED
  BY <1>7, <1>8

\* The invariant holds at first, when there is no rollout,
LEMMA CompleteInit == Init => CompleteInv
<1> SUFFICES ASSUME Init PROVE CompleteInv
  OBVIOUS
<1>1. OneInv /\ Todos /\ Marked /\ AnnouncedOwes /\ ToldOwes
  BY ToldInit, ServiceInit DEF ToldInv, OwesInv, ServiceInv
<1>2. /\ \A a \in Actors : pc[a] = "idle"
      /\ \A r \in Rollouts : rollouts[r].status = "none" /\ rollouts[r].devices = {}
      /\ \A r \in Rollouts, d \in Devices : states[r][d] = <<>>
      /\ \A d \in Devices : doing[d] \notin Rollouts
      /\ completed = {}
  BY DEF Init, NoRollout
<1>3. AtHand /\ Drafted /\ Reported
  BY <1>2 DEF AtHand, Drafted, Reported, Actors
<1>4. Documented
  BY <1>2 DEF Documented
<1>5. CompletedAll /\ Saved /\ Complete
  BY <1>2 DEF CompletedAll, Saved, Complete
<1> QED
  BY <1>1, <1>3, <1>4, <1>5 DEF CompleteInv

\* and every step keeps it.
LEMMA CompleteInvNext == CompleteInv /\ [Next]_vars => CompleteInv'
<1> SUFFICES ASSUME CompleteInv, [Next]_vars PROVE CompleteInv'
  OBVIOUS
<1>1. OneInv' /\ Typed'
  BY OneNext DEF CompleteInv, OneInv
<1>2. CASE Next
  <2>1. Typed /\ Note /\ OneInv
    BY <1>2 DEF CompleteInv, OneInv, Next
  <2>2. (Todos /\ AtHand /\ Marked /\ AnnouncedOwes /\ ToldOwes)'
    BY <1>2, <2>1, TodosNext, AtHandNext, MarkedNext, AnnouncedOwesNext, ToldOwesNext DEF CompleteInv
  <2>3. (Documented /\ Drafted /\ Reported /\ CompletedAll)'
    BY <1>1, <1>2, <2>1, DocumentedNext, DraftedNext, ReportedNext, CompletedAllNext DEF CompleteInv
  <2>4. Saved' /\ Complete'
    BY <1>1, <1>2, <2>3, SavedNext, CompleteNext
  <2> QED
    BY <1>1, <2>2, <2>3, <2>4 DEF CompleteInv
<1>3. CASE UNCHANGED vars
  <2> USE <1>3 DEF vars, books, device, history, CompleteInv
  <2>1. (Todos /\ AtHand /\ Marked /\ AnnouncedOwes /\ ToldOwes)'
    BY DEF Todos, AtHand, Marked, Clean, AnnouncedOwes, Settled, Ending, ToldOwes, ToldBy
  <2>2. (Documented /\ Drafted /\ CompletedAll)'
    BY DEF Documented, Known, Whole, Drafted, CompletedAll
  <2>3. Reported'
    BY DEF Reported, Holds, Whole
  <2>4. Saved'
    BY DEF Saved, Settled, Clean
  <2>5. Complete'
    BY DEF Complete, AllDone, Clean, Finds, PlayedBy
  <2> QED
    BY <1>1, <2>1, <2>2, <2>3, <2>4, <2>5
<1> QED
  BY <1>2, <1>3

\* A rollout is completed only if all its devices completed it; and once they all have,
\* owe nothing and nobody has them in hand, it is: whichever of their reports was the
\* last, and however they overlapped; unless its devices were edited, it was archived, or
\* one was in two hands at once.
THEOREM CompletionHolds == SafeSpec => []CompletionIsTrue
<1>1. CompleteInv => CompletionIsTrue
  <2> SUFFICES ASSUME CompleteInv, NEW r \in Rollouts
      PROVE  LET devices == rollouts[r].devices
                 all == \A d \in devices : <<r, d>> \in completed
                 kept(oddities) == \A d \in devices : odd[d] \cap oddities = {}
             IN /\ rollouts[r].status = "COMPLETED" /\ kept({"edited"}) => all
                /\ /\ devices # {} /\ all
                   /\ \A d \in devices :
                        Idle(d) /\ <<r, d>> \notin owed /\ states[r][d][1] # "FAILED"
                   /\ kept({"edited", "archived", "raced"})
                   => rollouts[r].status = "COMPLETED"
    BY DEF CompletionIsTrue
  <2>1. rollouts[r].devices \subseteq Devices
    BY DEF CompleteInv, OneInv, Typed, TypeOK, Documents
  <2>2. ASSUME rollouts[r].status = "COMPLETED", NEW d \in rollouts[r].devices,
               \A b \in rollouts[r].devices : odd[b] \cap {"edited"} = {}
        PROVE  <<r, d>> \in completed
    <3>1. Whole(r)
      BY <2>2 DEF Whole
    <3> QED
      BY <2>2, <3>1 DEF CompleteInv, CompletedAll
  <2>3. ASSUME NEW d0 \in rollouts[r].devices,
               \A d \in rollouts[r].devices :
                 /\ <<r, d>> \in completed /\ <<r, d>> \notin owed /\ Idle(d)
                 /\ states[r][d][1] # "FAILED" /\ Clean(d, {"edited", "archived", "raced"})
        PROVE  rollouts[r].status = "COMPLETED"
    <3>1. \A d \in rollouts[r].devices : pc[d] = "idle" /\ Handling(d) = {}
      BY <2>3 DEF Idle, InHand
    <3>2. AllDone(r)
      <4> SUFFICES ASSUME NEW d \in rollouts[r].devices
                   PROVE  states[r][d] # <<>> /\ states[r][d][1] = "COMPLETED"
        BY <2>3 DEF AllDone
      <4>1. states[r][d] # <<>>
        BY <2>1, <2>3 DEF CompleteInv, Documented
      <4>2. Settled(d)
        BY <2>3 DEF Settled, Clean
      <4>3. states[r][d][1] \in Ended
        BY <2>1, <2>3, <3>1, <4>2 DEF CompleteInv, Saved
      <4> QED
        BY <2>3, <4>1, <4>3 DEF Ended
    <3>3. ~\E d \in rollouts[r].devices : Finds(d, r)
      BY <3>1 DEF Finds
    <3>4. ~\E q \in Requests : PlayedBy(q, r)
      <4> SUFFICES ASSUME NEW q \in Requests, PlayedBy(q, r) PROVE FALSE
        OBVIOUS
      <4>1. Known(r) /\ Whole(r)
        BY <2>1, <2>3, <3>2 DEF CompleteInv, Documented, AllDone, Whole, Clean
      <4>2. d0 \in job[q].new.devices /\ pc[q] # "idle"
        BY <4>1 DEF CompleteInv, Drafted, PlayedBy
      <4>3. q \in Handling(d0)
        BY <4>2 DEF Handling
      <4> QED
        BY <3>1, <4>3
    <3> QED
      BY <3>2, <3>3, <3>4 DEF CompleteInv, Complete
  <2> QED
    BY <2>2, <2>3 DEF Clean
<1> QED
  BY <1>1, CompleteInit, CompleteInvNext, PTL DEF SafeSpec
=============================================================================
