------------------------------ MODULE OtaUpdate ------------------------------
(***************************************************************************)
(* Over-the-air firmware updates: a rollout (ota_update) and its row for   *)
(* each of its chargers (ota_update_chargers).                             *)
(*                                                                         *)
(* createRollout sends the update to the chargers it can reach; the job of *)
(* a charger's next BootNotification sends it to the others.  The charger  *)
(* reports its progress without saying what it is installing: the handler  *)
(* takes it for the newest row of the charger, and sums the rows of that   *)
(* row's rollout up.  Nothing locks a row between two queries.             *)
(***************************************************************************)
EXTENDS Naturals, FiniteSetsExt

CONSTANTS
  Rollouts,      \* requests to createRollout, each of a name of its own
  Chargers,
  Fleet,         \* the chargers each rollout is for
  MaxBusy,       \* bound: creations, reports, jobs and deletions at work at once
  MaxBoots,      \* bound: jobs of a BootNotification that find something to send
  MaxOdd         \* bound: failed sends, deletions and retries of a failed update,
                 \*   all together

ASSUME OtaAssumption ==
  /\ IsFiniteSet(Rollouts) /\ IsFiniteSet(Chargers) /\ Rollouts \cap Chargers = {}
  /\ (Rollouts \cup Chargers) \cap {"none", "booter", "admin"} = {}
  /\ Fleet \in [Rollouts -> (SUBSET Chargers) \ {{}}]
  /\ MaxBusy \in Nat /\ MaxBoots \in Nat /\ MaxOdd \in Nat

\* "Downloading" stands for Downloading, Downloaded and Installing, "Failed" for
\* DownloadFailed and InstallationFailed.
RowStatuses == {"Created", "Sent", "Skipped", "Downloading", "Installed", "Failed"}
RolloutStatuses == {"Created", "In-Progress", "Partially-Completed", "Completed"}
Actors == Rollouts \cup Chargers \cup {"booter", "admin"}

VARIABLES
  rows,          \* ota_update_chargers.status per rollout and charger, or "none"
  born,          \* createdAt of a rollout's rows, as their rank
  status,        \* ota_update.status, or "none"
  pc,            \* the await each creation, report, job and deletion is at
  todo,          \* the chargers a creation has still to send to
  olds,          \* the Created rows it read
  current,       \* the charger a creation, the rollout another actor is at work on
  report,        \* of each charger's handler: what was reported, and the sum it made
  booting,       \* the charger of the job of OcppUpdatePendingFirmwareQueue, or "none"
  doing, phase,  \* of each charger: the rollout it was told of, and how far it is
  boots, spent,  \* how many of MaxBoots and of MaxOdd happened
  told,          \* history: <<rollout, charger>> that reached the charger,
  installed,     \*   that the charger installed
  odd,           \* history: what happened to each charger (see Happens)
  crossed        \* history: rollouts of which two reports were handled at once

books == <<rows, born, status>>
work == <<pc, todo, olds, current, report, booting>>
chargers == <<doing, phase>>
bounds == <<boots, spent>>
vars == <<books, work, chargers, bounds, told, installed, odd, crossed>>

Nothing == [status |-> "none", sum |-> "none"]

Init ==
  /\ rows = [r \in Rollouts |-> [c \in Chargers |-> "none"]]
  /\ born = [r \in Rollouts |-> 0]
  /\ status = [r \in Rollouts |-> "none"]
  /\ pc = [a \in Actors |-> "idle"]
  /\ todo = [r \in Rollouts |-> {}]
  /\ olds = [r \in Rollouts |-> {}]
  /\ current = [a \in Actors |-> "none"]
  /\ report = [c \in Chargers |-> Nothing]
  /\ booting = "none"
  /\ doing = [c \in Chargers |-> "none"]
  /\ phase = [c \in Chargers |-> "idle"]
  /\ boots = 0 /\ spent = 0
  /\ told = {} /\ installed = {}
  /\ odd = [c \in Chargers |-> {}]
  /\ crossed = {}

Spends == spent < MaxOdd /\ spent' = spent + 1

Begins(a) ==
  /\ pc[a] = "idle"
  /\ Cardinality({b \in Actors : pc[b] \notin {"idle", "done"}}) < MaxBusy

At(a, label) == pc[a] = label
Goto(a, label) == pc' = [pc EXCEPT ![a] = label]
Takes(a, x) == current' = [current EXCEPT ![a] = x]

HasRow(r, c) == rows[r][c] # "none"
\* An update of a row that may be gone meanwhile; the first form brings it back.
Updated(r, c, s) == IF HasRow(r, c) THEN [rows EXCEPT ![r][c] = s] ELSE rows

\* UpdateFirmware: sendOcppEvent answers with a code and never throws; an update may
\* reach its charger and its answer be lost.
Sends(r, c, reached, ok) ==
  /\ ok => reached
  /\ IF ok THEN UNCHANGED spent ELSE Spends
  /\ told' = IF reached THEN told \cup {<<r, c>>} ELSE told
  /\ doing' = IF reached THEN [doing EXCEPT ![c] = r] ELSE doing
  /\ phase' = IF reached THEN [phase EXCEPT ![c] = "told"] ELSE phase

------------------------------------------------------------------------------
(* createRollout *)

\* A charger whose update is under way cannot have another one. The first form forgets
\* those that have not begun.
Begun == {"Downloading"}
UnderWay == {"Sent", "Downloading"}

Creates(r) ==
  /\ Begins(r)
  /\ IF \E s \in Rollouts, c \in Fleet[r] : rows[s][c] \in UnderWay
     THEN Goto(r, "done") /\ UNCHANGED todo
     ELSE Goto(r, "find") /\ todo' = [todo EXCEPT ![r] = Fleet[r]]
  /\ UNCHANGED <<books, olds, current, report, booting, chargers, bounds, told, installed>>

FindsCreated(r) ==
  /\ At(r, "find")
  /\ olds' = [olds EXCEPT ![r] = {o \in Rollouts \X todo[r] : rows[o[1]][o[2]] = "Created"}]
  /\ Goto(r, IF olds'[r] = {} THEN "save" ELSE "skip")
  /\ UNCHANGED <<books, todo, current, report, booting, chargers, bounds, told, installed>>

\* Updates that were never sent are skipped in favour of the new one.
Skips(r) ==
  /\ At(r, "skip") /\ Goto(r, "save")
  /\ rows' = [s \in Rollouts |-> [c \in Chargers |->
                IF <<s, c>> \in olds[r] /\ HasRow(s, c) THEN "Skipped" ELSE rows[s][c]]]
  /\ olds' = [olds EXCEPT ![r] = {}]
  /\ UNCHANGED <<born, status, todo, current, report, booting, chargers, bounds, told,
                 installed>>

Saves(r) ==
  /\ At(r, "save") /\ Goto(r, "insert")
  /\ status' = [status EXCEPT ![r] = "Created"]
  /\ UNCHANGED <<rows, born, todo, olds, current, report, booting, chargers, bounds, told,
                 installed>>

Inserts(r) ==
  /\ At(r, "insert") /\ Goto(r, "send")
  /\ rows' = [rows EXCEPT ![r] =
                [c \in Chargers |-> IF c \in Fleet[r] THEN "Created" ELSE "none"]]
  /\ born' = [born EXCEPT ![r] = 1 + Max({born[s] : s \in Rollouts})]
  /\ UNCHANGED <<status, todo, olds, current, report, booting, chargers, bounds, told,
                 installed>>

\* Only an answer counts as sent. The first form does not look at it.
AnyAnswer(ok) == TRUE
Counts(ok) == ok
SendsTo(r, c, reached, ok) ==
  /\ At(r, "send") /\ c \in todo[r]
  /\ todo' = [todo EXCEPT ![r] = @ \ {c}]
  /\ Sends(r, c, reached, ok)
  /\ Goto(r, IF Counts(ok) THEN "mark" ELSE IF todo'[r] = {} THEN "done" ELSE "send")
  /\ Takes(r, IF Counts(ok) THEN c ELSE "none")
  /\ UNCHANGED <<books, olds, report, booting, boots, installed>>

Marks(r) ==
  /\ At(r, "mark") /\ Goto(r, IF todo[r] = {} THEN "done" ELSE "send")
  /\ rows' = Updated(r, current[r], "Sent")
  /\ Takes(r, "none")
  /\ UNCHANGED <<born, status, todo, olds, report, booting, chargers, bounds, told, installed>>

------------------------------------------------------------------------------
(* The job of a BootNotification *)

\* The newest update of the charger that was not sent, of a rollout that exists. A
\* boot without one leaves everything as it is.
Unsent(c) == {r \in Rollouts : rows[r][c] = "Created"}
BootReads(c, r) ==
  /\ Begins("booter") /\ Goto("booter", "send")
  /\ boots < MaxBoots /\ boots' = boots + 1
  /\ r \in Unsent(c) /\ \A s \in Unsent(c) : born[s] <= born[r]
  /\ status[r] # "none"
  /\ Takes("booter", r) /\ booting' = c
  /\ UNCHANGED <<books, todo, olds, report, chargers, spent, told, installed>>

BootSends(reached, ok) ==
  /\ At("booter", "send") /\ Goto("booter", "mark")
  /\ Sends(current["booter"], booting, reached, ok)
  /\ UNCHANGED <<books, todo, olds, current, report, booting, boots, installed>>

\* Here whatever the answer was.
BootMarks ==
  /\ At("booter", "mark") /\ Goto("booter", "idle")
  /\ rows' = Updated(current["booter"], booting, "Sent")
  /\ Takes("booter", "none") /\ booting' = "none"
  /\ UNCHANGED <<born, status, todo, olds, report, chargers, bounds, told, installed>>

------------------------------------------------------------------------------
(* The charger, and the handler of its reports *)

\* What it reports next; after a failure it may try again.
Follows(p) ==
  CASE p = "told" -> {"Downloading"}
    [] p = "Downloading" -> {"Installed", "Failed"}
    [] p = "Failed" -> {"Downloading"}
    [] OTHER -> {}

\* The newest row of the charger, whatever it is at work on. The first form takes the
\* oldest.
Mine(c) == {r \in Rollouts : HasRow(r, c)}
Oldest(c) == {r \in Mine(c) : \A s \in Mine(c) : born[r] <= born[s]}
Newest(c) == {r \in Mine(c) : \A s \in Mine(c) : born[s] <= born[r]}

Reports(c, s) ==
  /\ Begins(c)
  /\ s \in Follows(phase[c]) /\ phase' = [phase EXCEPT ![c] = s]
  /\ IF phase[c] = "Failed" THEN Spends ELSE UNCHANGED spent
  /\ installed' = IF s = "Installed" THEN installed \cup {<<doing[c], c>>} ELSE installed
  /\ IF Newest(c) = {} THEN UNCHANGED <<pc, current, report>>
     ELSE /\ \E r \in Newest(c) : Goto(c, "write") /\ Takes(c, r)
          /\ report' = [report EXCEPT ![c] = [status |-> s, sum |-> "none"]]
  /\ UNCHANGED <<books, todo, olds, booting, doing, boots, told>>

ReportWrites(c) ==
  /\ At(c, "write") /\ Goto(c, "sum")
  /\ rows' = Updated(current[c], c, report[c].status)
  /\ UNCHANGED <<born, status, todo, olds, current, report, booting, chargers, bounds, told,
                 installed>>

\* The rollout is completed once all its chargers installed it, and partially
\* completed once all have ended. The first form forgets those not begun.
Having(r, statuses) == {c \in Chargers : rows[r][c] \in statuses}
SumOver(r, open) ==
  IF Having(r, RowStatuses) = Having(r, {"Installed"}) THEN "Completed"
  ELSE IF Having(r, {"Installed", "Failed"}) # {} /\ Having(r, open) = {}
       THEN "Partially-Completed"
  ELSE IF Having(r, RowStatuses \ {"Created", "Skipped"}) # {} THEN "In-Progress"
  ELSE "Created"
SumOfBegun(r) == SumOver(r, {"Downloading", "Sent"})
Sum(r) == SumOver(r, {"Downloading", "Sent", "Created", "Skipped"})

ReportSums(c) ==
  /\ At(c, "sum") /\ Goto(c, "end")
  /\ report' = [report EXCEPT ![c].sum = Sum(current[c])]
  /\ UNCHANGED <<books, todo, olds, current, booting, chargers, bounds, told, installed>>

ReportEnds(c) ==
  /\ At(c, "end") /\ Goto(c, "idle") /\ Takes(c, "none")
  /\ LET r == current[c] IN
       status' = IF status[r] = "none" THEN status ELSE [status EXCEPT ![r] = report[c].sum]
  /\ report' = [report EXCEPT ![c] = Nothing]
  /\ UNCHANGED <<rows, born, todo, olds, booting, chargers, bounds, told, installed>>

------------------------------------------------------------------------------
(* deleteOtaUpdate; updateOtaUpdate, under the same check, changes nothing of these *)

\* A rollout is deleted before any of its chargers has begun.
Deletes(r) ==
  /\ Begins("admin") /\ Spends
  /\ status[r] # "none"
  /\ Having(r, {"Downloading", "Installed", "Failed"}) = {}
  /\ Goto("admin", "rows") /\ Takes("admin", r)
  /\ UNCHANGED <<books, todo, olds, report, booting, chargers, boots, told, installed>>

DeletesRows ==
  /\ At("admin", "rows") /\ Goto("admin", "rollout")
  /\ rows' = [rows EXCEPT ![current["admin"]] = [c \in Chargers |-> "none"]]
  /\ born' = [born EXCEPT ![current["admin"]] = 0]
  /\ UNCHANGED <<status, todo, olds, current, report, booting, chargers, bounds, told,
                 installed>>

DeletesRollout ==
  /\ At("admin", "rollout") /\ Goto("admin", "idle") /\ Takes("admin", "none")
  /\ status' = [status EXCEPT ![current["admin"]] = "none"]
  /\ UNCHANGED <<rows, born, todo, olds, report, booting, chargers, bounds, told, installed>>

------------------------------------------------------------------------------
Creation(r) ==
  \/ Creates(r) \/ FindsCreated(r) \/ Skips(r) \/ Saves(r) \/ Inserts(r) \/ Marks(r)
  \/ \E c \in Chargers, reached \in BOOLEAN, ok \in BOOLEAN : SendsTo(r, c, reached, ok)
Boot ==
  \/ \E c \in Chargers, r \in Rollouts : BootReads(c, r)
  \/ \E reached \in BOOLEAN, ok \in BOOLEAN : BootSends(reached, ok)
  \/ BootMarks
Report(c) ==
  \/ \E s \in RowStatuses : Reports(c, s)
  \/ ReportWrites(c) \/ ReportSums(c) \/ ReportEnds(c)
Deletion == (\E r \in Rollouts : Deletes(r)) \/ DeletesRows \/ DeletesRollout

\* Which creations are at work on a charger, when two actors have it in hand, and of
\* which chargers a report of a rollout is handled.
Creating(c) == {r \in Rollouts : c \in todo[r] \/ current[r] = c}
Overlap(c) ==
  \/ Cardinality(Creating(c)) > 1
  \/ Creating(c) # {} /\ booting = c
  \/ current[c] # "none" /\ Creating(c) \ {current[c]} # {}
  \/ current[c] # "none" /\ booting = c /\ current["booter"] # current[c]
Handling(r) == {c \in Chargers : current[c] = r}

\* What may happen to a charger: two creations, or one and the job, are at work on it at
\* once, or either is while a report of another rollout is handled; it gets an update
\* whose answer is lost; the job's send is not answered; a row of its is deleted; it
\* tries a failed update again; a report is handled before the row is marked as sent.
Oddities == {"overlap", "lost", "unanswered", "deleted", "again", "outrun"}
Happens(c, o) ==
  CASE o = "overlap" -> Overlap(c)'
    [] o = "lost" -> spent' > spent /\ \E r \in Rollouts : <<r, c>> \in told' \ told
    [] o = "unanswered" -> spent' > spent /\ booting = c /\ pc'["booter"] # pc["booter"]
    [] o = "deleted" -> \E r \in Rollouts : HasRow(r, c) /\ ~HasRow(r, c)'
    [] o = "again" -> phase[c] = "Failed" /\ phase'[c] = "Downloading"
    [] o = "outrun" -> \E r \in Rollouts :
                  rows'[r][c] = "Sent" /\ rows[r][c] \notin {"Sent", "Created"}
Note ==
  /\ odd' = [c \in Chargers |-> odd[c] \cup {o \in Oddities : Happens(c, o)}]
  /\ crossed' = crossed \cup {r \in Rollouts : Cardinality(Handling(r)') > 1}

Next ==
  /\ \/ \E r \in Rollouts : Creation(r)
     \/ Boot
     \/ \E c \in Chargers : Report(c)
     \/ Deletion
  /\ Note

SafeSpec == Init /\ [][Next]_vars

------------------------------------------------------------------------------
(* Properties *)

\* The variables keep their types, and no row comes back that was deleted.
Labels == {"idle", "find", "skip", "save", "insert", "send", "mark", "done", "write", "sum",
           "end", "rows", "rollout"}
TypeOK ==
  /\ rows \in [Rollouts -> [Chargers -> RowStatuses \cup {"none"}]]
  /\ status \in [Rollouts -> RolloutStatuses \cup {"none"}]
  /\ pc \in [Actors -> Labels]
  /\ \A r \in Rollouts : todo[r] \subseteq Chargers /\ born[r] \in 0..Cardinality(Rollouts)
  /\ told \in SUBSET (Rollouts \X Chargers) /\ installed \subseteq told
  /\ \A r \in Rollouts, c \in Chargers : HasRow(r, c) => born[r] > 0

\* No charger has two updates under way: createRollout refuses a second one, and the
\* newer of two that were not sent is the only one to be sent; unless two creations,
\* or one and the job of the charger's boot, had it in hand at once.
OneAtATime ==
  \A c \in Chargers :
    \/ Cardinality({r \in Rollouts : rows[r][c] \in {"Sent", "Downloading"}}) <= 1
    \/ "overlap" \in odd[c]

\* A row says Installed only if its charger has installed that rollout, although a
\* report does not say what was installed; unless an answer was lost, a row deleted, a
\* failed update tried again, or two were in hand at once.
InstalledIsReal ==
  \A r \in Rollouts, c \in Chargers :
    rows[r][c] = "Installed" =>
      <<r, c>> \in installed \/ odd[c] \cap {"overlap", "lost", "deleted", "again"} # {}

\* When nobody is at work on a rollout, it is said to be completed if and only if all
\* its chargers have installed it, and partially completed if all have ended; unless
\* reports of two of its chargers were handled at once, one was handled before its row
\* was marked as sent, or two updates were in hand at once.
Quiet(r) ==
  /\ pc[r] \in {"idle", "done"} /\ Handling(r) = {}
  /\ {current["booter"], current["admin"]} = {"none"}
EndIsSummed ==
  \A r \in Rollouts :
    LET all == Having(r, RowStatuses) IN
    Quiet(r) /\ all # {} /\ status[r] # "none" =>
      \/ /\ status[r] = "Completed" <=> all = Having(r, {"Installed"})
         /\ status[r] = "Partially-Completed" <=>
              all = Having(r, {"Installed", "Failed"}) /\ all # Having(r, {"Installed"})
      \/ r \in crossed
      \/ \E c \in all : odd[c] \cap {"overlap", "outrun"} # {}

\* A row says Sent only if its charger was told; unless the job of its boot was not
\* answered.
SentWasTold ==
  \A r \in Rollouts, c \in Chargers :
    rows[r][c] = "Sent" => <<r, c>> \in told \/ "unanswered" \in odd[c]
=============================================================================
