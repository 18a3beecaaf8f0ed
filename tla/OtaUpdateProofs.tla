--------------------------- MODULE OtaUpdateProofs ---------------------------
(***************************************************************************)
(* Theorems about OtaUpdate: its types; that a row says Sent only if its   *)
(* charger was told; that no charger has two updates under way; that a row *)
(* says Installed only if its charger installed it; and that the status of *)
(* a rollout nobody is at work on is the sum of its rows.                  *)
(*                                                                         *)
(* The argument is the same throughout: what nobody else has in hand no    *)
(* step of another actor changes, and what could change it is noted in the *)
(* history that the invariants except.                                     *)
(***************************************************************************)
EXTENDS OtaUpdate, FiniteSetTheorems, WellFoundedInduction, TLAPS

\* The creation of a rollout, or the job of a boot, sends a charger its update.
Tells(r, c, reached, ok) ==
  \/ SendsTo(r, c, reached, ok)
  \/ BootSends(reached, ok) /\ current["booter"] = r /\ booting = c

USE DEF At, Goto, Takes, HasRow, Tells

------------------------------------------------------------------------------
(* Types, and what each actor has at its await *)

Drafting == {"find", "skip", "save", "insert"}
Telling == {"send", "mark"}
Reported == {"Downloading", "Installed", "Failed"}

Typed ==
  /\ rows \in [Rollouts -> [Chargers -> RowStatuses \cup {"none"}]]
  /\ born \in [Rollouts -> Nat]
  /\ status \in [Rollouts -> RolloutStatuses \cup {"none"}]
  /\ pc \in [Actors -> Labels]
  /\ todo \in [Rollouts -> SUBSET Chargers]
  /\ olds \in [Rollouts -> SUBSET (Rollouts \X Chargers)]
  /\ current \in [Actors -> Rollouts \cup Chargers \cup {"none"}]
  /\ report \in [Chargers -> [status : RowStatuses \cup {"none"},
                              sum : RolloutStatuses \cup {"none"}]]
  /\ booting \in Chargers \cup {"none"}
  /\ doing \in [Chargers -> Rollouts \cup {"none"}]
  /\ phase \in [Chargers -> {"idle", "told"} \cup Reported]
  /\ boots \in Nat /\ spent \in Nat
  /\ told \in SUBSET (Rollouts \X Chargers) /\ installed \subseteq told
  /\ odd \in [Chargers -> SUBSET Oddities]
  /\ crossed \in SUBSET Rollouts

\* What a creation, the handler of a charger's report, the job of a boot and a deletion
\* hold at their awaits.
CreationHolds(r) ==
  /\ pc[r] \in {"idle", "done"} \cup Drafting \cup Telling
  /\ IF pc[r] = "mark" THEN current[r] \in Fleet[r] ELSE current[r] = "none"
  /\ pc[r] \in {"idle", "done"} => todo[r] = {}
  /\ pc[r] \in Drafting => todo[r] = Fleet[r]
  /\ todo[r] \subseteq Fleet[r]
  /\ IF pc[r] = "skip" THEN olds[r] \subseteq Rollouts \X todo[r] ELSE olds[r] = {}
ReportHolds(c) ==
  /\ pc[c] \in {"idle", "write", "sum", "end"}
  /\ IF pc[c] = "idle" THEN current[c] = "none"
     ELSE current[c] \in Rollouts /\ report[c].status \in Reported
  /\ pc[c] = "end" => report[c].sum \in RolloutStatuses
  /\ phase[c] # "idle" => <<doing[c], c>> \in told
BootHolds ==
  /\ pc["booter"] \in {"idle", "send", "mark"}
  /\ IF pc["booter"] = "idle" THEN current["booter"] = "none" /\ booting = "none"
     ELSE current["booter"] \in Rollouts /\ booting \in Chargers
DeletionHolds ==
  /\ pc["admin"] \in {"idle", "rows", "rollout"}
  /\ IF pc["admin"] = "idle" THEN current["admin"] = "none" ELSE current["admin"] \in Rollouts
Held ==
  /\ \A r \in Rollouts : CreationHolds(r)
  /\ \A c \in Chargers : ReportHolds(c)
  /\ BootHolds /\ DeletionHolds

\* No row is younger than there were insertions.
Made == {r \in Rollouts : pc[r] \in Telling \cup {"done"}}
Ranked == \A r \in Rollouts : born[r] <= Cardinality(Made)
Sound == Typed /\ Held /\ Ranked

\* The actors are told apart.
LEMMA Apart ==
  /\ Rollouts \cap Chargers = {} /\ "none" \notin Rollouts \cup Chargers
  /\ \A a \in Rollouts \cup Chargers : a # "booter" /\ a # "admin" /\ a # "none"
  /\ Actors = Rollouts \cup Chargers \cup {"booter", "admin"}
  BY OtaAssumption DEF Actors

\* Every rollout is for some chargers.
LEMMA Fleets == \A r \in Rollouts : Fleet[r] \subseteq Chargers /\ Fleet[r] # {}
<1>1. \A r \in Rollouts : Fleet[r] \in (SUBSET Chargers) \ {{}}
  BY OtaAssumption
<1> QED
  BY <1>1

\* Note only adds, and what happens it adds.
LEMMA Notes ==
  ASSUME Typed, Note
  PROVE  /\ odd' \in [Chargers -> SUBSET Oddities] /\ crossed' \in SUBSET Rollouts
         /\ crossed \subseteq crossed'
         /\ \A c \in Chargers : odd[c] \subseteq odd'[c]
         /\ \A c \in Chargers, o \in Oddities : Happens(c, o) => o \in odd'[c]
         /\ \A c \in Chargers, o \in Oddities : o \notin odd'[c] => ~Happens(c, o)
<1>1. odd' = [c \in Chargers |-> odd[c] \cup {o \in Oddities : Happens(c, o)}]
  BY DEF Note
<1>2. \A c \in Chargers : odd'[c] = odd[c] \cup {o \in Oddities : Happens(c, o)}
  BY <1>1
<1>3. odd' \in [Chargers -> SUBSET Oddities]
  BY <1>1 DEF Typed
<1>4. crossed' \in SUBSET Rollouts /\ crossed \subseteq crossed'
  BY DEF Note, Typed
<1> QED
  BY <1>2, <1>3, <1>4

\* What an update of a row gives.
LEMMA UpdatedRow ==
  ASSUME Typed, NEW r \in Rollouts, NEW c \in Chargers, NEW s \in RowStatuses,
         rows' = Updated(r, c, s)
  PROVE  /\ rows' \in [Rollouts -> [Chargers -> RowStatuses \cup {"none"}]]
         /\ rows'[r][c] = IF HasRow(r, c) THEN s ELSE "none"
         /\ \A q \in Rollouts, d \in Chargers : <<q, d>> # <<r, c>> => rows'[q][d] = rows[q][d]
         /\ \A q \in Rollouts, d \in Chargers : HasRow(q, d)' <=> HasRow(q, d)
<1>1. "none" \notin RowStatuses
  BY DEF RowStatuses
<1>2. CASE rows' = rows /\ ~HasRow(r, c)
  BY <1>2 DEF Typed
<1>3. CASE rows' = [rows EXCEPT ![r][c] = s] /\ HasRow(r, c)
  BY <1>1, <1>3 DEF Typed
<1> QED
  BY <1>2, <1>3 DEF Updated

\* A step of one actor, which leaves the others at their awaits with what they hold.
Moves(a) ==
  /\ \A b \in Actors \ {a} : pc'[b] = pc[b] /\ current'[b] = current[b]
  /\ \A r \in Rollouts \ {a} : todo'[r] = todo[r] /\ olds'[r] = olds[r]
  /\ \A c \in Chargers \ {a} : report'[c] = report[c]
  /\ \A c \in Chargers : phase'[c] # "idle" => <<doing'[c], c>> \in told'
  /\ a # "booter" => booting' = booting

\* Then only what that actor holds is to be shown.
LEMMA OthersHold ==
  ASSUME Sound, NEW a \in Actors, Moves(a),
         a \in Rollouts => CreationHolds(a)', a \in Chargers => ReportHolds(a)',
         a = "booter" => BootHolds', a = "admin" => DeletionHolds'
  PROVE  Held'
<1>1. ASSUME NEW r \in Rollouts PROVE CreationHolds(r)'
  <2>1. CASE r # a
    BY <2>1, Apart DEF Moves, Sound, Held, CreationHolds
  <2> QED
    BY <2>1
<1>2. ASSUME NEW c \in Chargers PROVE ReportHolds(c)'
  <2>1. CASE c # a
    BY <2>1, Apart DEF Moves, Sound, Held, ReportHolds
  <2> QED
    BY <2>1
<1>3. BootHolds'
  BY Apart DEF Moves, Sound, Held, BootHolds
<1>4. DeletionHolds'
  BY Apart DEF Moves, Sound, Held, DeletionHolds
<1> QED
  BY <1>1, <1>2, <1>3, <1>4 DEF Held

\* There is a number of insertions.
LEMMA MadeCounted == IsFiniteSet(Made) /\ Cardinality(Made) \in Nat
  BY OtaAssumption, FS_Subset, FS_CardinalityType DEF Made

\* Initially everything has its type and nobody holds anything.
LEMMA SoundInit == Init => Sound
<1> SUFFICES ASSUME Init PROVE Sound
  OBVIOUS
<1>1. Typed
  <2>1. pc \in [Actors -> Labels]
    BY DEF Init, Labels
  <2> QED
    BY <2>1, Apart DEF Init, Typed, Nothing
<1>2. \A a \in Actors : pc[a] = "idle" /\ current[a] = "none"
  BY DEF Init
<1>3. \A r \in Rollouts : CreationHolds(r)
  <2> TAKE r \in Rollouts
  <2>1. pc[r] = "idle" /\ current[r] = "none" /\ todo[r] = {} /\ olds[r] = {}
    BY <1>2, Apart DEF Init
  <2> QED
    BY <2>1 DEF CreationHolds, Drafting, Telling
<1>4. \A c \in Chargers : ReportHolds(c)
  BY <1>2, Apart DEF Init, ReportHolds
<1>5. BootHolds /\ DeletionHolds
  BY <1>2, Apart DEF Init, BootHolds, DeletionHolds
<1>6. Ranked
  BY MadeCounted DEF Init, Ranked
<1> QED
  BY <1>1, <1>3, <1>4, <1>5, <1>6 DEF Sound, Held

\* A bounded set of numbers has a greatest one.
LEMMA Greatest ==
  ASSUME NEW S, S \subseteq Nat, S # {}, NEW n \in Nat, \A x \in S : x <= n
  PROVE  Max(S) \in S /\ \A x \in S : x <= Max(S)
<1> DEFINE Less == {p \in Nat \X Nat : p[1] < p[2]}
           T == {n - x : x \in S}
<1>1. IsWellFoundedOn(Less, Nat)
  BY NatLessThanWellFounded DEF OpToRel
<1>2. T \subseteq Nat /\ T # {}
  <2>1. \A x \in S : n - x \in Nat
    OBVIOUS
  <2>2. T \subseteq Nat
    BY <2>1
  <2>3. T # {}
    <3>1. PICK x \in S : TRUE
      OBVIOUS
    <3> QED
      BY <3>1
  <2> QED
    BY <2>2, <2>3
<1>3. PICK y \in T : \A z \in T : ~(<<z, y>> \in Less)
  <2> HIDE DEF T, Less
  <2> QED
    BY <1>1, <1>2, WFMin
<1>4. PICK x \in S : y = n - x
  OBVIOUS
<1>5. \A z \in S : x >= z
  <2> TAKE z \in S
  <2>1. n - z \in T /\ n - z \in Nat /\ y \in Nat
    BY <1>2
  <2>2. ~(n - z < y)
    BY <1>3, <2>1
  <2> QED
    BY <1>4, <2>1, <2>2
<1>6. Max(S) \in S /\ \A z \in S : Max(S) >= z
  BY <1>5 DEF Max
<1> QED
  BY <1>6

\* The rank that the next rows exceed.
LEMMA TopRank ==
  ASSUME Sound, NEW r \in Rollouts
  PROVE  \E n \in Nat : /\ n = Max({born[s] : s \in Rollouts})
                        /\ n <= Cardinality(Made) /\ \A s \in Rollouts : born[s] <= n
<1> DEFINE S == {born[s] : s \in Rollouts}
<1>0. PICK n \in Nat : n = Cardinality(Made)
  BY MadeCounted
<1>1. S \subseteq Nat /\ S # {} /\ \A x \in S : x <= n
  BY <1>0 DEF Sound, Typed, Ranked
<1> HIDE DEF S
<1>2. Max(S) \in S /\ \A x \in S : x <= Max(S)
  BY <1>1, Greatest
<1>3. \E m \in 0..n : m = Max(S)
  <2>1. Max(S) \in Nat /\ Max(S) <= n
    BY <1>1, <1>2
  <2> QED
    BY <2>1
<1>4. PICK m \in 0..n : m = Max(S)
  BY <1>3
<1>5. \A s \in Rollouts : born[s] \in S
  BY DEF S
<1>6. m = Max(S) /\ m <= Cardinality(Made) /\ (\A s \in Rollouts : born[s] <= m) /\ m \in Nat
  BY <1>0, <1>2, <1>4, <1>5
<1> QED
  BY <1>6, Zenon DEF S

\* A charger that is sent an update is told of it, or nothing changes there.
LEMMA SendsTyped ==
  ASSUME Typed, NEW r \in Rollouts, NEW c \in Chargers, NEW reached \in BOOLEAN,
         NEW ok \in BOOLEAN, Sends(r, c, reached, ok)
  PROVE  /\ spent' \in Nat /\ told' \in SUBSET (Rollouts \X Chargers) /\ told \subseteq told'
         /\ doing' \in [Chargers -> Rollouts \cup {"none"}]
         /\ phase' \in [Chargers -> {"idle", "told"} \cup Reported]
         /\ \A d \in Chargers \ {c} : doing'[d] = doing[d] /\ phase'[d] = phase[d]
         /\ \/ /\ reached /\ told' = told \cup {<<r, c>>}
               /\ doing'[c] = r /\ phase'[c] = "told"
            \/ ~reached /\ ~ok /\ told' = told /\ doing' = doing /\ phase' = phase
         /\ ok => spent' = spent
         /\ ~ok => spent' > spent
<1>1. spent' \in Nat /\ (ok => spent' = spent) /\ (~ok => spent' > spent)
  BY DEF Sends, Spends, Typed
<1>2. CASE reached
  BY <1>1, <1>2 DEF Sends, Typed
<1>3. CASE ~reached
  BY <1>1, <1>3 DEF Sends, Typed
<1> QED
  BY <1>2, <1>3

\* The steps of a creation before it sends.
LEMMA DraftSound ==
  ASSUME Sound, NEW r \in Rollouts,
         Creates(r) \/ FindsCreated(r) \/ Skips(r) \/ Saves(r) \/ Inserts(r), Note
  PROVE  Typed' /\ Held'
<1> USE DEF Sound
<1>0. r \in Actors 
      /\ Labels = Drafting \cup Telling
                     \cup {"idle", "done", "write", "sum", "end", "rows", "rollout"}
  BY Apart DEF Labels, Drafting, Telling
<1>1. CASE Creates(r)
  <2>0. pc' \in [Actors -> Labels] /\ todo' \in [Rollouts -> SUBSET Chargers]
    <3>1. \/ pc' = [pc EXCEPT ![r] = "done"] /\ todo' = todo
          \/ pc' = [pc EXCEPT ![r] = "find"] /\ todo' = [todo EXCEPT ![r] = Fleet[r]]
      BY <1>1 DEF Creates
    <3> QED
      BY <1>0, <3>1, Fleets DEF Typed, Labels
  <2>1. Typed'
    BY <1>1, <2>0, Notes DEF Creates, Typed, books, chargers, bounds
  <2>2. Moves(r)
    BY <1>0, <1>1 DEF Creates, Moves, Typed, Held, ReportHolds, chargers
  <2>3. CreationHolds(r)'
    <3>1. pc[r] = "idle" /\ UNCHANGED <<olds, current>>
      BY <1>1 DEF Creates, Begins
    <3>2. CASE pc' = [pc EXCEPT ![r] = "done"] /\ todo' = todo
      BY <1>0, <3>1, <3>2 DEF Typed, Held, CreationHolds, Drafting, Telling
    <3>3. CASE pc' = [pc EXCEPT ![r] = "find"] /\ todo' = [todo EXCEPT ![r] = Fleet[r]]
      BY <1>0, <3>1, <3>3 DEF Typed, Held, CreationHolds, Drafting, Telling
    <3> QED
      BY <1>1, <3>2, <3>3 DEF Creates
  <2> QED
    BY <1>0, <2>1, <2>2, <2>3, OthersHold, Apart
<1>2. CASE FindsCreated(r)
  <2>1. Typed'
    BY <1>0, <1>2, Notes DEF FindsCreated, Typed, books, chargers, bounds, Labels
  <2>2. Moves(r)
    BY <1>0, <1>2 DEF FindsCreated, Moves, Typed, Held, ReportHolds, chargers
  <2>3. CreationHolds(r)'
    BY <1>0, <1>2 DEF FindsCreated, Typed, Held, CreationHolds, Drafting, Telling
  <2> QED
    BY <1>0, <2>1, <2>2, <2>3, OthersHold, Apart
<1>3. CASE Skips(r)
  <2>1. Typed'
    BY <1>0, <1>3, Notes DEF Skips, Typed, chargers, bounds, Labels, RowStatuses
  <2>2. Moves(r)
    BY <1>0, <1>3 DEF Skips, Moves, Typed, Held, ReportHolds, chargers
  <2>3. CreationHolds(r)'
    BY <1>0, <1>3 DEF Skips, Typed, Held, CreationHolds, Drafting, Telling
  <2> QED
    BY <1>0, <2>1, <2>2, <2>3, OthersHold, Apart
<1>4. CASE Saves(r)
  <2>1. Typed'
    BY <1>0, <1>4, Notes DEF Saves, Typed, chargers, bounds, Labels, RolloutStatuses
  <2>2. Moves(r)
    BY <1>0, <1>4 DEF Saves, Moves, Typed, Held, ReportHolds, chargers
  <2>3. CreationHolds(r)'
    <3>1. pc'[r] = "insert" /\ pc[r] = "save" /\ UNCHANGED <<todo, olds, current>>
      BY <1>0, <1>4 DEF Saves, Typed
    <3> QED
      BY <3>1 DEF Held, CreationHolds, Drafting, Telling
  <2> QED
    BY <1>0, <2>1, <2>2, <2>3, OthersHold, Apart
<1>5. CASE Inserts(r)
  <2>0. /\ rows' \in [Rollouts -> [Chargers -> RowStatuses \cup {"none"}]]
        /\ born' \in [Rollouts -> Nat]
    <3>1. PICK n \in Nat : n = Max({born[s] : s \in Rollouts})
      BY TopRank, Zenon
    <3>2. born' = [born EXCEPT ![r] = 1 + n]
      BY <1>5, <3>1 DEF Inserts
    <3>3. [c \in Chargers |-> IF c \in Fleet[r] THEN "Created" ELSE "none"]
            \in [Chargers -> RowStatuses \cup {"none"}]
      BY DEF RowStatuses
    <3> QED
      BY <1>5, <3>1, <3>2, <3>3 DEF Inserts, Typed
  <2>1. Typed'
    <3>1. pc' \in [Actors -> Labels]
      BY <1>0, <1>5 DEF Inserts, Typed, Labels
    <3> QED
      BY <1>5, <2>0, <3>1, Notes DEF Inserts, Typed, chargers, bounds
  <2>2. Moves(r)
    BY <1>0, <1>5 DEF Inserts, Moves, Typed, Held, ReportHolds, chargers
  <2>3. CreationHolds(r)'
    <3>1. pc'[r] = "send" /\ pc[r] = "insert" /\ UNCHANGED <<todo, olds, current>>
      BY <1>0, <1>5 DEF Inserts, Typed
    <3> QED
      BY <3>1 DEF Held, CreationHolds, Drafting, Telling
  <2> QED
    BY <1>0, <2>1, <2>2, <2>3, OthersHold, Apart
<1> QED
  BY <1>1, <1>2, <1>3, <1>4, <1>5

\* The steps of a creation that sends.
LEMMA SendingSound ==
  ASSUME Sound, NEW r \in Rollouts, Note,
         \/ Marks(r)
         \/ \E c \in Chargers, reached \in BOOLEAN, ok \in BOOLEAN : SendsTo(r, c, reached, ok)
  PROVE  Typed' /\ Held'
<1> USE DEF Sound
<1>0. r \in Actors
  BY Apart
<1>1. ASSUME NEW c \in Chargers, NEW reached \in BOOLEAN, NEW ok \in BOOLEAN,
             SendsTo(r, c, reached, ok)
      PROVE  Typed' /\ Held'
  <2>0. Sends(r, c, reached, ok) /\ UNCHANGED <<books, olds, report, booting, boots, installed>>
    BY <1>1 DEF SendsTo
  <2>1. /\ c \in todo[r] /\ todo' = [todo EXCEPT ![r] = @ \ {c}]
        /\ \/ ok /\ pc' = [pc EXCEPT ![r] = "mark"] /\ current' = [current EXCEPT ![r] = c]
           \/ /\ ~ok /\ current' = [current EXCEPT ![r] = "none"]
              /\ pc' = [pc EXCEPT ![r] = IF todo'[r] = {} THEN "done" ELSE "send"]
    BY <1>1 DEF SendsTo, Counts
  <2>2. pc' \in [Actors -> Labels] /\ todo' \in [Rollouts -> SUBSET Chargers]
    BY <1>0, <2>1 DEF Typed, Labels
  <2>3. current' \in [Actors -> Rollouts \cup Chargers \cup {"none"}]
    BY <1>0, <2>1 DEF Typed
  <2>4. Typed'
    BY <2>0, <2>2, <2>3, SendsTyped, Notes DEF Typed, books
  <2>5. \A d \in Chargers : phase'[d] # "idle" => <<doing'[d], d>> \in told'
    <3>1. \A d \in Chargers : phase[d] # "idle" => <<doing[d], d>> \in told
      BY DEF Held, ReportHolds
    <3> QED
      BY <2>0, <3>1, SendsTyped
  <2>6. Moves(r)
    BY <1>0, <2>0, <2>1, <2>5 DEF Moves, Typed
  <2>7. CreationHolds(r)'
    <3>1. /\ c \in Fleet[r] /\ todo[r] \subseteq Fleet[r] /\ pc[r] = "send" /\ olds'[r] = {}
      BY <1>1, <2>0, <2>1 DEF SendsTo, Held, CreationHolds
    <3>2. todo'[r] \subseteq Fleet[r]
      BY <2>1, <3>1 DEF Typed
    <3>3. CASE ok
      <4>1. pc'[r] = "mark" /\ current'[r] = c
        BY <1>0, <2>1, <3>3 DEF Typed
      <4> QED
        BY <3>1, <3>2, <4>1 DEF CreationHolds, Drafting, Telling
    <3>4. CASE ~ok
      <4>1. current'[r] = "none" /\ pc'[r] = IF todo'[r] = {} THEN "done" ELSE "send"
        BY <1>0, <2>1, <3>4 DEF Typed
      <4> QED
        BY <3>1, <3>2, <4>1 DEF CreationHolds, Drafting, Telling
    <3> QED
      BY <3>3, <3>4
  <2> QED
    BY <1>0, <2>4, <2>6, <2>7, OthersHold, Apart
<1>2. CASE Marks(r)
  <2>1. current[r] \in Chargers /\ pc[r] = "mark"
    BY <1>2, Fleets DEF Marks, Held, CreationHolds
  <2>2. rows' = Updated(r, current[r], "Sent") /\ "Sent" \in RowStatuses
    BY <1>2 DEF Marks, RowStatuses
  <2>3. pc' = [pc EXCEPT ![r] = IF todo[r] = {} THEN "done" ELSE "send"]
    BY <1>2 DEF Marks
  <2>4. rows' \in [Rollouts -> [Chargers -> RowStatuses \cup {"none"}]]
    BY <2>1, <2>2, UpdatedRow
  <2>5. pc' \in [Actors -> Labels]
    BY <1>0, <2>3 DEF Typed, Labels
  <2>6. Typed'
    BY <1>2, <1>0, <2>4, <2>5, Notes DEF Marks, Typed, chargers, bounds
  <2>7. Moves(r)
    BY <1>0, <1>2 DEF Marks, Moves, Typed, Held, ReportHolds, chargers
  <2>8. CreationHolds(r)'
    <3>1. /\ pc'[r] = (IF todo[r] = {} THEN "done" ELSE "send") /\ current'[r] = "none"
          /\ UNCHANGED <<todo, olds>>
      BY <1>0, <1>2 DEF Marks, Typed
    <3> QED
      BY <2>1, <3>1 DEF Held, CreationHolds, Drafting, Telling
  <2> QED
    BY <1>0, <2>6, <2>7, <2>8, OthersHold, Apart
<1> QED
  BY <1>1, <1>2

\* The job of a boot.
LEMMA BootSound ==
  ASSUME Sound, Boot, Note
  PROVE  Typed' /\ Held'
<1> USE DEF Sound
<1>0. "booter" \in Actors /\ "booter" \notin Rollouts /\ "booter" \notin Chargers
  BY Apart
<1>1. ASSUME NEW c \in Chargers, NEW r \in Rollouts, BootReads(c, r) PROVE Typed' /\ Held'
  <2>1. pc' \in [Actors -> Labels]
    BY <1>0, <1>1 DEF BootReads, Typed, Labels
  <2>2. Typed'
    BY <1>0, <1>1, <2>1, Notes DEF BootReads, Typed, books, chargers
  <2>3. Moves("booter")
    BY <1>0, <1>1 DEF BootReads, Moves, Typed, Held, ReportHolds, chargers
  <2>4. BootHolds'
    BY <1>0, <1>1 DEF BootReads, BootHolds, Typed
  <2> QED
    BY <1>0, <2>2, <2>3, <2>4, OthersHold
<1>2. ASSUME NEW reached \in BOOLEAN, NEW ok \in BOOLEAN, BootSends(reached, ok)
      PROVE  Typed' /\ Held'
  <2>1. pc["booter"] = "send" /\ current["booter"] \in Rollouts /\ booting \in Chargers
    BY <1>2 DEF BootSends, Held, BootHolds
  <2>2. /\ Sends(current["booter"], booting, reached, ok)
        /\ UNCHANGED <<books, todo, olds, current, report, booting, boots, installed>>
    BY <1>2 DEF BootSends
  <2>3. pc' \in [Actors -> Labels] /\ pc'["booter"] = "mark"
    BY <1>0, <1>2 DEF BootSends, Typed, Labels
  <2>4. Typed'
    BY <2>1, <2>2, <2>3, SendsTyped, Notes DEF Typed, books
  <2>5. \A d \in Chargers : phase'[d] # "idle" => <<doing'[d], d>> \in told'
    <3>1. PICK r \in Rollouts, c \in Chargers : r = current["booter"] /\ c = booting
      BY <2>1
    <3>2. Sends(r, c, reached, ok)
      BY <2>2, <3>1
    <3> QED
      BY <3>2, SendsTyped DEF Typed, Held, ReportHolds
  <2>6. Moves("booter")
    BY <1>0, <1>2, <2>5 DEF BootSends, Moves, Typed
  <2>7. BootHolds'
    BY <2>1, <2>2, <2>3 DEF BootHolds
  <2> QED
    BY <1>0, <2>4, <2>6, <2>7, OthersHold
<1>3. CASE BootMarks
  <2>1. pc["booter"] = "mark" /\ current["booter"] \in Rollouts /\ booting \in Chargers
    BY <1>3 DEF BootMarks, Held, BootHolds
  <2>2. rows' = Updated(current["booter"], booting, "Sent") /\ "Sent" \in RowStatuses
    BY <1>3 DEF BootMarks, RowStatuses
  <2>3. rows' \in [Rollouts -> [Chargers -> RowStatuses \cup {"none"}]]
    BY <2>1, <2>2, UpdatedRow
  <2>4. pc' \in [Actors -> Labels]
    BY <1>0, <1>3 DEF BootMarks, Typed, Labels
  <2>5. Typed'
    BY <1>0, <1>3, <2>3, <2>4, Notes DEF BootMarks, Typed, chargers, bounds
  <2>6. Moves("booter")
    BY <1>0, <1>3 DEF BootMarks, Moves, Typed, Held, ReportHolds, chargers
  <2>7. BootHolds'
    BY <1>0, <1>3 DEF BootMarks, BootHolds, Typed
  <2> QED
    BY <1>0, <2>5, <2>6, <2>7, OthersHold
<1> QED
  BY <1>1, <1>2, <1>3 DEF Boot

\* What a charger reports is one of the states of an installation.
LEMMA FollowsReported == \A p : Follows(p) \subseteq Reported
  BY DEF Follows, Reported

\* The steps of the handler of a charger's reports.
LEMMA ReportSound ==
  ASSUME Sound, NEW c \in Chargers, Report(c), Note
  PROVE  Typed' /\ Held'
<1> USE DEF Sound
<1>0. c \in Actors /\ "none" \notin Rollouts
  BY Apart
<1>1. ASSUME NEW s \in RowStatuses, Reports(c, s) PROVE Typed' /\ Held'
  <2>1. s \in Reported /\ phase' = [phase EXCEPT ![c] = s] /\ pc[c] = "idle" /\ phase[c] # "idle"
    BY <1>1, FollowsReported DEF Reports, Begins, Follows
  <2>2. <<doing[c], c>> \in told /\ told' = told /\ doing' = doing
    BY <1>1, <2>1 DEF Reports, Held, ReportHolds
  <2>3. installed' \subseteq told'
    BY <1>1, <2>2 DEF Reports, Typed
  <2>4. spent' \in Nat
    BY <1>1 DEF Reports, Spends, Typed
  <2>5. phase' \in [Chargers -> {"idle", "told"} \cup Reported]
    BY <2>1 DEF Typed
  <2>6. \/ UNCHANGED <<pc, current, report>>
        \/ \E r \in Rollouts :
             /\ pc' = [pc EXCEPT ![c] = "write"] /\ current' = [current EXCEPT ![c] = r]
             /\ report' = [report EXCEPT ![c] = [status |-> s, sum |-> "none"]]
    BY <1>1 DEF Reports, Newest, Mine
  <2>7. /\ pc' \in [Actors -> Labels]
        /\ current' \in [Actors -> Rollouts \cup Chargers \cup {"none"}]
        /\ report' \in [Chargers -> [status : RowStatuses \cup {"none"},
                                     sum : RolloutStatuses \cup {"none"}]]
    <3>1. [status |-> s, sum |-> "none"] \in [status : RowStatuses \cup {"none"},
                                             sum : RolloutStatuses \cup {"none"}]
      OBVIOUS
    <3>2. CASE UNCHANGED <<pc, current, report>>
      BY <3>2 DEF Typed
    <3>3. ASSUME NEW r \in Rollouts, pc' = [pc EXCEPT ![c] = "write"],
                 current' = [current EXCEPT ![c] = r],
                 report' = [report EXCEPT ![c] = [status |-> s, sum |-> "none"]]
          PROVE  /\ pc' \in [Actors -> Labels]
                 /\ current' \in [Actors -> Rollouts \cup Chargers \cup {"none"}]
                 /\ report' \in [Chargers -> [status : RowStatuses \cup {"none"},
                                              sum : RolloutStatuses \cup {"none"}]]
      BY <1>0, <3>1, <3>3 DEF Typed, Labels
    <3> QED
      BY <2>6, <3>2, <3>3
  <2>8. Typed'
    BY <1>1, <2>2, <2>3, <2>4, <2>5, <2>7, Notes DEF Reports, Typed, books
  <2>9. \A d \in Chargers : phase'[d] # "idle" => <<doing'[d], d>> \in told'
    BY <2>1, <2>2 DEF Typed, Held, ReportHolds
  <2>10. Moves(c)
    BY <1>0, <1>1, <2>6, <2>9 DEF Reports, Moves, Typed
  <2>11. ReportHolds(c)'
    <3>1. CASE UNCHANGED <<pc, current, report>>
      BY <2>1, <2>9, <3>1 DEF Held, ReportHolds
    <3>2. ASSUME NEW r \in Rollouts, pc' = [pc EXCEPT ![c] = "write"],
                 current' = [current EXCEPT ![c] = r],
                 report' = [report EXCEPT ![c] = [status |-> s, sum |-> "none"]]
          PROVE  ReportHolds(c)'
      BY <1>0, <2>1, <2>9, <3>2 DEF Typed, ReportHolds
    <3> QED
      BY <2>6, <3>1, <3>2
  <2> QED
    BY <1>0, <2>8, <2>10, <2>11, OthersHold, Apart
<1>2. CASE ReportWrites(c)
  <2>1. current[c] \in Rollouts /\ report[c].status \in RowStatuses /\ pc[c] = "write"
    BY <1>2 DEF ReportWrites, Held, ReportHolds, Reported, RowStatuses
  <2>2. rows' \in [Rollouts -> [Chargers -> RowStatuses \cup {"none"}]]
    BY <1>2, <2>1, UpdatedRow DEF ReportWrites
  <2>3. pc' \in [Actors -> Labels] /\ pc'[c] = "sum"
    BY <1>0, <1>2 DEF ReportWrites, Typed, Labels
  <2>4. Typed'
    BY <1>2, <2>2, <2>3, Notes DEF ReportWrites, Typed, chargers, bounds
  <2>5. Moves(c)
    BY <1>0, <1>2 DEF ReportWrites, Moves, Typed, Held, ReportHolds, chargers
  <2>6. ReportHolds(c)'
    BY <1>2, <2>1, <2>3 DEF ReportWrites, Held, ReportHolds, chargers
  <2> QED
    BY <1>0, <2>4, <2>5, <2>6, OthersHold, Apart
<1>3. CASE ReportSums(c)
  <2>1. Sum(current[c]) \in RolloutStatuses
    BY DEF Sum, SumOver, RolloutStatuses
  <2>2. pc' \in [Actors -> Labels] /\ pc'[c] = "end" /\ pc[c] = "sum"
    BY <1>0, <1>3 DEF ReportSums, Typed, Labels
  <2>3. report' = [report EXCEPT ![c].sum = Sum(current[c])]
    BY <1>3 DEF ReportSums
  <2>4. /\ report' \in [Chargers -> [status : RowStatuses \cup {"none"},
                                     sum : RolloutStatuses \cup {"none"}]]
        /\ report'[c].sum \in RolloutStatuses /\ report'[c].status = report[c].status
    <3>1. PICK x \in RolloutStatuses : x = Sum(current[c])
      BY <2>1
    <3>2. report[c] \in [status : RowStatuses \cup {"none"}, sum : RolloutStatuses \cup {"none"}]
      BY DEF Typed
    <3>3. [report[c] EXCEPT !.sum = x] = [status |-> report[c].status, sum |-> x]
      BY <3>2
    <3>4. report' = [report EXCEPT ![c] = [status |-> report[c].status, sum |-> x]]
      BY <2>3, <3>1, <3>3
    <3> QED
      BY <3>2, <3>4 DEF Typed
  <2>5. Typed'
    BY <1>3, <2>2, <2>4, Notes DEF ReportSums, Typed, books, chargers, bounds
  <2>6. Moves(c)
    BY <1>0, <1>3 DEF ReportSums, Moves, Typed, Held, ReportHolds, chargers
  <2>7. ReportHolds(c)'
    BY <1>3, <2>2, <2>4 DEF ReportSums, Held, ReportHolds, chargers
  <2> QED
    BY <1>0, <2>5, <2>6, <2>7, OthersHold, Apart
<1>4. CASE ReportEnds(c)
  <2>1. current[c] \in Rollouts /\ report[c].sum \in RolloutStatuses
    BY <1>4 DEF ReportEnds, Held, ReportHolds
  <2>2. pc' \in [Actors -> Labels] /\ pc'[c] = "idle" /\ current'[c] = "none"
    BY <1>0, <1>4 DEF ReportEnds, Typed, Labels
  <2>3. status' \in [Rollouts -> RolloutStatuses \cup {"none"}]
    BY <1>4, <2>1 DEF ReportEnds, Typed
  <2>4. Typed'
    BY <1>4, <2>2, <2>3, Notes DEF ReportEnds, Typed, chargers, bounds, Nothing
  <2>5. Moves(c)
    BY <1>0, <1>4 DEF ReportEnds, Moves, Typed, Held, ReportHolds, chargers
  <2>6. ReportHolds(c)'
    BY <1>4, <2>2 DEF ReportEnds, Held, ReportHolds, chargers
  <2> QED
    BY <1>0, <2>4, <2>5, <2>6, OthersHold, Apart
<1> QED
  BY <1>1, <1>2, <1>3, <1>4 DEF Report

\* The steps of a deletion.
LEMMA DeletionSound ==
  ASSUME Sound, Deletion, Note
  PROVE  Typed' /\ Held'
<1> USE DEF Sound
<1>0. "admin" \in Actors /\ "admin" \notin Rollouts /\ "admin" \notin Chargers
  BY Apart
<1>1. ASSUME NEW r \in Rollouts, Deletes(r) PROVE Typed' /\ Held'
  <2>1. pc' \in [Actors -> Labels]
    BY <1>0, <1>1 DEF Deletes, Typed, Labels
  <2>2. Typed'
    BY <1>0, <1>1, <2>1, Notes DEF Deletes, Spends, Typed, books, chargers
  <2>3. Moves("admin")
    BY <1>0, <1>1 DEF Deletes, Moves, Typed, Held, ReportHolds, chargers
  <2>4. DeletionHolds'
    BY <1>0, <1>1 DEF Deletes, DeletionHolds, Typed
  <2> QED
    BY <1>0, <2>2, <2>3, <2>4, OthersHold
<1>2. CASE DeletesRows
  <2>0. current["admin"] \in Rollouts
    BY <1>2 DEF DeletesRows, Held, DeletionHolds
  <2>1. pc' \in [Actors -> Labels]
    BY <1>0, <1>2 DEF DeletesRows, Typed, Labels
  <2>2. Typed'
    BY <1>0, <1>2, <2>0, <2>1, Notes DEF DeletesRows, Typed, chargers, bounds
  <2>3. Moves("admin")
    BY <1>0, <1>2 DEF DeletesRows, Moves, Typed, Held, ReportHolds, chargers
  <2>4. DeletionHolds'
    BY <1>0, <1>2, <2>0 DEF DeletesRows, DeletionHolds, Typed
  <2> QED
    BY <1>0, <2>2, <2>3, <2>4, OthersHold
<1>3. CASE DeletesRollout
  <2>0. current["admin"] \in Rollouts
    BY <1>3 DEF DeletesRollout, Held, DeletionHolds
  <2>1. pc' \in [Actors -> Labels]
    BY <1>0, <1>3 DEF DeletesRollout, Typed, Labels
  <2>2. Typed'
    BY <1>0, <1>3, <2>0, <2>1, Notes DEF DeletesRollout, Typed, chargers, bounds
  <2>3. Moves("admin")
    BY <1>0, <1>3 DEF DeletesRollout, Moves, Typed, Held, ReportHolds, chargers
  <2>4. DeletionHolds'
    BY <1>0, <1>3 DEF DeletesRollout, DeletionHolds, Typed
  <2> QED
    BY <1>0, <2>2, <2>3, <2>4, OthersHold
<1> QED
  BY <1>1, <1>2, <1>3 DEF Deletion

\* Who has inserted its rows stays so, and only an insertion makes a younger row.
LEMMA RankedNext ==
  ASSUME Sound, Next, Held'
  PROVE  Ranked'
<1>1. PICK n \in Nat : n = Cardinality(Made)
  BY MadeCounted
<1>2. IsFiniteSet(Made') /\ Cardinality(Made') \in Nat
  BY OtaAssumption, FS_Subset, FS_CardinalityType DEF Made
<1>3. \/ \E r \in Rollouts : Inserts(r)
      \/ /\ \A r \in Rollouts : born'[r] = born[r] \/ born'[r] = 0
         /\ Made \subseteq Made'
  <2>1. ASSUME NEW r \in Rollouts, Creation(r), ~Inserts(r)
        PROVE  /\ \A q \in Rollouts : born'[q] = born[q]
               /\ Made \subseteq Made'
    <3>1. born' = born
      BY <2>1 DEF Creation, Creates, FindsCreated, Skips, Saves, SendsTo, Marks, books
    <3>2. \A q \in Rollouts \ {r} : pc'[q] = pc[q]
      <4>1. \E label : pc' = [pc EXCEPT ![r] = label]
        BY <2>1 DEF Creation, Creates, FindsCreated, Skips, Saves, SendsTo, Marks
      <4> QED
        BY <4>1, Apart DEF Sound, Typed
    <3>3. pc[r] \in Telling \cup {"done"} => pc'[r] \in Telling \cup {"done"}
      BY <2>1, Apart DEF Creation, Creates, Begins, FindsCreated, Skips, Saves, SendsTo, Marks,
         Sound, Typed, Telling
    <3> QED
      BY <3>1, <3>2, <3>3 DEF Made
  <2>2. ASSUME Boot \/ (\E c \in Chargers : Report(c)) \/ Deletion
        PROVE  /\ \A r \in Rollouts : born'[r] = born[r] \/ born'[r] = 0
               /\ Made \subseteq Made'
    <3>1. \A q \in Rollouts : pc'[q] = pc[q]
      BY <2>2, Apart DEF Boot, BootReads, BootSends, BootMarks, Report, Reports, ReportWrites,
         ReportSums, ReportEnds, Deletion, Deletes, DeletesRows, DeletesRollout, Sound, Typed
    <3>2. \A r \in Rollouts : born'[r] = born[r] \/ born'[r] = 0
      BY <2>2 DEF Boot, BootReads, BootSends, BootMarks, Report, Reports, ReportWrites,
         ReportSums, ReportEnds, Deletion, Deletes, DeletesRows, DeletesRollout, Sound, Typed, books
    <3> QED
      BY <3>1, <3>2 DEF Made
  <2> QED
    BY <2>1, <2>2 DEF Next
<1>4. ASSUME NEW r \in Rollouts, Inserts(r) PROVE Ranked'
  <2>1. Made' = Made \cup {r} /\ r \notin Made
    BY <1>4, Apart DEF Inserts, Made, Sound, Typed, Telling
  <2>2. Cardinality(Made') = n + 1
    BY <1>1, <2>1, MadeCounted, FS_AddElement
  <2>3. PICK m \in Nat : m = Max({born[s] : s \in Rollouts}) /\ m <= n
    BY <1>1, TopRank, Zenon
  <2>4. born' = [born EXCEPT ![r] = 1 + m]
    BY <1>4, <2>3 DEF Inserts
  <2> QED
    BY <1>1, <2>2, <2>3, <2>4 DEF Ranked, Sound, Typed
<1>5. CASE /\ \A r \in Rollouts : born'[r] = born[r] \/ born'[r] = 0
           /\ Made \subseteq Made'
  <2>1. Cardinality(Made) <= Cardinality(Made')
    BY <1>2, <1>5, FS_Subset
  <2>2. PICK k \in Nat : k = Cardinality(Made')
    BY <1>2
  <2>3. \A r \in Rollouts : born[r] \in Nat /\ born[r] <= n
    BY <1>1 DEF Sound, Typed, Ranked
  <2> QED
    BY <1>1, <1>5, <2>1, <2>2, <2>3 DEF Ranked
<1> QED
  BY <1>3, <1>4, <1>5

\* Every step keeps types, what actors hold and ranks.
LEMMA SoundNext == Sound /\ [Next]_vars => Sound'
<1>1. ASSUME Sound, Next PROVE Sound'
  <2>1. Typed' /\ Held'
    BY <1>1, DraftSound, SendingSound, BootSound, ReportSound, DeletionSound DEF Next, Creation
  <2> QED
    BY <1>1, <2>1, RankedNext DEF Sound
<1>2. ASSUME Sound, UNCHANGED vars PROVE Sound'
  BY <1>2 DEF Sound, Typed, Held, CreationHolds, ReportHolds, BootHolds, DeletionHolds, Ranked,
     Made, vars, books, work, chargers, bounds
<1> QED
  BY <1>1, <1>2

\* And so they hold always.
LEMMA SoundAlways == SafeSpec => []Sound
  BY SoundInit, SoundNext, PTL DEF SafeSpec

------------------------------------------------------------------------------
(* What a step changes *)

\* Who writes a row.
LEMMA RowWritten ==
  ASSUME Sound, Next, NEW r \in Rollouts, NEW c \in Chargers
  PROVE  \/ rows'[r][c] = rows[r][c]
         \/ /\ HasRow(r, c) /\ rows'[r][c] = "Skipped"
            /\ \E q \in Rollouts : Skips(q) /\ <<r, c>> \in olds[q]
         \/ Inserts(r) /\ rows'[r][c] = IF c \in Fleet[r] THEN "Created" ELSE "none"
         \/ /\ HasRow(r, c) /\ rows'[r][c] = "Sent"
            /\ \/ Marks(r) /\ current[r] = c
               \/ BootMarks /\ current["booter"] = r /\ booting = c
         \/ /\ HasRow(r, c) /\ rows'[r][c] = report[c].status
            /\ ReportWrites(c) /\ current[c] = r
         \/ DeletesRows /\ current["admin"] = r /\ rows'[r][c] = "none"
<1> USE DEF Sound
<1>1. ASSUME NEW q \in Rollouts, Skips(q)
      PROVE  rows'[r][c] = IF <<r, c>> \in olds[q] /\ HasRow(r, c) THEN "Skipped" ELSE rows[r][c]
  BY <1>1 DEF Skips
<1>2. ASSUME NEW q \in Rollouts, Inserts(q)
      PROVE  rows'[r][c] = IF q # r THEN rows[r][c]
                           ELSE IF c \in Fleet[r] THEN "Created" ELSE "none"
  BY <1>2 DEF Inserts, Typed
<1>3. ASSUME NEW q \in Rollouts, Marks(q)
      PROVE  rows'[r][c] = IF q = r /\ current[r] = c /\ HasRow(r, c) THEN "Sent" ELSE rows[r][c]
  <2>1. PICK d \in Chargers : d = current[q]
    BY <1>3, Fleets DEF Marks, Held, CreationHolds
  <2>2. rows' = Updated(q, d, "Sent") /\ "Sent" \in RowStatuses
    BY <1>3, <2>1 DEF Marks, RowStatuses
  <2> QED
    BY <2>1, <2>2, UpdatedRow
<1>4. ASSUME BootMarks
      PROVE  rows'[r][c] = IF current["booter"] = r /\ booting = c /\ HasRow(r, c) THEN "Sent"
                           ELSE rows[r][c]
  <2>1. PICK q \in Rollouts, d \in Chargers : q = current["booter"] /\ d = booting
    BY <1>4 DEF BootMarks, Held, BootHolds
  <2>2. rows' = Updated(q, d, "Sent") /\ "Sent" \in RowStatuses
    BY <1>4, <2>1 DEF BootMarks, RowStatuses
  <2> QED
    BY <2>1, <2>2, UpdatedRow
<1>5. ASSUME NEW d \in Chargers, ReportWrites(d)
      PROVE  rows'[r][c] = IF d = c /\ current[c] = r /\ HasRow(r, c) THEN report[c].status
                           ELSE rows[r][c]
  <2>1. PICK q \in Rollouts, s \in RowStatuses : q = current[d] /\ s = report[d].status
    BY <1>5 DEF ReportWrites, Held, ReportHolds, Reported, RowStatuses
  <2>2. rows' = Updated(q, d, s)
    BY <1>5, <2>1 DEF ReportWrites
  <2> QED
    BY <2>1, <2>2, UpdatedRow
<1>6. ASSUME DeletesRows
      PROVE  rows'[r][c] = IF current["admin"] = r THEN "none" ELSE rows[r][c]
  BY <1>6 DEF DeletesRows, Held, DeletionHolds, Typed
<1>7. ASSUME NEW q \in Rollouts, Creation(q), ~Skips(q), ~Inserts(q), ~Marks(q)
      PROVE  rows' = rows
  BY <1>7 DEF Creation, Creates, FindsCreated, Saves, SendsTo, books
<1>8. ASSUME Boot, ~BootMarks PROVE rows' = rows
  BY <1>8 DEF Boot, BootReads, BootSends, books
<1>9. ASSUME NEW d \in Chargers, Report(d), ~ReportWrites(d) PROVE rows' = rows
  BY <1>9 DEF Report, Reports, ReportSums, ReportEnds, books
<1>10. ASSUME Deletion, ~DeletesRows PROVE rows' = rows
  BY <1>10 DEF Deletion, Deletes, DeletesRollout, books
<1>11. CASE \E q \in Rollouts : Creation(q)
  BY <1>1, <1>2, <1>3, <1>7, <1>11
<1>12. CASE Boot
  BY <1>4, <1>8, <1>12
<1>13. CASE \E d \in Chargers : Report(d)
  BY <1>5, <1>9, <1>13
<1>14. CASE Deletion
  BY <1>6, <1>10, <1>14
<1> QED
  BY <1>11, <1>12, <1>13, <1>14 DEF Next

\* The rows that a creation finds.
CreatedRows(r) == {o \in Rollouts \X todo[r] : rows[o[1]][o[2]] = "Created"}

\* What a creation has at hand it gets when it begins and by sending.
LEMMA CreationGoes ==
  ASSUME Sound, Next, NEW r \in Rollouts
  PROVE  \/ pc'[r] = pc[r] /\ todo'[r] = todo[r] /\ current'[r] = current[r] /\ olds'[r] = olds[r]
         \/ Creates(r) /\ olds'[r] = {} /\ current'[r] = "none" /\ pc[r] = "idle"
            /\ \/ pc'[r] = "done" /\ todo'[r] = {}
               \/ /\ pc'[r] = "find" /\ todo'[r] = Fleet[r]
                  /\ \A s \in Rollouts, c \in Fleet[r] : rows[s][c] \notin UnderWay
         \/ FindsCreated(r) /\ pc[r] = "find"
            /\ todo'[r] = todo[r] /\ current'[r] = "none"
            /\ pc'[r] = (IF olds'[r] = {} THEN "save" ELSE "skip")
            /\ olds'[r] = CreatedRows(r)
         \/ Skips(r) /\ pc[r] = "skip" /\ pc'[r] = "save" /\ todo'[r] = todo[r]
            /\ current'[r] = "none" /\ olds'[r] = {}
         \/ Saves(r) /\ pc[r] = "save" /\ pc'[r] = "insert" /\ todo'[r] = todo[r]
            /\ current'[r] = "none" /\ olds'[r] = {}
         \/ Inserts(r) /\ pc[r] = "insert" /\ pc'[r] = "send" /\ todo'[r] = todo[r]
            /\ current'[r] = "none" /\ olds'[r] = {}
         \/ /\ \E c \in Chargers, reached \in BOOLEAN, ok \in BOOLEAN :
                 /\ SendsTo(r, c, reached, ok)
                 /\ c \in todo[r] /\ todo'[r] = todo[r] \ {c}
                 /\ current'[r] = IF ok THEN c ELSE "none"
                 /\ pc'[r] = IF ok THEN "mark" ELSE IF todo'[r] = {} THEN "done" ELSE "send"
            /\ pc[r] = "send" /\ olds'[r] = {} /\ olds[r] = {} /\ current[r] = "none"
         \/ Marks(r) /\ pc[r] = "mark" /\ pc'[r] = (IF todo[r] = {} THEN "done" ELSE "send")
            /\ todo'[r] = todo[r] /\ current'[r] = "none" /\ olds'[r] = {}
<1> USE DEF Sound
<1>0. r \in Actors /\ CreationHolds(r)
  BY Apart DEF Held
<1>1. ASSUME NEW q \in Rollouts, Creation(q), q # r
      PROVE  pc'[r] = pc[r] /\ todo'[r] = todo[r] /\ current'[r] = current[r] /\ olds'[r] = olds[r]
  <2>1. \A x : [pc EXCEPT ![q] = x][r] = pc[r] /\ [current EXCEPT ![q] = x][r] = current[r]
    BY <1>0, <1>1 DEF Typed
  <2>2. \A x : [todo EXCEPT ![q] = x][r] = todo[r] /\ [olds EXCEPT ![q] = x][r] = olds[r]
    BY <1>1 DEF Typed
  <2>3. CASE Creates(q)
    BY <2>1, <2>2, <2>3 DEF Creates
  <2>4. CASE FindsCreated(q)
    BY <2>1, <2>2, <2>4 DEF FindsCreated
  <2>5. CASE Skips(q) \/ Saves(q) \/ Inserts(q) \/ Marks(q)
    BY <2>1, <2>2, <2>5 DEF Skips, Saves, Inserts, Marks
  <2>6. ASSUME NEW c \in Chargers, NEW reached \in BOOLEAN, NEW ok \in BOOLEAN,
               SendsTo(q, c, reached, ok)
        PROVE  pc'[r] = pc[r] /\ todo'[r] = todo[r] /\ current'[r] = current[r] /\ olds'[r] = olds[r]
    BY <2>1, <2>2, <2>6 DEF SendsTo
  <2> QED
    BY <1>1, <2>3, <2>4, <2>5, <2>6 DEF Creation
<1>2. ASSUME Boot \/ (\E c \in Chargers : Report(c)) \/ Deletion
      PROVE  pc'[r] = pc[r] /\ todo'[r] = todo[r] /\ current'[r] = current[r] /\ olds'[r] = olds[r]
  BY <1>2, Apart DEF Boot, BootReads, BootSends, BootMarks, Report, Reports, ReportWrites,
     ReportSums, ReportEnds, Deletion, Deletes, DeletesRows, DeletesRollout, Typed
<1>3. CASE Creates(r)
  BY <1>0, <1>3 DEF Creates, Begins, CreationHolds, Typed
<1>4. CASE FindsCreated(r)
  <2>1. olds'[r] = CreatedRows(r)
    BY <1>4 DEF FindsCreated, CreatedRows, Typed
  <2>2. pc[r] = "find" /\ pc'[r] = IF olds'[r] = {} THEN "save" ELSE "skip"
    BY <1>0, <1>4 DEF FindsCreated, Typed
  <2>3. current[r] = "none" /\ UNCHANGED <<todo, current>>
    BY <1>0, <1>4, <2>2 DEF FindsCreated, CreationHolds
  <2>4. todo'[r] = todo[r] /\ current'[r] = "none"
    BY <2>3
  <2> QED
    BY <1>4, <2>1, <2>2, <2>4, Zenon
<1>5. CASE Skips(r)
  BY <1>0, <1>5 DEF Skips, CreationHolds, Typed
<1>6. CASE Saves(r)
  BY <1>0, <1>6 DEF Saves, CreationHolds, Typed
<1>7. CASE Inserts(r)
  BY <1>0, <1>7 DEF Inserts, CreationHolds, Typed
<1>8. ASSUME NEW c \in Chargers, NEW reached \in BOOLEAN, NEW ok \in BOOLEAN,
             SendsTo(r, c, reached, ok)
      PROVE  /\ c \in todo[r] /\ todo'[r] = todo[r] \ {c}
             /\ current'[r] = IF ok THEN c ELSE "none"
             /\ pc'[r] = IF ok THEN "mark" ELSE IF todo'[r] = {} THEN "done" ELSE "send"
             /\ pc[r] = "send" /\ olds'[r] = {} /\ olds[r] = {} /\ current[r] = "none"
  BY <1>0, <1>8 DEF SendsTo, Counts, CreationHolds, Typed
<1>9. CASE Marks(r)
  BY <1>0, <1>9 DEF Marks, CreationHolds, Typed
<1>10. CASE Creation(r)
  BY <1>3, <1>4, <1>5, <1>6, <1>7, <1>8, <1>9, <1>10 DEF Creation
<1> QED
  BY <1>1, <1>2, <1>10 DEF Next

\* What the handler of a charger's reports has at hand.
LEMMA ReportGoes ==
  ASSUME Sound, Next, NEW c \in Chargers
  PROVE  \/ pc'[c] = pc[c] /\ current'[c] = current[c] /\ report'[c] = report[c]
         \/ /\ pc[c] = "idle" /\ pc'[c] = "write"
            /\ \E s \in Reported : /\ Reports(c, s) /\ s \in Follows(phase[c]) /\ phase'[c] = s
                                   /\ report'[c].status = s
            /\ current'[c] \in Newest(c)
         \/ ReportWrites(c) /\ pc[c] = "write" /\ pc'[c] = "sum" /\ current'[c] = current[c]
            /\ report'[c] = report[c]
         \/ ReportSums(c) /\ pc[c] = "sum" /\ pc'[c] = "end" /\ current'[c] = current[c]
            /\ report'[c].status = report[c].status /\ report'[c].sum = Sum(current[c])
         \/ ReportEnds(c) /\ pc[c] = "end" /\ pc'[c] = "idle" /\ current'[c] = "none"
<1> USE DEF Sound
<1>0. c \in Actors /\ c \notin Rollouts /\ c # "booter" /\ c # "admin"
  BY Apart
<1>1. ASSUME (\E r \in Rollouts : Creation(r)) \/ Boot \/ Deletion
      PROVE  pc'[c] = pc[c] /\ current'[c] = current[c] /\ report'[c] = report[c]
  <2>1. ASSUME NEW r \in Rollouts, Creation(r)
        PROVE  pc'[c] = pc[c] /\ current'[c] = current[c] /\ report'[c] = report[c]
    BY <1>0, <2>1 DEF Creation, Creates, FindsCreated, Skips, Saves, Inserts, Marks, SendsTo, Typed
  <2> QED
    BY <1>0, <1>1, <2>1 DEF Boot, BootReads, BootSends, BootMarks, Deletion, Deletes, DeletesRows,
       DeletesRollout, Typed
<1>2. ASSUME NEW d \in Chargers, Report(d), d # c
      PROVE  pc'[c] = pc[c] /\ current'[c] = current[c] /\ report'[c] = report[c]
  <2>1. CASE \E s \in RowStatuses : Reports(d, s)
    BY <1>0, <1>2, <2>1 DEF Reports, Typed
  <2>2. CASE ReportWrites(d) \/ ReportSums(d) \/ ReportEnds(d)
    BY <1>0, <1>2, <2>2 DEF ReportWrites, ReportSums, ReportEnds, Typed
  <2> QED
    BY <1>2, <2>1, <2>2 DEF Report
<1>3. ASSUME NEW s \in RowStatuses, Reports(c, s)
      PROVE  \/ pc'[c] = pc[c] /\ current'[c] = current[c] /\ report'[c] = report[c]
             \/ /\ pc[c] = "idle" /\ pc'[c] = "write"
                /\ \E t \in Reported : /\ Reports(c, t) /\ t \in Follows(phase[c]) /\ phase'[c] = t
                                       /\ report'[c].status = t
                /\ current'[c] \in Newest(c)
  <2>1. s \in Reported /\ s \in Follows(phase[c]) /\ phase'[c] = s /\ pc[c] = "idle"
    BY <1>3, FollowsReported DEF Reports, Begins, Typed
  <2>2. \/ UNCHANGED <<pc, current, report>>
        \/ \E r \in Newest(c) :
             /\ pc' = [pc EXCEPT ![c] = "write"] /\ current' = [current EXCEPT ![c] = r]
             /\ report' = [report EXCEPT ![c] = [status |-> s, sum |-> "none"]]
    BY <1>3 DEF Reports
  <2>3. \/ UNCHANGED <<pc, current, report>>
        \/ pc'[c] = "write" /\ current'[c] \in Newest(c) /\ report'[c].status = s
    BY <1>0, <2>2 DEF Typed
  <2> QED
    BY <1>3, <2>1, <2>3
<1>4. CASE ReportWrites(c)
  BY <1>0, <1>4 DEF ReportWrites, Typed
<1>5. CASE ReportSums(c)
  <2>1. report[c] \in [status : RowStatuses \cup {"none"}, sum : RolloutStatuses \cup {"none"}]
    BY DEF Typed
  <2>2. report'[c] = [report[c] EXCEPT !.sum = Sum(current[c])]
    BY <1>5 DEF ReportSums, Typed
  <2>3. report'[c].status = report[c].status /\ report'[c].sum = Sum(current[c])
    BY <2>1, <2>2
  <2> QED
    BY <1>0, <1>5, <2>3 DEF ReportSums, Typed
<1>6. CASE ReportEnds(c)
  BY <1>0, <1>6 DEF ReportEnds, Typed
<1> QED
  BY <1>1, <1>2, <1>3, <1>4, <1>5, <1>6 DEF Next, Report

\* What the job of a boot has at hand.
LEMMA BootGoes ==
  ASSUME Sound, Next
  PROVE  \/ /\ pc'["booter"] = pc["booter"] /\ current'["booter"] = current["booter"]
            /\ booting' = booting
         \/ /\ pc["booter"] = "idle" /\ pc'["booter"] = "send"
            /\ \E c \in Chargers, r \in Rollouts :
                 /\ BootReads(c, r) /\ current'["booter"] = r /\ booting' = c
                 /\ r \in Unsent(c) /\ \A s \in Unsent(c) : born[s] <= born[r]
         \/ /\ pc["booter"] = "send" /\ pc'["booter"] = "mark"
            /\ \E reached \in BOOLEAN, ok \in BOOLEAN : BootSends(reached, ok)
            /\ current'["booter"] = current["booter"] /\ booting' = booting
         \/ /\ BootMarks /\ pc["booter"] = "mark" /\ pc'["booter"] = "idle"
            /\ current'["booter"] = "none" /\ booting' = "none"
<1> USE DEF Sound
<1>0. "booter" \in Actors /\ \A a \in Rollouts \cup Chargers : a # "booter"
  BY Apart
<1>1. ASSUME NEW r \in Rollouts, Creation(r)
      PROVE  /\ pc'["booter"] = pc["booter"] /\ current'["booter"] = current["booter"]
             /\ booting' = booting
  BY <1>0, <1>1 DEF Creation, Creates, FindsCreated, Skips, Saves, Inserts, Marks, SendsTo, Typed
<1>2. ASSUME NEW c \in Chargers, Report(c)
      PROVE  /\ pc'["booter"] = pc["booter"] /\ current'["booter"] = current["booter"]
             /\ booting' = booting
  BY <1>0, <1>2 DEF Report, Reports, ReportWrites, ReportSums, ReportEnds, Typed
<1>3. CASE Deletion
  BY <1>0, <1>3 DEF Deletion, Deletes, DeletesRows, DeletesRollout, Typed
<1>4. ASSUME NEW c \in Chargers, NEW r \in Rollouts, BootReads(c, r)
      PROVE  /\ pc["booter"] = "idle" /\ pc'["booter"] = "send"
             /\ BootReads(c, r) /\ current'["booter"] = r /\ booting' = c
             /\ r \in Unsent(c) /\ \A s \in Unsent(c) : born[s] <= born[r]
  BY <1>0, <1>4 DEF BootReads, Begins, Typed
<1>5. ASSUME NEW reached \in BOOLEAN, NEW ok \in BOOLEAN, BootSends(reached, ok)
      PROVE  /\ pc["booter"] = "send" /\ pc'["booter"] = "mark"
             /\ current'["booter"] = current["booter"] /\ booting' = booting
  BY <1>0, <1>5 DEF BootSends, Typed
<1>6. CASE BootMarks
  BY <1>0, <1>6 DEF BootMarks, Typed
<1> QED
  BY <1>1, <1>2, <1>3, <1>4, <1>5, <1>6 DEF Next, Boot

\* Who tells a charger of an update, and what the charger does of itself.
LEMMA ChargerGoes ==
  ASSUME Sound, Next, NEW c \in Chargers
  PROVE  \/ doing'[c] = doing[c] /\ phase'[c] = phase[c]
            /\ \A r \in Rollouts : <<r, c>> \in told' <=> <<r, c>> \in told
         \/ \E r \in Rollouts, reached \in BOOLEAN, ok \in BOOLEAN :
              /\ Tells(r, c, reached, ok)
              /\ Sends(r, c, reached, ok)
         \/ \E s \in Reported :
              /\ Reports(c, s) /\ pc[c] = "idle"
              /\ s \in Follows(phase[c]) /\ phase'[c] = s
              /\ doing'[c] = doing[c] /\ told' = told
<1> USE DEF Sound
<1>1. ASSUME NEW q \in Rollouts, NEW d \in Chargers, NEW reached \in BOOLEAN, NEW ok \in BOOLEAN,
             Sends(q, d, reached, ok), d # c
      PROVE  doing'[c] = doing[c] /\ phase'[c] = phase[c]
             /\ \A r \in Rollouts : <<r, c>> \in told' <=> <<r, c>> \in told
  BY <1>1, SendsTyped
<1>2. ASSUME NEW q \in Rollouts, Creation(q),
             ~\E d \in Chargers, reached \in BOOLEAN, ok \in BOOLEAN : SendsTo(q, d, reached, ok)
      PROVE  UNCHANGED <<doing, phase, told>>
  BY <1>2 DEF Creation, Creates, FindsCreated, Skips, Saves, Inserts, Marks, chargers
<1>3. ASSUME Boot, ~\E reached \in BOOLEAN, ok \in BOOLEAN : BootSends(reached, ok)
      PROVE  UNCHANGED <<doing, phase, told>>
  BY <1>3 DEF Boot, BootReads, BootMarks, chargers
<1>4. CASE Deletion
  BY <1>4 DEF Deletion, Deletes, DeletesRows, DeletesRollout, chargers
<1>5. ASSUME NEW d \in Chargers, Report(d), ~\E s \in RowStatuses : Reports(d, s)
      PROVE  UNCHANGED <<doing, phase, told>>
  BY <1>5 DEF Report, ReportWrites, ReportSums, ReportEnds, chargers
<1>6. ASSUME NEW d \in Chargers, NEW s \in RowStatuses, Reports(d, s)
      PROVE  /\ s \in Reported /\ pc[d] = "idle" /\ s \in Follows(phase[d])
             /\ phase' = [phase EXCEPT ![d] = s] /\ doing' = doing /\ told' = told
  BY <1>6, FollowsReported DEF Reports, Begins
<1>7. ASSUME NEW q \in Rollouts, NEW d \in Chargers, NEW reached \in BOOLEAN, NEW ok \in BOOLEAN,
             SendsTo(q, d, reached, ok)
      PROVE  Sends(q, d, reached, ok)
  BY <1>7 DEF SendsTo
<1>8. ASSUME NEW reached \in BOOLEAN, NEW ok \in BOOLEAN, BootSends(reached, ok)
      PROVE  \E q \in Rollouts, d \in Chargers :
               q = current["booter"] /\ d = booting /\ Sends(q, d, reached, ok)
  BY <1>8 DEF BootSends, Held, BootHolds
<1>9. CASE \E q \in Rollouts : Creation(q)
  BY <1>1, <1>2, <1>7, <1>9
<1>10. CASE Boot
  BY <1>1, <1>3, <1>8, <1>10
<1>11. CASE \E d \in Chargers : Report(d)
  BY <1>5, <1>6, <1>11 DEF Typed
<1> QED
  BY <1>4, <1>9, <1>10, <1>11 DEF Next

\* Who ranks rows, and who writes the status of a rollout.
LEMMA BornGoes ==
  ASSUME Sound, Next, NEW r \in Rollouts
  PROVE  \/ born'[r] = born[r] /\ ~Inserts(r)
         \/ Inserts(r) /\ \E m \in Nat : born'[r] = m + 1 /\ \A q \in Rollouts : born[q] <= m
         \/ DeletesRows /\ current["admin"] = r /\ born'[r] = 0
<1> USE DEF Sound
<1>1. ASSUME NEW q \in Rollouts, Inserts(q)
      PROVE  /\ q # r => born'[r] = born[r] /\ ~Inserts(r)
             /\ q = r => \E m \in Nat : born'[r] = m + 1 /\ \A s \in Rollouts : born[s] <= m
  <2>1. PICK m \in Nat : /\ m = Max({born[s] : s \in Rollouts})
                         /\ m <= Cardinality(Made) /\ \A s \in Rollouts : born[s] <= m
    BY TopRank, Zenon
  <2>2. born' = [born EXCEPT ![q] = 1 + m]
    BY <1>1, <2>1 DEF Inserts
  <2>3. q # r => born'[r] = born[r]
    BY <2>2 DEF Typed
  <2>4. q = r => born'[r] = m + 1
    BY <2>2 DEF Typed
  <2>5. q # r => ~Inserts(r)
    <3>1. pc[q] = "insert" /\ pc' = [pc EXCEPT ![q] = "send"]
      BY <1>1 DEF Inserts
    <3>2. Inserts(r) => pc[r] = "insert" /\ pc' = [pc EXCEPT ![r] = "send"]
      BY DEF Inserts
    <3> QED
      BY <3>1, <3>2, Apart DEF Typed
  <2> QED
    BY <2>1, <2>3, <2>4, <2>5
<1>2. ASSUME NEW q \in Rollouts, Creation(q), ~Inserts(q), ~\E s \in Rollouts : Inserts(s)
      PROVE  born' = born
  BY <1>2 DEF Creation, Creates, FindsCreated, Skips, Saves, SendsTo, Marks, books
<1>3. ASSUME Boot \/ \E c \in Chargers : Report(c)
      PROVE  born' = born
  BY <1>3 DEF Boot, BootReads, BootSends, BootMarks, Report, Reports, ReportWrites, ReportSums,
     ReportEnds, books
<1>4. ASSUME Deletion
      PROVE  \/ born'[r] = born[r]
             \/ DeletesRows /\ current["admin"] = r /\ born'[r] = 0
  <2>1. CASE DeletesRows
    BY <2>1 DEF DeletesRows, Typed, Held, DeletionHolds
  <2>2. CASE DeletesRollout \/ \E q \in Rollouts : Deletes(q)
    BY <2>2 DEF Deletes, DeletesRollout, books
  <2> QED
    BY <1>4, <2>1, <2>2 DEF Deletion
<1>7. ASSUME Inserts(r) PROVE ~Boot /\ ~Deletion /\ ~\E c \in Chargers : Report(c)
  <2>1. pc[r] = "insert" /\ pc'[r] = "send"
    BY <1>7, Apart DEF Inserts, Typed
  <2>2. Boot \/ Deletion \/ (\E c \in Chargers : Report(c)) => pc'[r] = pc[r]
    BY Apart DEF Boot, BootReads, BootSends, BootMarks, Report, Reports, ReportWrites,
       ReportSums, ReportEnds, Deletion, Deletes, DeletesRows, DeletesRollout, Typed
  <2> QED
    BY <2>1, <2>2
<1>5. Inserts(r) => Creation(r)
  BY DEF Creation
<1> QED
  BY <1>1, <1>2, <1>3, <1>4, <1>5, <1>7 DEF Next

\* Who writes the status of a rollout: its creation, the handlers of reports and the
\* deletion.
LEMMA StatusGoes ==
  ASSUME Sound, Next, NEW r \in Rollouts
  PROVE  \/ status'[r] = status[r] /\ ~Saves(r)
         \/ Saves(r) /\ status'[r] = "Created"
         \/ status[r] # "none"
            /\ \E c \in Chargers : ReportEnds(c) /\ current[c] = r /\ status'[r] = report[c].sum
         \/ DeletesRollout /\ current["admin"] = r /\ status'[r] = "none"
<1> USE DEF Sound
<1>1. ASSUME NEW q \in Rollouts, Saves(q)
      PROVE  status'[r] = (IF q = r THEN "Created" ELSE status[r]) /\ (q # r => ~Saves(r))
  <2>1. status' = [status EXCEPT ![q] = "Created"]
        /\ pc[q] = "save" /\ pc' = [pc EXCEPT ![q] = "insert"]
    BY <1>1 DEF Saves
  <2>2. Saves(r) => pc[r] = "save" /\ pc' = [pc EXCEPT ![r] = "insert"]
    BY DEF Saves
  <2> QED
    BY <2>1, <2>2, Apart DEF Typed
<1>2. ASSUME NEW q \in Rollouts, Creation(q), ~\E s \in Rollouts : Saves(s)
      PROVE  status' = status
  BY <1>2 DEF Creation, Creates, FindsCreated, Skips, Inserts, SendsTo, Marks, books
<1>3. ASSUME NEW c \in Chargers, Report(c)
      PROVE  \/ status'[r] = status[r]
             \/ status[r] # "none" /\ ReportEnds(c) /\ current[c] = r /\ status'[r] = report[c].sum
  <2>1. CASE ReportEnds(c)
    BY <2>1 DEF ReportEnds, Typed, Held, ReportHolds
  <2> QED
    BY <1>3, <2>1 DEF Report, Reports, ReportWrites, ReportSums, books
<1>4. ASSUME Boot PROVE status'[r] = status[r]
  BY <1>4 DEF Boot, BootReads, BootSends, BootMarks, books
<1>5. ASSUME Deletion
      PROVE  \/ status'[r] = status[r]
             \/ DeletesRollout /\ current["admin"] = r /\ status'[r] = "none"
  <2>1. CASE DeletesRollout
    BY <2>1 DEF DeletesRollout, Typed, Held, DeletionHolds
  <2>2. CASE DeletesRows \/ \E q \in Rollouts : Deletes(q)
    BY <2>2 DEF Deletes, DeletesRows, books
  <2> QED
    BY <1>5, <2>1, <2>2 DEF Deletion
<1>7. ASSUME Saves(r) PROVE ~Boot /\ ~Deletion /\ ~\E c \in Chargers : Report(c)
  <2>1. pc[r] = "save" /\ pc'[r] = "insert"
    BY <1>7, Apart DEF Saves, Typed
  <2>2. Boot \/ Deletion \/ (\E c \in Chargers : Report(c)) => pc'[r] = pc[r]
    BY Apart DEF Boot, BootReads, BootSends, BootMarks, Report, Reports, ReportWrites,
       ReportSums, ReportEnds, Deletion, Deletes, DeletesRows, DeletesRollout, Typed
  <2> QED
    BY <2>1, <2>2
<1>6. Saves(r) => Creation(r) /\ status'[r] = "Created"
  BY DEF Creation, Saves, Typed
<1> QED
  BY <1>1, <1>2, <1>3, <1>4, <1>5, <1>6, <1>7 DEF Next

------------------------------------------------------------------------------
(* What was not inserted yet nobody has at hand, and rows are ranked *)

Early(r) == pc[r] \in {"idle"} \cup Drafting
Fresh ==
  \A r \in Rollouts : Early(r) =>
    /\ born[r] = 0 /\ status[r] \in {"none", "Created"} /\ current["booter"] # r
    /\ \A c \in Chargers : rows[r][c] = "none" /\ current[c] # r /\ <<r, c>> \notin told
Ranks ==
  /\ \A r \in Rollouts, c \in Chargers : HasRow(r, c) => born[r] > 0
  /\ \A r, s \in Rollouts : born[r] = born[s] /\ born[r] > 0 => r = s
Ordered == Sound /\ Fresh /\ Ranks

\* A rollout that is early was early, and its rows were not inserted in this step.
LEMMA WasEarly ==
  ASSUME Sound, Next, NEW r \in Rollouts, Early(r)'
  PROVE  Early(r) /\ ~Inserts(r)
<1>1. Inserts(r) => pc'[r] = "send"
  BY Apart DEF Inserts, Sound, Typed
<1> QED
  BY <1>1, CreationGoes DEF Early, Drafting

\* Every step keeps rollouts fresh until they are inserted.
LEMMA FreshNext ==
  ASSUME Ordered, Next
  PROVE  Fresh'
<1> SUFFICES ASSUME NEW r \in Rollouts, Early(r)'
    PROVE /\ born'[r] = 0 /\ status'[r] \in {"none", "Created"} /\ current'["booter"] # r
          /\ \A c \in Chargers : rows'[r][c] = "none" /\ current'[c] # r /\ <<r, c>> \notin told'
  BY DEF Fresh
<1> USE DEF Ordered
<1>1. Early(r) /\ ~Inserts(r)
  BY WasEarly
<1>2. /\ born[r] = 0 /\ status[r] \in {"none", "Created"} /\ current["booter"] # r
      /\ \A c \in Chargers : rows[r][c] = "none" /\ current[c] # r /\ <<r, c>> \notin told
  BY <1>1 DEF Fresh
<1>3. born'[r] = 0
  BY <1>1, <1>2, BornGoes
<1>4. status'[r] \in {"none", "Created"}
  BY <1>2, StatusGoes
<1>5. current'["booter"] # r
  BY <1>2, BootGoes, Apart DEF Unsent
<1>6. ASSUME NEW c \in Chargers
      PROVE  rows'[r][c] = "none" /\ current'[c] # r /\ <<r, c>> \notin told'
  <2>1. rows'[r][c] = "none"
    BY <1>1, <1>2, RowWritten
  <2>2. current'[c] # r
    BY <1>2, ReportGoes, Apart DEF Newest, Mine
  <2>3. ASSUME NEW q \in Rollouts, NEW reached \in BOOLEAN, NEW ok \in BOOLEAN,
               Tells(q, c, reached, ok),
               Sends(q, c, reached, ok)
        PROVE  <<r, c>> \notin told'
    <3>1. q # r
      <4>1. SendsTo(q, c, reached, ok) => pc[q] = "send"
        BY DEF SendsTo
      <4> QED
        BY <1>1, <1>2, <2>3, <4>1 DEF Early, Drafting
    <3>2. told' = told \/ told' = told \cup {<<q, c>>}
      BY <2>3 DEF Sends
    <3> QED
      BY <1>2, <3>1, <3>2
  <2>4. <<r, c>> \notin told'
    BY <1>2, <2>3, ChargerGoes
  <2> QED
    BY <2>1, <2>2, <2>4
<1> QED
  BY <1>3, <1>4, <1>5, <1>6

\* Every step keeps the ranks of rows positive and distinct.
LEMMA RanksNext ==
  ASSUME Ordered, Next
  PROVE  Ranks'
<1> USE DEF Ordered
<1>1. ASSUME NEW r \in Rollouts, NEW c \in Chargers, HasRow(r, c)' PROVE born'[r] > 0
  <2>1. HasRow(r, c) \/ Inserts(r)
    BY <1>1, RowWritten
  <2>2. CASE Inserts(r)
    <3>1. ~DeletesRows
      <4>1. DeletesRows => pc'[r] = pc[r]
        BY Apart DEF DeletesRows, Sound, Typed
      <4>2. pc[r] = "insert" /\ pc'[r] = "send"
        BY <2>2, Apart DEF Inserts, Sound, Typed
      <4> QED
        BY <4>1, <4>2
    <3> QED
      BY <2>2, <3>1, BornGoes
  <2>3. CASE HasRow(r, c) /\ ~Inserts(r)
    <3>1. DeletesRows /\ current["admin"] = r => rows'[r][c] = "none"
      BY DEF DeletesRows, Sound, Typed
    <3> QED
      BY <1>1, <2>3, <3>1, BornGoes DEF Ranks
  <2> QED
    BY <2>1, <2>2, <2>3
<1>2. ASSUME NEW r \in Rollouts, NEW s \in Rollouts, born'[r] = born'[s], born'[r] > 0
      PROVE  r = s
  <2>1. born[r] \in Nat /\ born[s] \in Nat
    BY DEF Sound, Typed
  <2>2. CASE Inserts(r) /\ r # s
    <3>1. ~Inserts(s)
      <4>1. Inserts(s) => pc[s] = "insert" /\ pc' = [pc EXCEPT ![s] = "send"]
        BY DEF Inserts
      <4>2. pc[r] = "insert" /\ pc' = [pc EXCEPT ![r] = "send"]
        BY <2>2 DEF Inserts
      <4> QED
        BY <2>2, <4>1, <4>2, Apart DEF Sound, Typed
    <3> QED
      BY <1>2, <2>1, <2>2, <3>1, BornGoes
  <2>3. CASE Inserts(s) /\ r # s
    <3>1. ~Inserts(r)
      <4>1. Inserts(r) => pc[r] = "insert" /\ pc' = [pc EXCEPT ![r] = "send"]
        BY DEF Inserts
      <4>2. pc[s] = "insert" /\ pc' = [pc EXCEPT ![s] = "send"]
        BY <2>3 DEF Inserts
      <4> QED
        BY <2>3, <4>1, <4>2, Apart DEF Sound, Typed
    <3> QED
      BY <1>2, <2>1, <2>3, <3>1, BornGoes
  <2>4. CASE ~Inserts(r) /\ ~Inserts(s)
    BY <1>2, <2>1, <2>4, BornGoes DEF Ranks
  <2> QED
    BY <2>2, <2>3, <2>4
<1> QED
  BY <1>1, <1>2 DEF Ranks

\* Initially no rollout is inserted.
LEMMA OrderedInit == Init => Ordered
<1> SUFFICES ASSUME Init PROVE Ordered
  OBVIOUS
<1>1. Fresh /\ Ranks
  BY Apart DEF Init, Fresh, Ranks
<1> QED
  BY <1>1, SoundInit DEF Ordered

\* Every step keeps the order.
LEMMA OrderedNext == Ordered /\ [Next]_vars => Ordered'
<1>1. ASSUME Ordered, Next PROVE Ordered'
  BY <1>1, SoundNext, FreshNext, RanksNext DEF Ordered
<1>2. ASSUME Ordered, UNCHANGED vars PROVE Ordered'
  BY <1>2, SoundNext DEF Ordered, Fresh, Early, Ranks, vars, books, work, chargers, bounds
<1> QED
  BY <1>1, <1>2

\* The variables keep their types, no row comes back that was deleted, and there are no
\* more ranks than rollouts, for any number of rollouts, chargers and odd events.
THEOREM TypeCorrect == SafeSpec => []TypeOK
<1>1. Ordered => TypeOK
  <2> SUFFICES ASSUME Ordered PROVE TypeOK
    OBVIOUS
  <2> USE DEF Ordered, Sound
  <2>1. Cardinality(Made) <= Cardinality(Rollouts) /\ Cardinality(Rollouts) \in Nat
    BY OtaAssumption, FS_Subset, FS_CardinalityType DEF Made
  <2>2. PICK n \in Nat : n = Cardinality(Made)
    BY MadeCounted
  <2>3. PICK m \in Nat : m = Cardinality(Rollouts)
    BY <2>1
  <2>4. \A r \in Rollouts : born[r] \in 0..m
    BY <2>1, <2>2, <2>3 DEF Typed, Ranked
  <2> QED
    BY <2>3, <2>4 DEF Typed, TypeOK, Ranks
<1> QED
  BY <1>1, OrderedInit, OrderedNext, PTL DEF SafeSpec

------------------------------------------------------------------------------
(* A row says Sent only if its charger was told *)

\* Who is about to mark a row as sent has told its charger; but the job of a boot marks
\* it whatever the answer was.
Marking ==
  /\ \A r \in Rollouts : pc[r] = "mark" => <<r, current[r]>> \in told
  /\ pc["booter"] = "mark" =>
       <<current["booter"], booting>> \in told \/ "unanswered" \in odd[booting]

\* The history only grows.
LEMMA HistoryGrows ==
  ASSUME Sound, Next
  PROVE  /\ told \subseteq told' /\ installed \subseteq installed' /\ crossed \subseteq crossed'
         /\ \A c \in Chargers : odd[c] \subseteq odd'[c]
<1> USE DEF Sound
<1>1. told \subseteq told'
  <2>1. ASSUME NEW r \in Rollouts, NEW c \in Chargers, <<r, c>> \in told PROVE <<r, c>> \in told'
    BY <2>1, ChargerGoes, SendsTyped
  <2> QED
    BY <2>1 DEF Typed
<1>2. installed \subseteq installed'
  <2>1. ASSUME NEW r \in Rollouts, Creation(r) PROVE installed' = installed
    BY <2>1 DEF Creation, Creates, FindsCreated, Skips, Saves, Inserts, Marks, SendsTo
  <2>2. ASSUME Boot \/ Deletion PROVE installed' = installed
    BY <2>2 DEF Boot, BootReads, BootSends, BootMarks, Deletion, Deletes, DeletesRows, DeletesRollout
  <2>3. ASSUME NEW c \in Chargers, Report(c) PROVE installed \subseteq installed'
    BY <2>3 DEF Report, Reports, ReportWrites, ReportSums, ReportEnds
  <2> QED
    BY <2>1, <2>2, <2>3 DEF Next
<1> QED
  BY <1>1, <1>2, Notes DEF Next

\* A send that the code counts as answered reaches its charger; the job's send that is
\* not answered is noted.
LEMMA BootSendsTold ==
  ASSUME Sound, Next, NEW reached \in BOOLEAN, NEW ok \in BOOLEAN, BootSends(reached, ok)
  PROVE  /\ current["booter"] \in Rollouts /\ booting \in Chargers
         /\ <<current["booter"], booting>> \in told' \/ "unanswered" \in odd'[booting]
<1> USE DEF Sound
<1>1. pc["booter"] = "send" /\ current["booter"] \in Rollouts /\ booting \in Chargers
  BY DEF BootSends, Held, BootHolds
<1>2. Sends(current["booter"], booting, reached, ok)
  BY DEF BootSends
<1>3. pc'["booter"] = "mark"
  BY Apart DEF BootSends, Typed
<1>4. PICK r \in Rollouts, c \in Chargers : r = current["booter"] /\ c = booting
  BY <1>1
<1>5. Sends(r, c, reached, ok)
  BY <1>2, <1>4
<1>6. CASE ok
  <2>1. told' = told \cup {<<r, c>>}
    BY <1>5, <1>6 DEF Sends
  <2> QED
    BY <1>1, <1>4, <2>1
<1>7. CASE ~ok
  <2>1. spent' > spent
    BY <1>5, <1>7, SendsTyped
  <2>2. Happens(c, "unanswered") /\ "unanswered" \in Oddities
    BY <1>1, <1>3, <1>4, <2>1 DEF Happens, Oddities
  <2> QED
    BY <1>1, <1>4, <2>2, Notes DEF Next
<1> QED
  BY <1>6, <1>7

\* Every step keeps those true who are about to mark.
LEMMA MarkingNext ==
  ASSUME Sound, Marking, Next
  PROVE  Marking'
<1> USE DEF Sound
<1>1. ASSUME NEW r \in Rollouts, pc'[r] = "mark" PROVE <<r, current'[r]>> \in told'
  <2>1. CASE pc[r] = "mark" /\ current'[r] = current[r]
    BY <2>1, HistoryGrows DEF Marking
  <2>2. ASSUME NEW c \in Chargers, NEW reached \in BOOLEAN, NEW ok \in BOOLEAN,
               SendsTo(r, c, reached, ok), current'[r] = IF ok THEN c ELSE "none",
               pc'[r] = IF ok THEN "mark" ELSE IF todo'[r] = {} THEN "done" ELSE "send"
        PROVE  <<r, current'[r]>> \in told'
    <3>1. ok /\ Sends(r, c, reached, ok)
      BY <1>1, <2>2 DEF SendsTo
    <3>2. told' = told \cup {<<r, c>>}
      BY <3>1 DEF Sends
    <3> QED
      BY <2>2, <3>1, <3>2
  <2> QED
    BY <1>1, <2>1, <2>2, CreationGoes
<1>2. ASSUME pc'["booter"] = "mark"
      PROVE  <<current'["booter"], booting'>> \in told' \/ "unanswered" \in odd'[booting']
  <2>1. CASE /\ pc["booter"] = "mark" /\ current'["booter"] = current["booter"]
             /\ booting' = booting
    <3>1. booting \in Chargers
      BY <2>1 DEF Held, BootHolds
    <3> QED
      BY <2>1, <3>1, HistoryGrows DEF Marking
  <2>2. ASSUME NEW reached \in BOOLEAN, NEW ok \in BOOLEAN, BootSends(reached, ok),
               current'["booter"] = current["booter"], booting' = booting
        PROVE  <<current'["booter"], booting'>> \in told' \/ "unanswered" \in odd'[booting']
    BY <2>2, BootSendsTold
  <2> QED
    BY <1>2, <2>1, <2>2, BootGoes
<1> QED
  BY <1>1, <1>2 DEF Marking

\* A row says Sent only if its charger was told of it, unless the job of the charger's
\* boot was not answered: BootMarks does not look at the answer, SendsTo does.
THEOREM ToldIsSent == SafeSpec => []SentWasTold
<1> DEFINE Inv == Sound /\ Marking /\ SentWasTold
<1>1. Init => Inv
  BY SoundInit, Apart DEF Init, Marking, SentWasTold
<1>2. ASSUME Inv, Next PROVE Inv'
  <2>1. Sound' /\ Marking'
    BY <1>2, SoundNext, MarkingNext
  <2>2. ASSUME NEW r \in Rollouts, NEW c \in Chargers, rows'[r][c] = "Sent"
        PROVE  <<r, c>> \in told' \/ "unanswered" \in odd'[c]
    <3>1. CASE rows[r][c] = "Sent"
      BY <1>2, <3>1, HistoryGrows DEF SentWasTold
    <3>2. CASE Marks(r) /\ current[r] = c
      BY <1>2, <3>2, HistoryGrows DEF Marks, Marking
    <3>3. CASE BootMarks /\ current["booter"] = r /\ booting = c
      BY <1>2, <3>3, HistoryGrows DEF BootMarks, Marking
    <3>4. CASE ReportWrites(c) /\ rows'[r][c] = report[c].status
      BY <1>2, <2>2, <3>4 DEF ReportWrites, Sound, Held, ReportHolds, Reported
    <3> QED
      BY <1>2, <2>2, <3>1, <3>2, <3>3, <3>4, RowWritten
  <2> QED
    BY <2>1, <2>2 DEF SentWasTold
<1>3. ASSUME Inv, UNCHANGED vars PROVE Inv'
  BY <1>3, SoundNext DEF Marking, SentWasTold, vars, books, work, chargers, bounds
<1>4. Inv /\ [Next]_vars => Inv'
  BY <1>2, <1>3
<1> QED
  BY <1>1, <1>4, PTL DEF SafeSpec

------------------------------------------------------------------------------
(* No charger has two updates under way *)

Calm(c) == "overlap" \notin odd[c]

\* Nobody else has a charger in hand that has none of the overlaps.
Alone(c) ==
  /\ \A r, s \in Creating(c) : r = s
  /\ Creating(c) # {} => booting # c
  /\ \A r \in Creating(c) : current[c] # "none" => current[c] = r
  /\ current[c] # "none" /\ booting = c => current["booter"] = current[c]

\* If a rollout has a row for the charger, it is the charger's newest one.
LastOf(r, c) ==
  HasRow(r, c) => \A s \in Rollouts : HasRow(s, c) => born[s] <= born[r]

\* The rows of a charger that may still change are its newest row, and so is the one
\* that an actor has in hand.
Live == {"Created"} \cup UnderWay
LiveAreLast(c) == \A r \in Rollouts : rows[r][c] \in Live => LastOf(r, c)
HandIsLast(c) ==
  /\ current[c] \in Rollouts => LastOf(current[c], c)
  /\ booting = c => LastOf(current["booter"], c)
  /\ \A r \in Creating(c) : pc[r] \in Telling => LastOf(r, c)

\* A creation that has not inserted its rows found nothing under way, and what it found
\* unsent is what it skips.
Clear(r, s, c) ==
  /\ rows[s][c] \notin UnderWay
  /\ pc[r] = "skip" /\ rows[s][c] = "Created" => <<s, c>> \in olds[r]
  /\ pc[r] = "skip" /\ <<s, c>> \in olds[r] => rows[s][c] \in {"Created", "none"}
  /\ pc[r] \in {"save", "insert"} => rows[s][c] # "Created"
AllClear(c) ==
  \A r, s \in Rollouts : c \in todo[r] /\ pc[r] \in Drafting => Clear(r, s, c)

Tidy(c) == Alone(c) /\ LiveAreLast(c) /\ HandIsLast(c) /\ AllClear(c)
Tidied == Ordered /\ \A c \in Chargers : Calm(c) => Tidy(c)

\* Of a set with no more than one element.
LEMMA AtMostOne ==
  ASSUME NEW S, IsFiniteSet(S), ~(Cardinality(S) > 1), NEW r \in S, NEW s \in S
  PROVE  r = s
<1> SUFFICES ASSUME r # s PROVE FALSE
  OBVIOUS
<1>1. IsFiniteSet({s}) /\ Cardinality({s}) = 1
  BY FS_Singleton
<1>2. Cardinality({s} \cup {r}) = 2
  <2>1. r \notin {s}
    OBVIOUS
  <2>2. Cardinality({s} \cup {r}) = Cardinality({s}) + 1
    BY <1>1, <2>1, FS_AddElement
  <2> QED
    BY <1>1, <2>2
<1>3. Cardinality({s} \cup {r}) <= Cardinality(S) /\ Cardinality(S) \in Nat
  BY FS_Subset, FS_CardinalityType
<1> QED
  BY <1>2, <1>3

\* What has an overlap is noted.
LEMMA CalmIsAlone ==
  ASSUME Sound, Next, Sound', NEW c \in Chargers, Calm(c)'
  PROVE  Alone(c)' /\ Calm(c)
<1>1. ~Happens(c, "overlap") /\ Calm(c)
  BY Notes DEF Next, Sound, Calm, Oddities
<1>2. ~Overlap(c)'
  BY <1>1 DEF Happens
<1>3. IsFiniteSet(Creating(c)')
  BY OtaAssumption, FS_Subset DEF Creating
<1>4. \A r, s \in Creating(c)' : r = s
  <2>1. ~(Cardinality(Creating(c)') > 1)
    BY <1>2 DEF Overlap
  <2> QED
    BY <1>3, <2>1, AtMostOne
<1> QED
  BY <1>1, <1>2, <1>4 DEF Overlap, Alone

\* What a creation has in hand that is not yet inserted nobody else has.
LEMMA DraftAlone ==
  ASSUME Ordered, NEW c \in Chargers, Alone(c), NEW r \in Rollouts, c \in todo[r], Early(r)
  PROVE  /\ r \in Creating(c) /\ booting # c /\ current[c] \notin Rollouts
         /\ \A s \in Rollouts : c \in todo[s] \/ current[s] = c => s = r
<1>1. r \in Creating(c) /\ \A s \in Rollouts : c \in todo[s] \/ current[s] = c => s \in Creating(c)
  BY DEF Creating
<1>2. current[c] # r
  BY DEF Ordered, Fresh
<1> QED
  BY <1>1, <1>2, Apart DEF Alone

\* An insertion is of the newest rows.
LEMMA InsertsLast ==
  ASSUME Ordered, Next, NEW r \in Rollouts, Inserts(r), NEW c \in Chargers
  PROVE  LastOf(r, c)' /\ pc[r] = "insert" /\ Early(r) /\ (c \in Fleet[r] => c \in todo[r])
<1> USE DEF Ordered
<1>1. pc[r] = "insert" /\ pc' = [pc EXCEPT ![r] = "send"]
  BY DEF Inserts
<1>2. \A s \in Rollouts \ {r} : ~Inserts(s)
  <2> TAKE s \in Rollouts \ {r}
  <2>1. Inserts(s) => pc[s] = "insert" /\ pc' = [pc EXCEPT ![s] = "send"]
    BY DEF Inserts
  <2> QED
    BY <1>1, <2>1, Apart DEF Sound, Typed
<1>3. ~DeletesRows
  <2>1. DeletesRows => pc'[r] = pc[r]
    BY Apart DEF DeletesRows, Sound, Typed
  <2> QED
    BY <1>1, <2>1, Apart DEF Sound, Typed
<1>4. PICK m \in Nat : born'[r] = m + 1 /\ \A q \in Rollouts : born[q] <= m
  BY <1>3, BornGoes
<1>5. \A s \in Rollouts \ {r} : born'[s] = born[s] /\ born[s] \in Nat
  BY <1>2, <1>3, BornGoes DEF Sound, Typed
<1>6. \A s \in Rollouts : born'[s] <= born'[r]
  BY <1>4, <1>5
<1>7. c \in Fleet[r] => c \in todo[r]
  BY <1>1 DEF Sound, Held, CreationHolds, Drafting
<1> QED
  BY <1>1, <1>6, <1>7 DEF LastOf, Early, Drafting

\* The newest row of a charger stays so until a newer one is inserted.
LEMMA LastStays ==
  ASSUME Ordered, Next, NEW r \in Rollouts, NEW c \in Chargers, LastOf(r, c),
         \A q \in Rollouts : Inserts(q) => q = r \/ c \notin Fleet[q]
  PROVE  LastOf(r, c)'
<1> USE DEF Ordered
<1>1. CASE Inserts(r)
  BY <1>1, InsertsLast
<1>2. CASE ~Inserts(r)
  <2> SUFFICES ASSUME HasRow(r, c)', NEW s \in Rollouts, HasRow(s, c)' PROVE born'[s] <= born'[r]
    BY DEF LastOf
  <2>1. \A q \in Rollouts : ~Inserts(q) /\ HasRow(q, c)' => HasRow(q, c)
    BY RowWritten
  <2>2. \A q \in Rollouts : DeletesRows /\ current["admin"] = q => ~HasRow(q, c)'
    BY DEF DeletesRows, Sound, Typed
  <2>3. HasRow(r, c) /\ born'[r] = born[r]
    BY <1>2, <2>1, <2>2, BornGoes
  <2>4. ~Inserts(s)
    <3>1. ASSUME Inserts(s) PROVE FALSE
      <4>1. c \notin Fleet[s]
        BY <1>2, <3>1
      <4>2. rows'[s][c] = "none"
        BY <3>1, <4>1 DEF Inserts, Sound, Typed
      <4> QED
        BY <4>2
    <3> QED
      BY <3>1
  <2>5. HasRow(s, c) /\ born'[s] = born[s]
    BY <2>1, <2>2, <2>4, BornGoes
  <2> QED
    BY <2>3, <2>5 DEF LastOf
<1> QED
  BY <1>1, <1>2

\* And so while somebody has it in hand, for then nobody inserts a newer one.
LEMMA HandStays ==
  ASSUME Ordered, Next, NEW c \in Chargers, Alone(c), NEW r \in Rollouts, LastOf(r, c),
         r \in Creating(c) \/ current[c] = r \/ booting = c
  PROVE  LastOf(r, c)'
<1>1. ASSUME NEW q \in Rollouts, Inserts(q), c \in Fleet[q] PROVE q = r
  <2>1. c \in todo[q] /\ Early(q)
    BY <1>1, InsertsLast
  <2> QED
    BY <2>1, DraftAlone DEF Creating
<1> QED
  BY <1>1, LastStays

\* Every step keeps the live rows newest.
LEMMA LiveNext ==
  ASSUME Ordered, Next, NEW c \in Chargers, Tidy(c), Alone(c)'
  PROVE  LiveAreLast(c)'
<1> USE DEF Ordered, Tidy
<1> SUFFICES ASSUME NEW r \in Rollouts, rows'[r][c] \in Live PROVE LastOf(r, c)'
  BY DEF LiveAreLast
<1>1. CASE Inserts(r)
  BY <1>1, InsertsLast
<1>2. CASE rows'[r][c] = rows[r][c] /\ ~Inserts(r)
  <2>1. LastOf(r, c)
    BY <1>2 DEF LiveAreLast
  <2>2. ASSUME NEW q \in Rollouts, Inserts(q), c \in Fleet[q] PROVE FALSE
    <3>1. c \in todo[q] /\ pc[q] = "insert"
      BY <2>2, InsertsLast
    <3> QED
      BY <1>2, <3>1 DEF AllClear, Clear, Drafting, Live
  <2> QED
    BY <2>1, <2>2, LastStays
<1>3. CASE Marks(r) /\ current[r] = c
  <2>1. r \in Creating(c) /\ pc[r] = "mark"
    BY <1>3 DEF Marks, Creating
  <2>2. LastOf(r, c)
    BY <2>1 DEF HandIsLast, Telling
  <2> QED
    BY <2>1, <2>2, HandStays
<1>4. CASE BootMarks /\ current["booter"] = r /\ booting = c
  BY <1>4, HandStays DEF HandIsLast
<1>5. CASE ReportWrites(c) /\ current[c] = r
  BY <1>5, HandStays DEF HandIsLast
<1> QED
  BY <1>1, <1>2, <1>3, <1>4, <1>5, RowWritten DEF Live, UnderWay

\* Every step keeps newest what an actor has in hand.
LEMMA HandNext ==
  ASSUME Ordered, Next, NEW c \in Chargers, Tidy(c), Alone(c)'
  PROVE  HandIsLast(c)'
<1> USE DEF Ordered, Tidy
<1>1. ASSUME current'[c] \in Rollouts PROVE LastOf(current[c], c)'
  <2>1. CASE current'[c] = current[c]
    <3>1. PICK r \in Rollouts : r = current[c]
      BY <1>1, <2>1
    <3>2. LastOf(r, c)'
      BY <3>1, HandStays DEF HandIsLast
    <3> QED
      BY <2>1, <3>1, <3>2
  <2>2. ASSUME NEW s \in Reported, Reports(c, s), current'[c] \in Newest(c)
        PROVE  LastOf(current[c], c)'
    <3>1. rows' = rows /\ born' = born
      BY <2>2 DEF Reports, books
    <3>2. PICK r \in Newest(c) : r = current'[c]
      BY <2>2
    <3>3. LastOf(r, c)'
      BY <3>1, <3>2 DEF Newest, Mine, LastOf
    <3> QED
      BY <3>2, <3>3
  <2> QED
    BY <1>1, <2>1, <2>2, ReportGoes, Apart
<1>2. ASSUME booting' = c PROVE LastOf(current["booter"], c)'
  <2>1. CASE booting = c /\ current'["booter"] = current["booter"]
    <3>1. PICK r \in Rollouts : r = current["booter"]
      BY <2>1, Apart DEF Sound, Held, BootHolds
    <3>2. LastOf(r, c)'
      BY <2>1, <3>1, HandStays DEF HandIsLast
    <3> QED
      BY <2>1, <3>1, <3>2
  <2>2. ASSUME NEW r \in Rollouts, BootReads(c, r), current'["booter"] = r, r \in Unsent(c)
        PROVE  LastOf(current["booter"], c)'
    <3>1. rows' = rows /\ born' = born
      BY <2>2 DEF BootReads, books
    <3>2. LastOf(r, c)
      BY <2>2 DEF Unsent, LiveAreLast, Live
    <3>3. LastOf(r, c)'
      BY <3>1, <3>2 DEF LastOf
    <3> QED
      BY <2>2, <3>3
  <2> QED
    BY <1>2, <2>1, <2>2, BootGoes, Apart
<1>3. ASSUME NEW r \in Rollouts, r \in Creating(c)', pc'[r] \in Telling PROVE LastOf(r, c)'
  <2>1. CASE Inserts(r)
    BY <2>1, InsertsLast
  <2>2. CASE r \in Creating(c) /\ pc[r] \in Telling
    BY <2>2, HandStays DEF HandIsLast
  <2>3. ASSUME NEW d \in Chargers, NEW ok \in BOOLEAN, d \in todo[r], todo'[r] = todo[r] \ {d},
               current'[r] = IF ok THEN d ELSE "none"
        PROVE  r \in Creating(c)
    BY <1>3, <2>3, Apart DEF Creating
  <2>4. Inserts(r) \/ (r \in Creating(c) /\ pc[r] \in Telling)
    BY <1>3, <2>3, CreationGoes, Apart DEF Creating, Telling
  <2> QED
    BY <2>1, <2>2, <2>4
<1>4. \A r \in Creating(c)' : r \in Rollouts
  BY DEF Creating
<1> QED
  BY <1>1, <1>2, <1>3, <1>4 DEF HandIsLast

\* While a creation has not inserted its rows, the rows of its chargers are only skipped
\* (by it) or deleted.
LEMMA DraftFinds ==
  ASSUME Ordered, Next, NEW c \in Chargers, Tidy(c), NEW r \in Rollouts, NEW s \in Rollouts,
         c \in todo[r], pc[r] \in Drafting, ~Inserts(r)
  PROVE  \/ rows'[s][c] \in {rows[s][c], "none"}
         \/ rows'[s][c] = "Skipped" /\ Skips(r) /\ <<s, c>> \in olds[r]
<1> USE DEF Ordered, Tidy
<1>1. Early(r)
  BY DEF Early
<1>2. booting # c /\ current[c] \notin Rollouts
      /\ \A q \in Rollouts : c \in todo[q] \/ current[q] = c => q = r
  BY <1>1, DraftAlone
<1>3. ~(Marks(s) /\ current[s] = c)
  BY <1>2 DEF Marks, Drafting
<1>4. ASSUME NEW q \in Rollouts, Skips(q), <<s, c>> \in olds[q] PROVE q = r
  <2>1. c \in todo[q]
    BY <1>4 DEF Skips, Sound, Held, CreationHolds
  <2> QED
    BY <1>2, <2>1
<1>5. Inserts(s) => rows'[s][c] = "none"
  <2>1. Inserts(s) /\ c \in Fleet[s] => s = r
    BY <1>2, InsertsLast
  <2>2. Inserts(s) => c \notin Fleet[s]
    BY <2>1
  <2>3. Inserts(s) => rows' = [rows EXCEPT ![s] =
                        [d \in Chargers |-> IF d \in Fleet[s] THEN "Created" ELSE "none"]]
    BY DEF Inserts
  <2> QED
    BY <2>2, <2>3 DEF Sound, Typed
<1>6. ~(ReportWrites(c) /\ current[c] = s)
  BY <1>2
<1>7. ~(BootMarks /\ booting = c)
  BY <1>2
<1> QED
  BY <1>3, <1>4, <1>5, <1>6, <1>7, RowWritten

\* Every step keeps the view of the creations clear.
LEMMA ClearNext ==
  ASSUME Ordered, Next, NEW c \in Chargers, Tidy(c), Alone(c)'
  PROVE  AllClear(c)'
<1> USE DEF Ordered, Tidy
<1> SUFFICES ASSUME NEW r \in Rollouts, NEW s \in Rollouts, c \in todo'[r], pc'[r] \in Drafting
    PROVE  Clear(r, s, c)'
  BY DEF AllClear
<1>1. CASE Creates(r)
  <2>1. /\ pc'[r] = "find" /\ rows' = rows
        /\ \A q \in Rollouts, d \in Fleet[r] : rows[q][d] \notin UnderWay
        /\ todo'[r] = Fleet[r]
    <3>1. pc[r] = "idle" /\ todo[r] = {} /\ rows' = rows
      BY <1>1 DEF Creates, Begins, books, Sound, Held, CreationHolds
    <3> QED
      BY <3>1, CreationGoes
  <2> QED
    BY <2>1 DEF Clear
<1>2. CASE ~Creates(r)
  <2>1. c \in todo[r] /\ pc[r] \in Drafting /\ ~Inserts(r)
    <3>1. Inserts(r) => pc'[r] = "send"
      BY Apart DEF Inserts, Sound, Typed
    <3> QED
      BY <1>2, <3>1, CreationGoes DEF Drafting
  <2>2. Clear(r, s, c)
    BY <2>1 DEF AllClear
  <2>3. \/ rows'[s][c] \in {rows[s][c], "none"}
        \/ rows'[s][c] = "Skipped" /\ Skips(r) /\ <<s, c>> \in olds[r]
    BY <2>1, DraftFinds
  <2>4. rows'[s][c] \notin UnderWay
    BY <2>2, <2>3 DEF Clear, UnderWay
  <2>5. CASE pc'[r] = pc[r] /\ olds'[r] = olds[r] /\ ~Skips(r)
    BY <2>2, <2>3, <2>4, <2>5 DEF Clear
  <2>6. CASE FindsCreated(r)
    <3>1. rows' = rows
      BY <2>6 DEF FindsCreated, books
    <3>2. /\ pc'[r] = (IF olds'[r] = {} THEN "save" ELSE "skip") /\ olds'[r] = CreatedRows(r)
          /\ pc[r] = "find"
      BY <2>6, Apart DEF FindsCreated, CreatedRows, Sound, Typed
    <3>3. <<s, c>> \in olds'[r] <=> rows[s][c] = "Created"
      BY <2>1, <3>2 DEF CreatedRows
    <3> QED
      BY <2>4, <3>1, <3>2, <3>3 DEF Clear
  <2>7. CASE Skips(r)
    <3>1. pc'[r] = "save" /\ pc[r] = "skip"
      BY <2>7, Apart DEF Skips, Sound, Typed
    <3>2. rows'[s][c] = IF <<s, c>> \in olds[r] /\ HasRow(s, c) THEN "Skipped" ELSE rows[s][c]
      BY <2>7 DEF Skips
    <3> QED
      BY <2>2, <2>4, <3>1, <3>2 DEF Clear
  <2>8. CASE Saves(r)
    <3>1. pc'[r] = "insert" /\ pc[r] = "save" /\ rows' = rows
      BY <2>8, Apart DEF Saves, Sound, Typed
    <3> QED
      BY <2>2, <2>4, <3>1 DEF Clear
  <2>9. Skips(r) => pc[r] = "skip" /\ pc'[r] = "save"
    BY Apart DEF Skips, Sound, Typed
  <2> QED
    BY <1>2, <2>1, <2>5, <2>6, <2>7, <2>8, <2>9, CreationGoes DEF Drafting
<1> QED
  BY <1>1, <1>2

\* Initially nothing is in hand.
LEMMA TidiedInit == Init => Tidied
<1> SUFFICES ASSUME Init PROVE Tidied
  OBVIOUS
<1> USE DEF Init
<1>1. ASSUME NEW c \in Chargers PROVE Tidy(c)
  <2>1. Creating(c) = {}
    BY Apart DEF Creating
  <2>2. Alone(c)
    BY <2>1, Apart DEF Alone
  <2> QED
    BY <2>1, <2>2, Apart DEF Tidy, LiveAreLast, HandIsLast, AllClear, Live, UnderWay
<1> QED
  BY <1>1, OrderedInit DEF Tidied

\* Every step keeps the rows of calm chargers tidy.
LEMMA TidiedNext == Tidied /\ [Next]_vars => Tidied'
<1>1. ASSUME Tidied, Next PROVE Tidied'
  <2>1. Ordered'
    BY <1>1, OrderedNext DEF Tidied
  <2>2. ASSUME NEW c \in Chargers, Calm(c)' PROVE Tidy(c)'
    <3>1. Alone(c)' /\ Calm(c)
      BY <1>1, <2>1, <2>2, CalmIsAlone DEF Tidied, Ordered
    <3>2. Tidy(c) /\ Ordered
      BY <1>1, <3>1 DEF Tidied
    <3> QED
      BY <1>1, <3>1, <3>2, LiveNext, HandNext, ClearNext DEF Tidy
  <2> QED
    BY <2>1, <2>2 DEF Tidied
<1>2. ASSUME Tidied, UNCHANGED vars PROVE Tidied'
  <2>1. Ordered'
    BY <1>2, OrderedNext DEF Tidied
  <2>2. ASSUME NEW c \in Chargers, Calm(c)' PROVE Tidy(c)'
    <3>1. Tidy(c)
      BY <1>2, <2>2 DEF Tidied, Calm, vars
    <3> QED
      BY <1>2, <3>1 DEF Tidy, Alone, Creating, LiveAreLast, LastOf, HandIsLast, AllClear, Clear,
         vars, books, work, chargers, bounds
  <2> QED
    BY <2>1, <2>2 DEF Tidied
<1> QED
  BY <1>1, <1>2

\* And so they are always.
LEMMA TidiedAlways == SafeSpec => []Tidied
  BY TidiedInit, TidiedNext, PTL DEF SafeSpec

\* No charger has two updates under way, for any number of rollouts, chargers, failed
\* sends, deletions and retries; unless two had it in hand at once.
THEOREM OneUnderWay == SafeSpec => []OneAtATime
<1>1. Tidied => OneAtATime
  <2> SUFFICES ASSUME Tidied, NEW c \in Chargers, Calm(c)
      PROVE  Cardinality({r \in Rollouts : rows[r][c] \in {"Sent", "Downloading"}}) <= 1
    BY DEF OneAtATime, Calm
  <2> DEFINE S == {r \in Rollouts : rows[r][c] \in {"Sent", "Downloading"}}
  <2>1. ASSUME NEW r \in S, NEW s \in S PROVE r = s
    <3>1. LastOf(r, c) /\ LastOf(s, c) /\ HasRow(r, c) /\ HasRow(s, c)
      BY <2>1 DEF Tidied, Tidy, LiveAreLast, Live, UnderWay
    <3>2. r \in Rollouts /\ s \in Rollouts /\ born[r] \in Nat /\ born[s] \in Nat
      BY <2>1 DEF Tidied, Ordered, Sound, Typed
    <3>3. born[r] <= born[s] /\ born[s] <= born[r] /\ born[r] > 0
      BY <3>1, <3>2 DEF LastOf, Tidied, Ordered, Ranks
    <3> QED
      BY <3>2, <3>3 DEF Tidied, Ordered, Ranks
  <2> HIDE DEF S
  <2>2. CASE S = {}
    BY <2>2, FS_EmptySet DEF S
  <2>3. CASE S # {}
    <3>1. PICK r \in S : TRUE
      BY <2>3
    <3>2. S = {r}
      BY <2>1, <3>1
    <3>3. Cardinality(S) = 1
      BY <3>2, FS_Singleton
    <3> QED
      BY <3>3 DEF S
  <2> QED
    BY <2>2, <2>3
<1> QED
  BY <1>1, TidiedAlways, PTL

------------------------------------------------------------------------------
(* A row says Installed only if its charger installed it *)

Straight(c) == odd[c] \cap {"overlap", "lost", "deleted", "again"} = {}

\* The rows that an actor has in hand, or the charger is at work on, exist.
Kept(c) ==
  /\ \A r \in Creating(c) : pc[r] \in Telling => HasRow(r, c)
  /\ booting = c => HasRow(current["booter"], c)
  /\ current[c] \in Rollouts => HasRow(current[c], c)
  /\ phase[c] # "idle" => HasRow(doing[c], c)

\* A charger is told of a rollout once, and whoever told it then marks its row.
MarkedBy(r, c) ==
  \/ pc[r] = "mark" /\ current[r] = c
  \/ pc["booter"] = "mark" /\ current["booter"] = r /\ booting = c
AboutToSend(r, c) == pc["booter"] = "send" /\ current["booter"] = r /\ booting = c
Asked(c) ==
  \A r \in Rollouts : <<r, c>> \in told =>
    c \notin todo[r] /\ ~AboutToSend(r, c) /\ (rows[r][c] # "Created" \/ MarkedBy(r, c))

\* What a charger is installing is its newest row, and nobody is to tell it of another.
Installing(c) == phase[c] \in {"told", "Downloading"}
Newer(c) ==
  Installing(c) =>
    /\ LastOf(doing[c], c)
    /\ \A n \in Rollouts : c \notin todo[n] /\ ~AboutToSend(n, c)
    /\ rows[doing[c]][c] \in UnderWay \/ MarkedBy(doing[c], c)

\* What is about to be written to a row the charger reported of that row.
Written(c) ==
  /\ pc[c] = "write" =>
       /\ phase[c] = report[c].status /\ <<current[c], c>> \in told
       /\ report[c].status = "Installed" => <<current[c], c>> \in installed
  /\ \A r \in Rollouts : rows[r][c] = "Installed" => <<r, c>> \in installed

Right(c) == Kept(c) /\ Asked(c) /\ Newer(c) /\ Written(c)
Installs == Tidied /\ \A c \in Chargers : Straight(c) => Right(c)

\* What a step of a charger nothing odd happens to may use.
LEMMA StraightStep ==
  ASSUME Installs, Next, Tidied', NEW c \in Chargers, Straight(c)'
  PROVE  /\ Straight(c) /\ Right(c) /\ Tidy(c) /\ Tidy(c)'
         /\ \A r \in Rollouts : HasRow(r, c) => HasRow(r, c)'
         /\ \A r \in Rollouts : <<r, c>> \in told' \ told => ~(spent' > spent)
         /\ ~(phase[c] = "Failed" /\ phase'[c] = "Downloading")
<1>1. Straight(c) /\ Calm(c) /\ Calm(c)'
  BY HistoryGrows DEF Installs, Tidied, Ordered, Straight, Calm
<1>2. ~Happens(c, "lost") /\ ~Happens(c, "deleted") /\ ~Happens(c, "again")
  BY Notes DEF Next, Installs, Tidied, Ordered, Sound, Straight, Oddities
<1>3. \A r \in Rollouts : HasRow(r, c) => HasRow(r, c)'
  BY <1>2 DEF Happens
<1>4. \A r \in Rollouts : <<r, c>> \in told' \ told => ~(spent' > spent)
  BY <1>2 DEF Happens
<1>5. ~(phase[c] = "Failed" /\ phase'[c] = "Downloading")
  BY <1>2 DEF Happens
<1> QED
  BY <1>1, <1>3, <1>4, <1>5 DEF Installs, Tidied

\* Every step keeps the rows in hand.
LEMMA KeptNext ==
  ASSUME Installs, Next, Tidied', NEW c \in Chargers, Straight(c)'
  PROVE  Kept(c)'
<1> USE DEF Installs, Tidied, Ordered
<1>0. /\ Right(c) /\ Tidy(c) /\ \A r \in Rollouts : HasRow(r, c) => HasRow(r, c)'
  BY StraightStep
<1>1. ASSUME NEW r \in Rollouts, r \in Creating(c)', pc'[r] \in Telling PROVE HasRow(r, c)'
  <2>1. CASE Inserts(r)
    <3>1. c \in todo[r] /\ todo[r] \subseteq Fleet[r]
      BY <1>1, <2>1, CreationGoes, Apart DEF Creating, Inserts, Sound, Held, CreationHolds
    <3> QED
      BY <2>1, <3>1 DEF Inserts, Sound, Typed
  <2>2. CASE r \in Creating(c) /\ pc[r] \in Telling
    BY <1>0, <2>2 DEF Right, Kept
  <2>3. ASSUME NEW d \in Chargers, NEW ok \in BOOLEAN, d \in todo[r], todo'[r] = todo[r] \ {d},
               current'[r] = IF ok THEN d ELSE "none"
        PROVE  r \in Creating(c)
    BY <1>1, <2>3, Apart DEF Creating
  <2>4. Inserts(r) \/ (r \in Creating(c) /\ pc[r] \in Telling)
    BY <1>1, <2>3, CreationGoes, Apart DEF Creating, Telling
  <2> QED
    BY <2>1, <2>2, <2>4
<1>2. ASSUME booting' = c PROVE HasRow(current["booter"], c)'
  <2>1. PICK r \in Rollouts : r = current'["booter"]
    BY <1>2, BootGoes, Apart DEF Sound, Held, BootHolds
  <2>2. CASE booting = c /\ current["booter"] = r
    BY <1>0, <2>1, <2>2 DEF Right, Kept
  <2>3. CASE r \in Unsent(c)
    BY <1>0, <2>1, <2>3 DEF Unsent
  <2> QED
    BY <1>2, <2>1, <2>2, <2>3, BootGoes, Apart
<1>3. ASSUME current'[c] \in Rollouts PROVE HasRow(current[c], c)'
  <2>1. PICK r \in Rollouts : r = current'[c]
    BY <1>3
  <2>2. CASE current[c] = r
    BY <1>0, <2>1, <2>2 DEF Right, Kept
  <2>3. CASE r \in Newest(c)
    BY <1>0, <2>1, <2>3 DEF Newest, Mine
  <2> QED
    BY <1>3, <2>1, <2>2, <2>3, ReportGoes, Apart
<1>4. ASSUME phase'[c] # "idle" PROVE HasRow(doing[c], c)'
  <2>1. CASE doing'[c] = doing[c] /\ phase[c] # "idle"
    <3>1. PICK r \in Rollouts : r = doing[c]
      BY <2>1 DEF Sound, Held, ReportHolds, Typed
    <3>2. HasRow(r, c)
      BY <1>0, <2>1, <3>1 DEF Right, Kept
    <3> QED
      BY <1>0, <2>1, <3>1, <3>2
  <2>2. ASSUME NEW r \in Rollouts, NEW reached \in BOOLEAN, NEW ok \in BOOLEAN,
               Tells(r, c, reached, ok),
               doing'[c] = r
        PROVE  HasRow(doing[c], c)'
    <3>1. SendsTo(r, c, reached, ok) => r \in Creating(c) /\ pc[r] \in Telling
      BY DEF SendsTo, Creating, Telling
    <3>2. HasRow(r, c)
      BY <1>0, <2>2, <3>1 DEF Right, Kept
    <3> QED
      BY <1>0, <2>2, <3>2
  <2>3. ASSUME NEW r \in Rollouts, NEW reached \in BOOLEAN, NEW ok \in BOOLEAN,
               Sends(r, c, reached, ok)
        PROVE  doing'[c] = r \/ (doing'[c] = doing[c] /\ phase'[c] = phase[c])
    BY <2>3, SendsTyped DEF Sound
  <2>4. \A s \in Reported : s \in Follows(phase[c]) => phase[c] # "idle"
    BY DEF Follows
  <2> QED
    BY <1>4, <2>1, <2>2, <2>3, <2>4, ChargerGoes
<1> QED
  BY <1>1, <1>2, <1>3, <1>4 DEF Kept, Creating

\* A charger of which nothing odd is noted is told by an answered send, of a rollout it
\* was not told of; who told it is about to mark its row, and nobody else has it in hand.
LEMMA ToldOnce ==
  ASSUME Installs, Next, Tidied', NEW c \in Chargers, Straight(c)', NEW r \in Rollouts,
         NEW reached \in BOOLEAN, NEW ok \in BOOLEAN,
         Tells(r, c, reached, ok)
  PROVE  /\ <<r, c>> \notin told
         /\ pc[c] = "write" => FALSE
         /\ ~reached => told' = told /\ doing' = doing /\ phase' = phase
         /\ reached => /\ told' = told \cup {<<r, c>>} /\ doing'[c] = r /\ phase'[c] = "told"
                       /\ MarkedBy(r, c)' /\ LastOf(r, c)'
                       /\ \A n \in Rollouts : c \notin todo'[n] /\ ~AboutToSend(n, c)'
<1> USE DEF Installs, Tidied, Ordered
<1>0. /\ Right(c) /\ Tidy(c) /\ Tidy(c)'
      /\ \A n \in Rollouts : <<n, c>> \in told' \ told => ~(spent' > spent)
  BY StraightStep
<1>1. SendsTo(r, c, reached, ok) => c \in todo[r] /\ pc[r] = "send" /\ r \in Creating(c)
  BY DEF SendsTo, Creating
<1>2. BootSends(reached, ok) => pc["booter"] = "send"
  BY DEF BootSends
<1>3. <<r, c>> \notin told
  BY <1>0, <1>1, <1>2 DEF Right, Asked, AboutToSend
<1>4. pc[c] = "write" => FALSE
  <2> SUFFICES ASSUME pc[c] = "write" PROVE FALSE
    OBVIOUS
  <2>1. current[c] \in Rollouts /\ current[c] # "none" /\ <<current[c], c>> \in told
    BY <1>0, Apart DEF Right, Written, Sound, Held, ReportHolds
  <2>2. current[c] = r
    BY <1>0, <1>1, <2>1 DEF Tidy, Alone
  <2> QED
    BY <1>3, <2>1, <2>2
<1>5. Sends(r, c, reached, ok)
  BY DEF SendsTo, BootSends
<1>6. ~reached => told' = told /\ doing' = doing /\ phase' = phase
  BY <1>5 DEF Sends
<1>7. ASSUME reached
      PROVE  /\ told' = told \cup {<<r, c>>} /\ doing'[c] = r /\ phase'[c] = "told"
             /\ MarkedBy(r, c)' /\ LastOf(r, c)'
             /\ \A n \in Rollouts : c \notin todo'[n] /\ ~AboutToSend(n, c)'
  <2>1. told' = told \cup {<<r, c>>} /\ doing'[c] = r /\ phase'[c] = "told"
    BY <1>5, <1>7 DEF Sends, Sound, Typed
  <2>2. ok
    <3>1. ~(spent' > spent)
      BY <1>0, <1>3, <2>1
    <3> QED
      BY <1>5, <3>1 DEF Sends, Spends, Sound, Typed
  <2>3. CASE SendsTo(r, c, reached, ok)
    <3>1. /\ pc'[r] = "mark" /\ current'[r] = c /\ todo'[r] = todo[r] \ {c}
          /\ booting' = booting
      BY <2>2, <2>3, Apart DEF SendsTo, Counts, Sound, Typed
    <3>2. r \in Creating(c)'
      BY <3>1 DEF Creating
    <3>3. \A n \in Rollouts : c \in todo'[n] => n = r
      <4>1. \A n \in Rollouts : c \in todo'[n] => n \in Creating(c)'
        BY DEF Creating
      <4> QED
        BY <1>0, <3>2, <4>1 DEF Tidy, Alone
    <3>4. booting # c
      BY <1>0, <1>1, <2>3 DEF Tidy, Alone
    <3>5. LastOf(r, c)'
      BY <1>0, <3>1, <3>2 DEF Tidy, HandIsLast, Telling
    <3> QED
      BY <2>1, <3>1, <3>3, <3>4, <3>5 DEF MarkedBy, AboutToSend
  <2>4. CASE BootSends(reached, ok) /\ current["booter"] = r /\ booting = c
    <3>1. /\ pc'["booter"] = "mark" /\ current'["booter"] = r /\ booting' = c
      BY <2>4, Apart DEF BootSends, Sound, Typed
    <3>2. \A n \in Rollouts : c \notin todo'[n]
      <4>1. \A n \in Rollouts : c \in todo'[n] => n \in Creating(c)'
        BY DEF Creating
      <4> QED
        BY <1>0, <3>1, <4>1 DEF Tidy, Alone
    <3>3. LastOf(r, c)'
      BY <1>0, <3>1 DEF Tidy, HandIsLast
    <3> QED
      BY <2>1, <3>1, <3>2, <3>3 DEF MarkedBy, AboutToSend
  <2> QED
    BY <2>3, <2>4
<1> QED
  BY <1>3, <1>4, <1>6, <1>7

\* Who is about to mark a row stays so, or marks it.
LEMMA MarkerStays ==
  ASSUME Installs, Next, Tidied', NEW c \in Chargers, Straight(c)', NEW r \in Rollouts,
         MarkedBy(r, c)
  PROVE  MarkedBy(r, c)' \/ rows'[r][c] = "Sent"
<1> USE DEF Installs, Tidied, Ordered
<1>0. Right(c)
  BY StraightStep
<1>1. CASE pc[r] = "mark" /\ current[r] = c
  <2>1. HasRow(r, c)
    BY <1>0, <1>1 DEF Right, Kept, Creating, Telling
  <2>2. CASE Marks(r)
    <3>1. rows' = [rows EXCEPT ![r][c] = "Sent"]
      BY <1>1, <2>1, <2>2 DEF Marks, Updated
    <3> QED
      BY <3>1 DEF Sound, Typed
  <2>3. CASE pc'[r] = pc[r] /\ current'[r] = current[r]
    BY <1>1, <2>3 DEF MarkedBy
  <2> QED
    BY <1>1, <2>2, <2>3, CreationGoes
<1>2. CASE pc["booter"] = "mark" /\ current["booter"] = r /\ booting = c
  <2>1. HasRow(r, c)
    BY <1>0, <1>2 DEF Right, Kept
  <2>2. CASE BootMarks
    <3>1. rows' = [rows EXCEPT ![r][c] = "Sent"]
      BY <1>2, <2>1, <2>2 DEF BootMarks, Updated
    <3> QED
      BY <3>1 DEF Sound, Typed
  <2>3. CASE /\ pc'["booter"] = pc["booter"] /\ current'["booter"] = current["booter"]
             /\ booting' = booting
    BY <1>2, <2>3 DEF MarkedBy
  <2> QED
    BY <1>2, <2>2, <2>3, BootGoes
<1> QED
  BY <1>1, <1>2 DEF MarkedBy

\* Nobody begins to tell a charger of something while its row is about to be marked.
LEMMA MarkedAlone ==
  ASSUME Installs, Next, Tidied', NEW c \in Chargers, Straight(c)', NEW r \in Rollouts,
         MarkedBy(r, c), NEW n \in Rollouts
  PROVE  /\ ~BootReads(c, n)
         /\ ~(Creates(n) /\ c \in todo'[n])
<1> USE DEF Installs, Tidied, Ordered
<1>0. Tidy(c)' /\ Tidy(c)
  BY StraightStep
<1>1. ASSUME BootReads(c, n) PROVE FALSE
  <2>1. pc["booter"] = "idle" /\ booting' = c /\ current' = [current EXCEPT !["booter"] = n]
    BY <1>1 DEF BootReads, Begins
  <2>2. current'[r] = c
    BY <2>1, Apart DEF MarkedBy, Sound, Typed
  <2>3. r \in Creating(c)'
    BY <2>2 DEF Creating
  <2> QED
    BY <1>0, <2>1, <2>3 DEF Tidy, Alone
<1>2. ASSUME Creates(n), c \in todo'[n] PROVE FALSE
  <2>1. pc[n] = "idle" /\ current' = current /\ booting' = booting
    BY <1>2 DEF Creates, Begins
  <2>2. n \in Creating(c)'
    BY <1>2 DEF Creating
  <2>3. CASE pc[r] = "mark" /\ current[r] = c
    <3>1. r \in Creating(c)' /\ r # n
      BY <2>1, <2>3 DEF Creating
    <3> QED
      BY <1>0, <2>2, <3>1 DEF Tidy, Alone
  <2>4. CASE booting = c
    BY <1>0, <2>1, <2>2, <2>4 DEF Tidy, Alone
  <2> QED
    BY <2>3, <2>4 DEF MarkedBy
<1> QED
  BY <1>1, <1>2

\* Every step keeps it that a charger is told of a rollout once.
LEMMA AskedNext ==
  ASSUME Installs, Next, Tidied', NEW c \in Chargers, Straight(c)'
  PROVE  Asked(c)'
<1> USE DEF Installs, Tidied, Ordered
<1> SUFFICES ASSUME NEW r \in Rollouts, <<r, c>> \in told'
    PROVE  c \notin todo'[r] /\ ~AboutToSend(r, c)' /\ (rows'[r][c] # "Created" \/ MarkedBy(r, c)')
  BY DEF Asked
<1>0. Right(c) /\ Tidy(c)
  BY StraightStep
<1>1. CASE <<r, c>> \notin told
  <2>1. PICK q \in Rollouts, reached \in BOOLEAN, ok \in BOOLEAN :
          /\ Tells(q, c, reached, ok)
          /\ Sends(q, c, reached, ok)
    BY <1>1, ChargerGoes
  <2>2. reached
    BY <1>1, <2>1 DEF Sends
  <2>3. Tells(q, c, reached, ok)
    BY <2>1
  <2>4. MarkedBy(q, c)' /\ \A n \in Rollouts : c \notin todo'[n] /\ ~AboutToSend(n, c)'
    BY <2>2, <2>3, ToldOnce
  <2>5. q = r
    BY <1>1, <2>1 DEF Sends
  <2> QED
    BY <2>4, <2>5
<1>2. CASE <<r, c>> \in told
  <2>1. c \notin todo[r] /\ ~AboutToSend(r, c) /\ (rows[r][c] # "Created" \/ MarkedBy(r, c))
    BY <1>0, <1>2 DEF Right, Asked
  <2>2. ~Early(r)
    BY <1>2 DEF Fresh
  <2>3. c \notin todo'[r]
    BY <2>1, <2>2, CreationGoes DEF Early
  <2>4. ~AboutToSend(r, c)'
    <3>1. ASSUME BootReads(c, r), r \in Unsent(c) PROVE FALSE
      BY <2>1, <3>1, MarkedAlone DEF Unsent
    <3> QED
      BY <2>1, <3>1, BootGoes DEF AboutToSend
  <2>5. rows'[r][c] # "Created" \/ MarkedBy(r, c)'
    <3>1. CASE MarkedBy(r, c)
      BY <3>1, MarkerStays
    <3>2. CASE rows[r][c] # "Created"
      <4>1. ~Inserts(r)
        BY <2>2, InsertsLast
      <4>2. ReportWrites(c) => report[c].status # "Created"
        BY DEF ReportWrites, Sound, Held, ReportHolds, Reported
      <4> QED
        BY <3>2, <4>1, <4>2, RowWritten
    <3> QED
      BY <2>1, <3>1, <3>2
  <2> QED
    BY <2>3, <2>4, <2>5
<1> QED
  BY <1>1, <1>2

\* Every step keeps newest what a charger is installing.
LEMMA NewerNext ==
  ASSUME Installs, Next, Tidied', NEW c \in Chargers, Straight(c)'
  PROVE  Newer(c)'
<1> USE DEF Installs, Tidied, Ordered
<1> SUFFICES ASSUME Installing(c)'
    PROVE  /\ LastOf(doing[c], c)'
           /\ \A n \in Rollouts : c \notin todo'[n] /\ ~AboutToSend(n, c)'
           /\ rows'[doing'[c]][c] \in UnderWay \/ MarkedBy(doing[c], c)'
  BY DEF Newer
<1>0. /\ Right(c) /\ Tidy(c) /\ \A r \in Rollouts : HasRow(r, c) => HasRow(r, c)'
      /\ ~(phase[c] = "Failed" /\ phase'[c] = "Downloading")
  BY StraightStep
<1>1. CASE Installing(c) /\ doing'[c] = doing[c]
  <2>0. PICK d \in Rollouts : d = doing[c] /\ <<d, c>> \in told
    BY <1>1 DEF Sound, Held, ReportHolds, Typed, Installing
  <2>1. /\ LastOf(d, c) /\ \A n \in Rollouts : c \notin todo[n] /\ ~AboutToSend(n, c)
        /\ rows[d][c] \in UnderWay \/ MarkedBy(d, c)
        /\ HasRow(d, c)
    BY <1>0, <1>1, <2>0 DEF Right, Newer, Kept, Installing
  <2>2. LastOf(d, c)'
    <3>1. ASSUME NEW q \in Rollouts, Inserts(q), c \in Fleet[q] PROVE FALSE
      BY <2>1, <3>1, InsertsLast
    <3> QED
      BY <2>1, <3>1, LastStays
  <2>3. ASSUME NEW n \in Rollouts PROVE c \notin todo'[n]
    <3>1. ASSUME Creates(n), c \in todo'[n],
                 \A s \in Rollouts, e \in Fleet[n] : rows[s][e] \notin UnderWay,
                 todo'[n] = Fleet[n]
          PROVE  FALSE
      BY <2>1, <3>1, MarkedAlone
    <3> QED
      BY <2>1, <3>1, CreationGoes
  <2>4. ASSUME NEW n \in Rollouts PROVE ~AboutToSend(n, c)'
    <3>1. ASSUME BootReads(c, n), n \in Unsent(c) PROVE FALSE
      <4>1. rows[n][c] = "Created" /\ LastOf(n, c)
        BY <1>0, <3>1 DEF Unsent, Tidy, LiveAreLast, Live
      <4>2. born[n] <= born[d] /\ born[d] <= born[n] /\ born[n] > 0
        BY <2>1, <4>1 DEF LastOf, Ranks
      <4>3. born[n] \in Nat /\ born[d] \in Nat
        BY DEF Sound, Typed
      <4>4. n = d
        BY <4>2, <4>3 DEF Ranks
      <4>5. MarkedBy(d, c)
        BY <2>1, <4>1, <4>4 DEF UnderWay
      <4> QED
        BY <3>1, <4>5, MarkedAlone
    <3> QED
      BY <2>1, <3>1, BootGoes DEF AboutToSend
  <2>5. rows'[d][c] \in UnderWay \/ MarkedBy(d, c)'
    <3>1. CASE MarkedBy(d, c)
      BY <3>1, MarkerStays DEF UnderWay
    <3>2. CASE rows[d][c] \in UnderWay
      <4>1. ~Inserts(d)
        BY <2>0, InsertsLast DEF Fresh
      <4>2. ASSUME NEW q \in Rollouts, Skips(q), <<d, c>> \in olds[q] PROVE FALSE
        <5>1. c \in todo[q]
          BY <4>2 DEF Skips, Sound, Held, CreationHolds
        <5> QED
          BY <2>1, <5>1
      <4>3. ReportWrites(c) => report[c].status \in UnderWay
        <5>1. ReportWrites(c) => report[c].status = phase[c] /\ report[c].status \in Reported
          BY <1>0 DEF ReportWrites, Right, Written, Sound, Held, ReportHolds
        <5> QED
          BY <1>1, <5>1 DEF Installing, Reported, UnderWay
      <4>4. HasRow(d, c)'
        BY <1>0, <2>1
      <4> QED
        BY <3>2, <4>1, <4>2, <4>3, <4>4, RowWritten DEF UnderWay
    <3> QED
      BY <2>1, <3>1, <3>2
  <2> QED
    BY <1>1, <2>0, <2>2, <2>3, <2>4, <2>5
<1>2. ASSUME NEW r \in Rollouts, NEW reached \in BOOLEAN, NEW ok \in BOOLEAN, reached,
             Tells(r, c, reached, ok)
      PROVE  /\ LastOf(doing[c], c)'
             /\ \A n \in Rollouts : c \notin todo'[n] /\ ~AboutToSend(n, c)'
             /\ rows'[doing'[c]][c] \in UnderWay \/ MarkedBy(doing[c], c)'
  <2>1. /\ doing'[c] = r /\ MarkedBy(r, c)' /\ LastOf(r, c)'
        /\ \A n \in Rollouts : c \notin todo'[n] /\ ~AboutToSend(n, c)'
    BY <1>2, ToldOnce
  <2> QED
    BY <2>1
<1>3. ASSUME NEW r \in Rollouts, NEW reached \in BOOLEAN, NEW ok \in BOOLEAN, ~reached,
             Tells(r, c, reached, ok)
      PROVE  doing'[c] = doing[c] /\ phase'[c] = phase[c]
  BY <1>3, ToldOnce
<1>4. ASSUME NEW s \in Reported, s \in Follows(phase[c]), phase'[c] = s
      PROVE  Installing(c)
  BY <1>0, <1>4 DEF Installing, Follows, Reported
<1>5. doing'[c] = doing[c] /\ phase'[c] = phase[c] => Installing(c) /\ doing'[c] = doing[c]
  BY DEF Installing
<1> QED
  BY <1>1, <1>2, <1>3, <1>4, <1>5, ChargerGoes

\* Every step keeps true what is about to be written, and what is.
LEMMA WrittenNext ==
  ASSUME Installs, Next, Tidied', NEW c \in Chargers, Straight(c)'
  PROVE  Written(c)'
<1> USE DEF Installs, Tidied, Ordered
<1>0. /\ Right(c) /\ ~(phase[c] = "Failed" /\ phase'[c] = "Downloading")
  BY StraightStep
<1>1. ASSUME pc'[c] = "write"
      PROVE  /\ phase'[c] = report'[c].status /\ <<current'[c], c>> \in told'
             /\ report'[c].status = "Installed" => <<current'[c], c>> \in installed'
  <2>1. CASE pc[c] = "write" /\ current'[c] = current[c] /\ report'[c] = report[c]
    <3>1. \A r \in Rollouts, reached \in BOOLEAN, ok \in BOOLEAN :
            ~Tells(r, c, reached, ok)
      BY <2>1, ToldOnce
    <3>2. phase'[c] = phase[c]
      BY <2>1, <3>1, ChargerGoes
    <3> QED
      BY <1>0, <2>1, <3>2, HistoryGrows DEF Right, Written
  <2>2. ASSUME NEW s \in Reported, Reports(c, s), s \in Follows(phase[c]), phase'[c] = s,
               report'[c].status = s, current'[c] \in Newest(c)
        PROVE  /\ phase'[c] = report'[c].status /\ <<current'[c], c>> \in told'
               /\ report'[c].status = "Installed" => <<current'[c], c>> \in installed'
    <3>1. Installing(c)
      BY <1>0, <2>2 DEF Installing, Follows, Reported
    <3>2. PICK d \in Rollouts : d = doing[c] /\ <<d, c>> \in told
      BY <3>1 DEF Sound, Held, ReportHolds, Typed, Installing
    <3>3. LastOf(d, c) /\ HasRow(d, c)
      BY <1>0, <3>1, <3>2 DEF Right, Newer, Kept, Installing
    <3>4. PICK r \in Newest(c) : r = current'[c]
      BY <2>2
    <3>5. r \in Rollouts /\ HasRow(r, c) /\ \A q \in Rollouts : HasRow(q, c) => born[q] <= born[r]
      BY DEF Newest, Mine
    <3>6. born[r] <= born[d] /\ born[d] <= born[r] /\ born[r] > 0
      BY <3>3, <3>5 DEF LastOf, Ranks
    <3>7. born[r] \in Nat /\ born[d] \in Nat
      BY <3>5 DEF Sound, Typed
    <3>8. r = d
      BY <3>5, <3>6, <3>7 DEF Ranks
    <3>9. told' = told /\ (s = "Installed" => installed' = installed \cup {<<doing[c], c>>})
      BY <2>2 DEF Reports
    <3> QED
      BY <2>2, <3>2, <3>4, <3>8, <3>9
  <2> QED
    BY <1>1, <2>1, <2>2, ReportGoes
<1>2. ASSUME NEW r \in Rollouts, rows'[r][c] = "Installed" PROVE <<r, c>> \in installed'
  <2>1. CASE rows[r][c] = "Installed"
    BY <1>0, <2>1, HistoryGrows DEF Right, Written
  <2>2. CASE ReportWrites(c) /\ current[c] = r /\ report[c].status = "Installed"
    BY <1>0, <2>2, HistoryGrows DEF ReportWrites, Right, Written
  <2> QED
    BY <1>2, <2>1, <2>2, RowWritten
<1> QED
  BY <1>1, <1>2 DEF Written

\* A row says Installed only if its charger has installed that rollout, for any number
\* of rollouts and chargers: the report does not say what was installed, but the newest
\* row of a charger is what it was told of last; unless an answer was lost, a row
\* deleted, a failed update tried again, or two updates were in hand at once.
THEOREM InstalledTruly == SafeSpec => []InstalledIsReal
<1>1. Init => Installs
  <2> SUFFICES ASSUME Init PROVE Installs
    OBVIOUS
  <2>1. \A c \in Chargers : Creating(c) = {}
    BY Apart DEF Init, Creating
  <2> QED
    BY <2>1, TidiedInit, Apart DEF Init, Installs, Right, Kept, Asked, Newer, Written, Installing
<1>2. ASSUME Installs, Next PROVE Installs'
  <2>1. Tidied'
    BY <1>2, TidiedNext DEF Installs
  <2>2. ASSUME NEW c \in Chargers, Straight(c)' PROVE Right(c)'
    BY <1>2, <2>1, <2>2, KeptNext, AskedNext, NewerNext, WrittenNext DEF Right
  <2> QED
    BY <2>1, <2>2 DEF Installs
<1>3. ASSUME Installs, UNCHANGED vars PROVE Installs'
  <2>1. Tidied'
    BY <1>3, TidiedNext DEF Installs
  <2>2. ASSUME NEW c \in Chargers, Straight(c)' PROVE Right(c)'
    <3>1. Right(c)
      BY <1>3, <2>2 DEF Installs, Straight, vars
    <3> QED
      BY <1>3, <3>1 DEF Right, Kept, Creating, Asked, AboutToSend, MarkedBy, Newer, Installing,
         LastOf, Written, vars, books, work, chargers, bounds
  <2> QED
    BY <2>1, <2>2 DEF Installs
<1>4. Installs => InstalledIsReal
  BY DEF Installs, InstalledIsReal, Straight, Right, Written
<1>5. Installs /\ [Next]_vars => Installs'
  BY <1>2, <1>3
<1> QED
  BY <1>1, <1>4, <1>5, PTL DEF SafeSpec

------------------------------------------------------------------------------
(* A rollout that nobody is at work on says how its chargers ended *)

\* One report of a rollout is handled at a time, unless it was noted.
Uncrossed == \A r \in Rollouts : r \notin crossed => \A c, d \in Handling(r) : c = d

\* A rollout of which nothing is noted that could make its status stale.
Fine(r) ==
  /\ r \notin crossed
  /\ \A c \in Chargers : HasRow(r, c) => odd[c] \cap {"overlap", "outrun"} = {}

\* A status that says of the rows what it should.
Fits(x, r) ==
  /\ x = "Completed" <=> Having(r, RowStatuses) = Having(r, {"Installed"})
  /\ x = "Partially-Completed" <=>
       /\ Having(r, RowStatuses) = Having(r, {"Installed", "Failed"})
       /\ Having(r, RowStatuses) # Having(r, {"Installed"})

\* A sum that a handler made fits, and so does the status until a handler has written a row.
RowsOf(r) == {c \in Chargers : HasRow(r, c)}
SumsFit(r) == \A c \in Handling(r) : pc[c] = "end" => Fits(report[c].sum, r)
StatusFits(r) ==
  status[r] # "none" /\ (\A c \in Handling(r) : pc[c] = "write") => Fits(status[r], r)
Fitting(r) == Fine(r) /\ RowsOf(r) # {} => SumsFit(r) /\ StatusFits(r)
Summed == Tidied /\ Uncrossed /\ \A r \in Rollouts : Fitting(r)

\* Two reports of a rollout that are handled at once are noted.
LEMMA UncrossedNext ==
  ASSUME Next
  PROVE  Uncrossed'
<1> SUFFICES ASSUME NEW r \in Rollouts, r \notin crossed', NEW c \in Handling(r)',
                    NEW d \in Handling(r)'
    PROVE  c = d
  BY DEF Uncrossed
<1>1. IsFiniteSet(Handling(r)')
  BY OtaAssumption, FS_Subset DEF Handling
<1>2. ~(Cardinality(Handling(r)') > 1)
  BY DEF Next, Note
<1> QED
  BY <1>1, <1>2, AtMostOne

\* What summing a rollout's rows up gives fits them.
LEMMA SumFits ==
  ASSUME Typed, NEW r \in Rollouts, RowsOf(r) # {}
  PROVE  Fits(Sum(r), r)
<1> DEFINE All == Having(r, RowStatuses)
           Done == Having(r, {"Installed"})
           Ended == Having(r, {"Installed", "Failed"})
           Open == Having(r, {"Downloading", "Sent", "Created", "Skipped"})
<1>1. All # {}
  BY DEF RowsOf, Having, Typed
<1>2. All = Ended <=> Open = {}
  <2>1. \A c \in Chargers : c \in All <=> c \in Ended \/ c \in Open
    BY DEF Having, RowStatuses
  <2>2. \A c \in Chargers : ~(c \in Ended /\ c \in Open)
    BY DEF Having
  <2>3. All \subseteq Chargers /\ Ended \subseteq Chargers /\ Open \subseteq Chargers
    BY DEF Having
  <2> HIDE DEF All, Ended, Open
  <2> QED
    BY <2>1, <2>2, <2>3
<1>3. Sum(r) = IF All = Done THEN "Completed"
               ELSE IF Ended # {} /\ Open = {} THEN "Partially-Completed"
               ELSE IF Having(r, RowStatuses \ {"Created", "Skipped"}) # {} THEN "In-Progress"
               ELSE "Created"
  BY DEF Sum, SumOver
<1>4. Fits(Sum(r), r) <=> /\ Sum(r) = "Completed" <=> All = Done
                          /\ Sum(r) = "Partially-Completed" <=> All = Ended /\ All # Done
  BY DEF Fits
<1> HIDE DEF All, Done, Ended, Open
<1> QED
  BY <1>1, <1>2, <1>3, <1>4

\* Whether a status fits depends on which rows exist, which say Installed and which Failed.
LEMMA SameFits ==
  ASSUME Typed, Typed', NEW r \in Rollouts, NEW x,
         \A c \in Chargers : /\ HasRow(r, c)' <=> HasRow(r, c)
                             /\ rows'[r][c] = "Installed" <=> rows[r][c] = "Installed"
                             /\ rows'[r][c] = "Failed" <=> rows[r][c] = "Failed"
  PROVE  Fits(x, r)' <=> Fits(x, r)
<1>1. Having(r, RowStatuses)' = Having(r, RowStatuses)
  <2>1. \A c \in Chargers : rows'[r][c] \in RowStatuses <=> rows[r][c] \in RowStatuses
    BY DEF Typed, RowStatuses
  <2> QED
    BY <2>1 DEF Having
<1>2. Having(r, {"Installed"})' = Having(r, {"Installed"})
  BY DEF Having
<1>3. Having(r, {"Installed", "Failed"})' = Having(r, {"Installed", "Failed"})
  BY DEF Having
<1> QED
  BY <1>1, <1>2, <1>3 DEF Fits

\* Rows that were just inserted.
LEMMA InsertedFits ==
  ASSUME Ordered, Next, NEW r \in Rollouts, Inserts(r)
  PROVE  Fitting(r)'
<1> USE DEF Ordered, Sound
<1>1. pc[r] = "insert" /\ Early(r) /\ status' = status /\ current' = current
  BY DEF Inserts, Early, Drafting
<1>2. status'[r] \in {"none", "Created"} /\ \A c \in Chargers : current'[c] # r
  BY <1>1 DEF Fresh
<1>3. \A c \in Chargers : rows'[r][c] \in {"Created", "none"}
  BY DEF Inserts, Typed
<1>4. Having(r, {"Installed"})' = {} /\ Having(r, {"Installed", "Failed"})' = {}
  BY <1>3 DEF Having
<1>5. RowsOf(r)' # {} => Having(r, RowStatuses)' # {}
  BY <1>3 DEF RowsOf, Having, RowStatuses
<1>6. RowsOf(r)' # {} => Fits("Created", r)'
  BY <1>4, <1>5 DEF Fits
<1>7. Handling(r)' = {}
  BY <1>2 DEF Handling
<1> QED
  BY <1>2, <1>6, <1>7 DEF Fitting, SumsFit, StatusFits

\* Only the handler of a report of a fine rollout changes what its rows say of the end.
LEMMA RowsKeepEnd ==
  ASSUME Tidied, Next, NEW r \in Rollouts, ~Inserts(r), Fine(r), Fine(r)', RowsOf(r)' # {},
         NEW c \in Chargers
  PROVE  /\ HasRow(r, c)' <=> HasRow(r, c)
         /\ \/ /\ rows'[r][c] = "Installed" <=> rows[r][c] = "Installed"
               /\ rows'[r][c] = "Failed" <=> rows[r][c] = "Failed"
            \/ ReportWrites(c) /\ current[c] = r
<1> USE DEF Tidied, Ordered
<1>1. ~(DeletesRows /\ current["admin"] = r)
  BY DEF DeletesRows, RowsOf, Sound, Typed
<1>2. ReportWrites(c) => report[c].status # "none"
  BY DEF ReportWrites, Sound, Held, ReportHolds, Reported
<1>3. HasRow(r, c)' <=> HasRow(r, c)
  BY <1>1, <1>2, RowWritten
<1>4. ASSUME HasRow(r, c), NEW q \in Rollouts, Skips(q), <<r, c>> \in olds[q]
      PROVE  rows[r][c] = "Created"
  <2>1. c \in todo[q] /\ pc[q] = "skip"
    BY <1>4 DEF Skips, Sound, Held, CreationHolds
  <2>2. Tidy(c)
    BY <1>4 DEF Fine, Calm
  <2> QED
    BY <1>4, <2>1, <2>2 DEF Tidy, AllClear, Clear, Drafting
<1>5. ASSUME HasRow(r, c), rows'[r][c] = "Sent" PROVE rows[r][c] \in {"Sent", "Created"}
  <2>1. "outrun" \notin odd'[c]
    BY <1>3, <1>5 DEF Fine
  <2>2. ~Happens(c, "outrun")
    BY <2>1, Notes DEF Next, Sound, Oddities
  <2> QED
    BY <1>5, <2>2 DEF Happens
<1> QED
  BY <1>1, <1>3, <1>4, <1>5, RowWritten

\* Every step keeps the status fitting.
LEMMA FittingNext ==
  ASSUME Summed, Next, Tidied', Uncrossed', NEW r \in Rollouts
  PROVE  Fitting(r)'
<1> USE DEF Summed, Tidied, Ordered
<1>1. CASE Inserts(r)
  BY <1>1, InsertedFits
<1>2. CASE ~Inserts(r)
  <2> SUFFICES ASSUME Fine(r)', RowsOf(r)' # {} PROVE SumsFit(r)' /\ StatusFits(r)'
    BY DEF Fitting
  <2>1. ASSUME NEW c \in Chargers PROVE HasRow(r, c)' <=> HasRow(r, c)
    <3>1. ~(DeletesRows /\ current["admin"] = r)
      BY DEF DeletesRows, RowsOf, Sound, Typed
    <3>2. ReportWrites(c) => report[c].status # "none"
      BY DEF ReportWrites, Sound, Held, ReportHolds, Reported
    <3> QED
      BY <1>2, <3>1, <3>2, RowWritten
  <2>2. Fine(r) /\ RowsOf(r) # {}
    BY <2>1, HistoryGrows DEF Fine, RowsOf
  <2>3. SumsFit(r) /\ StatusFits(r)
    BY <2>2 DEF Fitting
  <2>4. CASE \E c \in Chargers : ReportWrites(c) /\ current[c] = r
    <3>1. PICK c \in Chargers : ReportWrites(c) /\ current[c] = r
      BY <2>4
    <3>2. pc'[c] = "sum" /\ current'[c] = r
      BY <3>1, Apart DEF ReportWrites, Sound, Typed
    <3>3. c \in Handling(r)' /\ \A d \in Handling(r)' : d = c
      BY <2>2, <3>2 DEF Uncrossed, Handling, Fine
    <3> QED
      BY <3>2, <3>3 DEF SumsFit, StatusFits
  <2>5. CASE ~\E c \in Chargers : ReportWrites(c) /\ current[c] = r
    <3>1. \A x : Fits(x, r)' <=> Fits(x, r)
      BY <1>2, <2>2, <2>5, RowsKeepEnd, SameFits DEF Sound
    <3>2. ASSUME NEW c \in Handling(r)', pc'[c] = "end" PROVE Fits(report[c].sum, r)'
      <4>1. c \in Chargers /\ current'[c] = r
        BY DEF Handling
      <4>2. PICK x : x = report'[c].sum
        OBVIOUS
      <4>3. ASSUME pc[c] = "end", current[c] = r, report'[c] = report[c] PROVE Fits(x, r)
        BY <2>3, <4>1, <4>2, <4>3 DEF SumsFit, Handling
      <4>4. ASSUME current[c] = r, report'[c].sum = Sum(current[c]) PROVE Fits(x, r)
        BY <2>2, <4>2, <4>4, SumFits DEF Sound
      <4>5. Fits(x, r)
        BY <3>2, <4>1, <4>3, <4>4, ReportGoes
      <4> QED
        BY <3>1, <4>2, <4>5 DEF Fits
    <3>3. ASSUME status'[r] # "none", \A c \in Handling(r)' : pc'[c] = "write"
          PROVE  Fits(status[r], r)'
      <4>0. PICK x : x = status'[r]
        OBVIOUS
      <4>1. ASSUME \E c \in Chargers : ReportEnds(c) /\ current[c] = r
            PROVE  Fits(x, r)
        <5>1. PICK c \in Chargers : ReportEnds(c) /\ current[c] = r
          BY <4>1
        <5>2. status[r] # "none" /\ status'[r] = report[c].sum /\ pc[c] = "end"
          BY <3>3, <5>1 DEF ReportEnds, Sound, Typed
        <5> QED
          BY <2>3, <4>0, <5>1, <5>2 DEF SumsFit, Handling
      <4>2. ASSUME ~\E c \in Chargers : ReportEnds(c) /\ current[c] = r
            PROVE  Fits(x, r)
        <5>1. ~Saves(r)
          <6>1. ~Early(r)
            <7>1. Early(r) => \A c \in Chargers : rows[r][c] = "none"
              BY DEF Fresh
            <7>2. (\A c \in Chargers : rows[r][c] = "none") => RowsOf(r) = {}
              BY DEF RowsOf
            <7> QED
              BY <2>2, <7>1, <7>2
          <6> QED
            BY <6>1 DEF Saves, Early, Drafting
        <5>2. status'[r] = status[r]
          BY <3>3, <4>2, <5>1, StatusGoes
        <5>3. ASSUME NEW c \in Handling(r) PROVE pc[c] = "write"
          <6>1. c \in Chargers /\ current[c] = r /\ pc[c] # "idle"
            BY Apart DEF Handling, Sound, Held, ReportHolds
          <6>2. current'[c] = r
            BY <4>2, <6>1, ReportGoes
          <6>3. pc'[c] = "write"
            BY <3>3, <6>1, <6>2 DEF Handling
          <6> QED
            BY <6>1, <6>3, ReportGoes
        <5>4. Fits(status[r], r)
          BY <2>3, <3>3, <5>2, <5>3 DEF StatusFits
        <5> QED
          BY <4>0, <5>2, <5>4
      <4>3. Fits(x, r)
        BY <4>1, <4>2
      <4> QED
        BY <3>1, <4>0, <4>3 DEF Fits
    <3> QED
      BY <3>2, <3>3 DEF SumsFit, StatusFits
  <2> QED
    BY <2>4, <2>5
<1> QED
  BY <1>1, <1>2

\* Once nobody is at work on a rollout, its status says whether all its chargers installed
\* it and whether all ended, for any number of them: the handler that wrote the last row
\* sums up after it wrote; unless two reports of it were handled at once, one before its
\* row was marked as sent, or two updates were in hand at once.
THEOREM EndSummed == SafeSpec => []EndIsSummed
<1>1. Init => Summed
  <2> SUFFICES ASSUME Init PROVE Summed
    OBVIOUS
  <2>1. \A r \in Rollouts : RowsOf(r) = {} /\ Handling(r) = {}
    BY Apart DEF Init, RowsOf, Handling
  <2> QED
    BY <2>1, TidiedInit DEF Summed, Uncrossed, Fitting
<1>2. ASSUME Summed, Next PROVE Summed'
  <2>1. Tidied' /\ Uncrossed'
    BY <1>2, TidiedNext, UncrossedNext DEF Summed
  <2> QED
    BY <1>2, <2>1, FittingNext DEF Summed
<1>3. ASSUME Summed, UNCHANGED vars PROVE Summed'
  <2>1. Tidied'
    BY <1>3, TidiedNext DEF Summed
  <2>2. Uncrossed'
    BY <1>3 DEF Summed, Uncrossed, Handling, vars, work
  <2>3. ASSUME NEW r \in Rollouts PROVE Fitting(r)'
    <3>1. Fitting(r)
      BY <1>3 DEF Summed
    <3> QED
      BY <1>3, <3>1 DEF Fitting, Fine, RowsOf, SumsFit, StatusFits, Fits, Having, Handling,
         vars, books, work
  <2> QED
    BY <2>1, <2>2, <2>3 DEF Summed
<1>4. Summed => EndIsSummed
  <2> SUFFICES ASSUME Summed, NEW r \in Rollouts, Quiet(r), Having(r, RowStatuses) # {},
                      status[r] # "none", r \notin crossed,
                      ~\E c \in Having(r, RowStatuses) : odd[c] \cap {"overlap", "outrun"} # {}
      PROVE  Fits(status[r], r)
    BY DEF EndIsSummed, Fits
  <2>1. \A c \in Chargers : HasRow(r, c) <=> c \in Having(r, RowStatuses)
    BY DEF Summed, Tidied, Ordered, Sound, Typed, Having, RowStatuses
  <2>2. Fine(r) /\ RowsOf(r) # {} /\ Handling(r) = {}
    BY <2>1 DEF Fine, RowsOf, Quiet, Having
  <2> QED
    BY <2>2 DEF Summed, Fitting, StatusFits
<1>5. Summed /\ [Next]_vars => Summed'
  BY <1>2, <1>3
<1> QED
  BY <1>1, <1>4, <1>5, PTL DEF SafeSpec
=============================================================================
