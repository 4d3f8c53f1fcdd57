--------------------------- MODULE Goals_proofs -----------------------------
(***************************************************************************)
(* Theorems about the goal records (GoalRecords), the questions of the     *)
(* lanes (Questions) and the controls of the lane anchor (LaneAnchor), for *)
(* every value of their constants. Each part states its inductive          *)
(* invariant, proves that every action preserves it, and ends with its     *)
(* theorems.                                                               *)
(***************************************************************************)
EXTENDS GoalRecords, Questions, LaneAnchor, TLAPS

\* What _upsert_goal_locked stores is a record, with the status, text, version, history and
\* proof it was given, and the asks, tasks and retired asks of either side.
LEMMA MergedFields ==
    ASSUME NEW old \in Record, rec = old, NEW new \in Record, NEW ca \in BOOLEAN, NEW ct \in BOOLEAN
    PROVE  LET r == Merged(new, ca, ct)
           IN  /\ r \in Record
               /\ r.status = new.status /\ r.version = new.version /\ r.revisions = new.revisions
               /\ r.proof = new.proof /\ r.legacy = new.legacy
               /\ r.tasks = IF new.tasks = {} /\ ~ct THEN rec.tasks ELSE new.tasks
               /\ r.asks = IF new.asks = {} /\ ~ca THEN rec.asks ELSE new.asks
               /\ r.retired = IF new.retired = {} THEN rec.retired ELSE new.retired
<1> DEFINE stillAsked == IF new.asks = {} /\ ~ca THEN rec.asks ELSE new.asks
           tasked == IF new.tasks = {} /\ ~ct THEN rec.tasks ELSE new.tasks
           gone == IF new.retired = {} THEN rec.retired ELSE new.retired
           why == new.reason \/ (new.status = rec.status /\ rec.reason)
           r == [new EXCEPT !.asks = stillAsked, !.tasks = tasked, !.retired = gone, !.reason = why]
<1>1. Merged(new, ca, ct) = r
  BY Zenon DEF Merged
<1>2. /\ stillAsked \in SUBSET Asks /\ tasked \in SUBSET (Tasks \X (1 .. MaxGoalVersion))
      /\ gone \in SUBSET (Asks \cup Tasks)
  BY Zenon DEF Record
<1>3. why \in BOOLEAN
  BY Zenon
<1> HIDE DEF stillAsked, tasked, gone, why
<1>4. r \in Record
  BY Zenon, <1>2, <1>3 DEF Record
<1>5. /\ r.status = new.status /\ r.version = new.version /\ r.revisions = new.revisions
      /\ r.proof = new.proof /\ r.legacy = new.legacy
      /\ r.tasks = tasked /\ r.asks = stillAsked /\ r.retired = gone
  BY Zenon DEF Record
<1> QED BY Zenon, <1>1, <1>4, <1>5 DEF stillAsked, tasked, gone

\* The part of DoneIsProven that speaks of the stored record.
Proven(r) ==
    /\ r \in Record
    /\ r.status = "done" /\ ~r.legacy => r.proof = r.version
    /\ \A t \in r.tasks : t[2] = r.version
    /\ r.revisions = r.version - 1

Recorded == (Exists(rec) => Proven(rec)) /\ RecordsTypeOK /\ outcome # "unproven"

\* The invariant the steps preserve is the property itself.
LEMMA RecordedIsDoneIsProven == Recorded <=> DoneIsProven
<1>1. Recorded => DoneIsProven
  BY Zenon DEF Recorded, DoneIsProven, Proven
<1>2. DoneIsProven => Recorded
  BY Zenon DEF Recorded, DoneIsProven, Proven, RecordsTypeOK, Exists
<1> QED
  BY Zenon, <1>1, <1>2

\* Every verb that keeps the record's status, version and proof, or goes to a status that
\* needs none.
LEMMA ModifyKeeps ==
    ASSUME Recorded, Exists(rec), NEW new \in Record, NEW ca \in BOOLEAN, NEW ct \in BOOLEAN,
           Write(new, ca, ct),
           new.version = rec.version, new.revisions = rec.revisions, new.proof = rec.proof,
           new.legacy = rec.legacy, new.status \in {rec.status} \cup OpenStatuses,
           \A t \in new.tasks : t[2] = rec.version
    PROVE  Recorded'
<1>1. rec \in Record /\ Proven(rec)
  BY Zenon DEF Recorded, RecordsTypeOK, Exists
<1>2. PICK r \in Record : r = Merged(new, ca, ct)
  BY Zenon, <1>1, MergedFields
<1>3. r.status = new.status /\ r.version = new.version /\ r.revisions = new.revisions
      /\ r.proof = new.proof /\ r.legacy = new.legacy
      /\ r.tasks = IF new.tasks = {} /\ ~ct THEN rec.tasks ELSE new.tasks
  BY SMTT(30), <1>1, <1>2, MergedFields
<1>4. rec' = r /\ snap' = snap /\ outcome' = outcome
  BY Zenon, <1>2 DEF Write
<1>5. Proven(r)
  BY Zenon, <1>1, <1>3 DEF Proven, OpenStatuses
<1> QED
  BY Zenon, <1>4, <1>5 DEF Recorded, RecordsTypeOK, Exists, Proven

\* A lane without a goal satisfies it.
LEMMA RecordsInitHolds == RecordsInit => Recorded
<1> SUFFICES ASSUME RecordsInit PROVE Recorded
  BY Zenon
<1>1. CASE rec = Absent
  BY Zenon, <1>1 DEF RecordsInit, Recorded, RecordsTypeOK, Exists
<1>2. ASSUME NEW x \in GoalTexts, NEW st \in {"working", "done"},
             rec = [NewRecord(x, st, {}) EXCEPT !.legacy = TRUE]
      PROVE  Recorded
  <2> DEFINE n == NewRecord(x, st, {})
  <2>1. n \in Record /\ n.version = 1 /\ n.revisions = 0 /\ n.tasks = {}
    BY <1>2, RecordsAssumption DEF NewRecord, Record, OpenStatuses
  <2> HIDE DEF n
  <2>2. rec \in Record /\ rec.legacy = TRUE /\ rec.version = 1 /\ rec.revisions = 0 /\ rec.tasks = {}
    BY Zenon, <1>2, <2>1 DEF n, Record
  <2>3. Proven(rec)
    BY <2>2 DEF Proven
  <2> QED
    BY Zenon, <2>2, <2>3 DEF RecordsInit, Recorded, RecordsTypeOK
<1> QED
  BY <1>1, <1>2 DEF RecordsInit

\* No writer of goal_records.py closes a goal without the proof its record names.
LEMMA RecordsStep == Recorded /\ [RecordsNext]_recordsVars => Recorded'
<1> SUFFICES ASSUME Recorded, [RecordsNext]_recordsVars PROVE Recorded'
  BY Zenon
<1> USE RecordsAssumption
<1>a. Exists(rec) => rec \in Record /\ Proven(rec)
  BY Zenon DEF Recorded, RecordsTypeOK, Exists
<1>1. CASE Enroll
  <2>1. PICK x \in GoalTexts, st \in OpenStatuses, given \in SUBSET Asks : rec' = NewRecord(x, st, given)
    BY Zenon, <1>1 DEF Enroll
  <2>2. rec' \in Record /\ rec'.status = st /\ rec'.version = 1 /\ rec'.revisions = 0 /\ rec'.tasks = {}
    BY <2>1, RecordsAssumption DEF NewRecord, Record
  <2>3. Proven(rec')
    BY <2>2 DEF Proven, OpenStatuses
  <2> QED
    BY Zenon, <1>1, <2>2, <2>3 DEF Enroll, Recorded, RecordsTypeOK, Proven
<1>2. CASE ReadForSet
  BY Zenon, <1>2, <1>a DEF ReadForSet, Recorded, RecordsTypeOK, Proven, Record, Exists
<1>3. ASSUME NEW st \in OpenStatuses \cup {"done"}, NEW given \in SUBSET Asks, NEW clear \in BOOLEAN,
             WriteSet(st, given, clear)
      PROVE  Recorded'
  <2> DEFINE new == Requested(st, given)
             kept == [new EXCEPT !.version = rec.version, !.revisions = rec.revisions]
  <2>1. snap.text \in GoalTexts /\ snap.proof \in 0..MaxGoalVersion /\ snap' = Absent
    BY Zenon, <1>3 DEF WriteSet, Recorded, RecordsTypeOK, Exists
  <2>2. new \in Record /\ new.status = st /\ new.version = 1 /\ new.revisions = 0 /\ new.tasks = {}
        /\ new.proof = snap.proof /\ new.legacy = FALSE
    <3> DEFINE n == NewRecord(snap.text, st, given)
    <3>1. n \in Record /\ n.status = st /\ n.version = 1 /\ n.revisions = 0 /\ n.tasks = {}
          /\ n.legacy = FALSE
      BY <2>1 DEF NewRecord, Record
    <3>2. new = [n EXCEPT !.proof = snap.proof]
      BY Zenon DEF Requested
    <3> HIDE DEF n, new
    <3> QED
      BY Zenon, <2>1, <3>1, <3>2 DEF Record
  <2>3. CASE UNCHANGED <<rec, outcome>>
    BY Zenon, <2>1, <2>3 DEF Recorded, RecordsTypeOK, Exists, Proven
  <2>4. CASE st # "done" /\ rec' = new /\ outcome' = "none"
    <3>1. Proven(rec')
      BY <2>2, <2>4 DEF Proven
    <3> QED
      BY Zenon, <2>1, <2>4, <3>1 DEF Recorded, RecordsTypeOK, Proven
  <2>5. CASE Exists(rec) /\ ~Refused(new, FALSE, FALSE, FALSE) /\ rec' = Merged(kept, clear, FALSE)
             /\ UNCHANGED outcome
    <3>1. rec \in Record /\ Proven(rec)
      BY Zenon, <2>5, <1>a
    <3>2. kept \in Record /\ kept.status = st /\ kept.version = rec.version
          /\ kept.revisions = rec.revisions /\ kept.tasks = {} /\ kept.proof = snap.proof
          /\ kept.legacy = FALSE
      BY Zenon, <2>2, <3>1 DEF Record
    <3>3. snap.proof = rec.proof /\ (st = "done" => rec.status = "done") /\ rec.legacy = FALSE
      BY Zenon, <2>2, <2>5, <3>1 DEF Refused, Record
    <3> HIDE DEF kept
    <3>4. rec' \in Record /\ rec'.status = kept.status /\ rec'.version = kept.version
          /\ rec'.revisions = kept.revisions /\ rec'.proof = kept.proof /\ rec'.legacy = kept.legacy
          /\ rec'.tasks = rec.tasks
      BY ZenonT(60), <2>5, <3>1, <3>2, MergedFields
    <3>5. Proven(rec')
      BY Zenon, <3>1, <3>2, <3>3, <3>4 DEF Proven
    <3> QED
      BY Zenon, <2>1, <2>5, <3>5 DEF Recorded, RecordsTypeOK, Proven
  <2> QED
    BY Zenon, <1>3, <2>3, <2>4, <2>5 DEF WriteSet
<1>4. ASSUME NEW st \in OpenStatuses, UpdateNow(st)
      PROVE  Recorded'
  <2> DEFINE new == [rec EXCEPT !.status = st]
  <2>1. Exists(rec) /\ Write(new, FALSE, FALSE)
    BY Zenon, <1>4 DEF UpdateNow, Modify
  <2>2. rec \in Record /\ (\A task \in rec.tasks : task[2] = rec.version)
    BY Zenon, <1>a, <2>1 DEF Proven
  <2>3. new \in Record
    BY Zenon, <2>2 DEF Record, OpenStatuses
  <2>4. /\ new.version = rec.version /\ new.revisions = rec.revisions /\ new.proof = rec.proof
        /\ new.legacy = rec.legacy /\ new.status \in {rec.status} \cup OpenStatuses
        /\ \A task \in new.tasks : task[2] = rec.version
    BY Zenon, <2>2 DEF Record, OpenStatuses
  <2> HIDE DEF new
  <2> QED
    BY Zenon, <2>1, <2>3, <2>4, ModifyKeeps
<1>5. CASE HoldGoal
  <2> DEFINE new == [rec EXCEPT !.status = "held", !.reason = TRUE]
  <2>1. Exists(rec) /\ Write(new, FALSE, FALSE)
    BY Zenon, <1>5 DEF HoldGoal, Modify
  <2>2. rec \in Record /\ (\A task \in rec.tasks : task[2] = rec.version)
    BY Zenon, <1>a, <2>1 DEF Proven
  <2>3. new \in Record
    BY Zenon, <2>2 DEF Record, OpenStatuses
  <2>4. /\ new.version = rec.version /\ new.revisions = rec.revisions /\ new.proof = rec.proof
        /\ new.legacy = rec.legacy /\ new.status \in {rec.status} \cup OpenStatuses
        /\ \A task \in new.tasks : task[2] = rec.version
    BY Zenon, <2>2 DEF Record, OpenStatuses
  <2> HIDE DEF new
  <2> QED
    BY Zenon, <2>1, <2>3, <2>4, ModifyKeeps
<1>6. CASE ResumeGoal
  <2> DEFINE new == [rec EXCEPT !.status = "working", !.reason = FALSE]
  <2>1. Exists(rec) /\ Write(new, FALSE, FALSE)
    BY Zenon, <1>6 DEF ResumeGoal, Modify
  <2>2. rec \in Record /\ (\A task \in rec.tasks : task[2] = rec.version)
    BY Zenon, <1>a, <2>1 DEF Proven
  <2>3. new \in Record
    BY Zenon, <2>2 DEF Record, OpenStatuses
  <2>4. /\ new.version = rec.version /\ new.revisions = rec.revisions /\ new.proof = rec.proof
        /\ new.legacy = rec.legacy /\ new.status \in {rec.status} \cup OpenStatuses
        /\ \A task \in new.tasks : task[2] = rec.version
    BY Zenon, <2>2 DEF Record, OpenStatuses
  <2> HIDE DEF new
  <2> QED
    BY Zenon, <2>1, <2>3, <2>4, ModifyKeeps
<1>7. ASSUME NEW x \in GoalTexts, RedirectGoal(x)
      PROVE  Recorded'
  <2> DEFINE new == [rec EXCEPT !.text = x, !.tasks = {}, !.version = @ + 1, !.revisions = @ + 1,
                                !.status = IF @ = "done" THEN "working" ELSE @]
  <2>1. rec \in Record /\ Proven(rec) /\ rec.version < MaxGoalVersion /\ Write(new, FALSE, TRUE)
    BY Zenon, <1>7, <1>a DEF RedirectGoal
  <2>a. rec.revisions = rec.version - 1 /\ rec.version \in 1..MaxGoalVersion
    BY Zenon, <2>1 DEF Proven, Record
  <2>b. rec.version + 1 \in 1..MaxGoalVersion /\ rec.revisions + 1 \in 0..MaxGoalVersion
    BY <2>1, <2>a
  <2>c. new \in Record
    BY Zenon, <2>1, <2>b DEF Record, OpenStatuses
  <2>d. new.version = rec.version + 1 /\ new.revisions = rec.revisions + 1
        /\ new.tasks = {} /\ new.status # "done"
    BY Zenon, <2>1 DEF Record
  <2>2. new \in Record /\ new.version = rec.version + 1 /\ new.revisions = rec.revisions + 1
        /\ new.tasks = {} /\ new.status # "done"
    BY Zenon, <2>c, <2>d
  <2> HIDE DEF new
  <2>3. rec' \in Record /\ rec'.status = new.status /\ rec'.version = new.version
        /\ rec'.revisions = new.revisions /\ rec'.tasks = {}
    BY Zenon, <2>1, <2>2, MergedFields DEF Write
  <2>4. Proven(rec')
    BY <2>1, <2>2, <2>3 DEF Proven, Record
  <2> QED
    BY Zenon, <2>1, <2>4 DEF Write, Recorded, RecordsTypeOK, Proven
<1>8. ASSUME NEW t \in Tasks, AddForegroundTask(t)
      PROVE  Recorded'
  <2> DEFINE new == [rec EXCEPT !.tasks = @ \cup {<<t, rec.version>>}]
  <2>1. Exists(rec) /\ Write(new, FALSE, FALSE)
    BY Zenon, <1>8 DEF AddForegroundTask, Modify
  <2>2. rec \in Record /\ (\A task \in rec.tasks : task[2] = rec.version)
    BY Zenon, <1>a, <2>1 DEF Proven
  <2>3. new \in Record
    BY <2>2 DEF Record, OpenStatuses
  <2>4. /\ new.version = rec.version /\ new.revisions = rec.revisions /\ new.proof = rec.proof
        /\ new.legacy = rec.legacy /\ new.status \in {rec.status} \cup OpenStatuses
        /\ \A task \in new.tasks : task[2] = rec.version
    BY <2>2 DEF Record, OpenStatuses
  <2> HIDE DEF new
  <2> QED
    BY Zenon, <2>1, <2>3, <2>4, ModifyKeeps
<1>9. ASSUME NEW t \in Tasks \X (1..MaxGoalVersion), ResolveForegroundTask(t)
      PROVE  Recorded'
  <2> DEFINE new == [rec EXCEPT !.tasks = @ \ {t}, !.retired = @ \cup {t[1]}]
  <2>1. Exists(rec) /\ Write(new, FALSE, TRUE)
    BY Zenon, <1>9 DEF ResolveForegroundTask
  <2>2. rec \in Record /\ (\A task \in rec.tasks : task[2] = rec.version)
    BY Zenon, <1>a, <2>1 DEF Proven
  <2>3. new \in Record
    BY Zenon, <2>2 DEF Record, OpenStatuses
  <2>4. /\ new.version = rec.version /\ new.revisions = rec.revisions /\ new.proof = rec.proof
        /\ new.legacy = rec.legacy /\ new.status \in {rec.status} \cup OpenStatuses
        /\ \A task \in new.tasks : task[2] = rec.version
    BY Zenon, <2>2 DEF Record, OpenStatuses
  <2> HIDE DEF new
  <2> QED
    BY Zenon, <2>1, <2>3, <2>4, ModifyKeeps
<1>10. ASSUME NEW a \in Asks, AddAsk(a)
      PROVE  Recorded'
  <2> DEFINE new == [rec EXCEPT !.asks = @ \cup {a}]
  <2>1. Exists(rec) /\ Write(new, FALSE, FALSE)
    BY Zenon, <1>10 DEF AddAsk, Modify
  <2>2. rec \in Record /\ (\A task \in rec.tasks : task[2] = rec.version)
    BY Zenon, <1>a, <2>1 DEF Proven
  <2>3. new \in Record
    BY Zenon, <2>2 DEF Record, OpenStatuses
  <2>4. /\ new.version = rec.version /\ new.revisions = rec.revisions /\ new.proof = rec.proof
        /\ new.legacy = rec.legacy /\ new.status \in {rec.status} \cup OpenStatuses
        /\ \A task \in new.tasks : task[2] = rec.version
    BY Zenon, <2>2 DEF Record, OpenStatuses
  <2> HIDE DEF new
  <2> QED
    BY Zenon, <2>1, <2>3, <2>4, ModifyKeeps
<1>11. ASSUME NEW removed \in SUBSET Asks, ResolveAsks(removed)
      PROVE  Recorded'
  <2> DEFINE new == [rec EXCEPT !.asks = @ \ removed, !.retired = @ \cup removed]
  <2>1. Exists(rec)
        /\ Write(new, TRUE, FALSE)
    BY Zenon, <1>11 DEF ResolveAsks
  <2>2. rec \in Record /\ (\A task \in rec.tasks : task[2] = rec.version)
    BY Zenon, <1>a, <2>1 DEF Proven
  <2>3. new \in Record
    BY Zenon, <2>2 DEF Record, OpenStatuses
  <2>4. /\ new.version = rec.version /\ new.revisions = rec.revisions /\ new.proof = rec.proof
        /\ new.legacy = rec.legacy /\ new.status \in {rec.status} \cup OpenStatuses
        /\ \A task \in new.tasks : task[2] = rec.version
    BY Zenon, <2>2 DEF Record, OpenStatuses
  <2> HIDE DEF new
  <2> QED
    BY Zenon, <2>1, <2>3, <2>4, ModifyKeeps
<1>12. CASE MarkCompletionGatePassed
  <2> DEFINE new == [rec EXCEPT !.status = "done", !.proof = rec.version]
  <2>1. rec \in Record /\ Proven(rec) /\ Write(new, FALSE, FALSE)
    BY Zenon, <1>12, <1>a DEF MarkCompletionGatePassed
  <2>a. rec.version \in 0..MaxGoalVersion
    BY <2>1 DEF Record
  <2>b. new \in Record
    BY Zenon, <2>1, <2>a DEF Record
  <2>2. new \in Record /\ new.version = rec.version /\ new.revisions = rec.revisions
        /\ new.tasks = rec.tasks /\ new.proof = new.version
    BY Zenon, <2>1, <2>b DEF Record
  <2> HIDE DEF new
  <2>3. rec' \in Record /\ rec'.version = new.version /\ rec'.proof = new.proof
        /\ rec'.revisions = new.revisions /\ rec'.tasks = rec.tasks
    BY Zenon, <2>1, <2>2, MergedFields DEF Write
  <2>4. Proven(rec')
    BY Zenon, <2>1, <2>2, <2>3 DEF Proven
  <2> QED
    BY Zenon, <2>1, <2>4 DEF Write, Recorded, RecordsTypeOK, Proven
<1>13. ASSUME NEW administrative \in BOOLEAN, CloseGoal(administrative)
      PROVE  Recorded'
  BY Zenon, <1>13, <1>a DEF CloseGoal, Recorded, RecordsTypeOK, Exists, Proven
<1>14. CASE UNCHANGED recordsVars
  BY Zenon, <1>14 DEF recordsVars, Recorded, RecordsTypeOK, Exists, Proven
<1> QED
  BY Zenon, <1>1, <1>2, <1>3, <1>4, <1>5, <1>6, <1>7, <1>8, <1>9, <1>10, <1>11, <1>12, <1>13, <1>14
  DEF RecordsNext

\* DoneIsProven for any texts, asks and tasks: a record that says done carries the proof of its
\* close, whichever writers interleave.
THEOREM DoneGoalsAreProven == RecordsSpec => []DoneIsProven
BY RecordsInitHolds, RecordsStep, RecordedIsDoneIsProven, PTL DEF RecordsSpec
-----------------------------------------------------------------------------
\* A write through Merged of a record that keeps the asks, or adds to them, or retires the ones
\* it takes away.
LEMMA MergedKeepsAsks ==
    ASSUME NEW old \in Record, rec = old, NEW new \in Record, NEW ca \in BOOLEAN, NEW ct \in BOOLEAN,
           rec' = Merged(new, ca, ct),
           \/ rec.asks \subseteq new.asks
           \/ new.asks = {} /\ ~ca
           \/ rec.asks \ new.asks \subseteq new.retired,
           rec.retired \subseteq new.retired \/ new.retired = {}
    PROVE  rec.asks \ rec'.asks \subseteq rec'.retired /\ rec.retired \subseteq rec'.retired
<1>1. PICK r \in Record : r = Merged(new, ca, ct)
  BY Zenon, MergedFields
<1>2. /\ r.asks = IF new.asks = {} /\ ~ca THEN rec.asks ELSE new.asks
      /\ r.retired = IF new.retired = {} THEN rec.retired ELSE new.retired
  BY <1>1, MergedFields
<1> QED
  BY Zenon, <1>1, <1>2

\* Every write keeps the open asks, retires them, or is a "set" that replaces them.
LEMMA RecordsAskStep == Recorded /\ [RecordsNext]_recordsVars => [AskStep]_recordsVars
<1> SUFFICES ASSUME Recorded, RecordsNext, Exists(rec), Exists(rec')
             PROVE  /\ \/ rec.asks \ rec'.asks \subseteq rec'.retired
                       \/ \E st \in OpenStatuses \cup {"done"} :
                            WriteSet(st, {}, TRUE) \/ \E given \in (SUBSET Asks) \ {{}} : WriteSet(st, given, FALSE)
                    /\ rec.retired \subseteq rec'.retired
  BY Zenon DEF AskStep
<1>a. rec \in Record
  BY Zenon DEF Recorded, RecordsTypeOK, Exists
<1>1. CASE Enroll
  BY Zenon, <1>1 DEF Enroll
<1>2. CASE ReadForSet
  BY Zenon, <1>2 DEF ReadForSet
<1>3. ASSUME NEW st \in OpenStatuses \cup {"done"}, NEW given \in SUBSET Asks, NEW clear \in BOOLEAN,
             WriteSet(st, given, clear)
      PROVE  /\ \/ rec.asks \ rec'.asks \subseteq rec'.retired
                \/ WriteSet(st, {}, TRUE) \/ (given # {} /\ WriteSet(st, given, FALSE))
             /\ rec.retired \subseteq rec'.retired
  <2> DEFINE new == Requested(st, given)
             kept == [new EXCEPT !.version = rec.version, !.revisions = rec.revisions]
  <2>1. snap.text \in GoalTexts /\ snap.proof \in 0..MaxGoalVersion
    BY Zenon, <1>3 DEF WriteSet, Recorded, RecordsTypeOK, Exists
  <2>2. new \in Record /\ new.asks = given /\ new.retired = {}
    <3> DEFINE n == NewRecord(snap.text, st, given)
    <3>1. n \in Record /\ n.asks = given /\ n.retired = {}
      BY <2>1, RecordsAssumption DEF NewRecord, Record
    <3>2. new = [n EXCEPT !.proof = snap.proof]
      BY Zenon DEF Requested
    <3> HIDE DEF n, new
    <3> QED
      BY Zenon, <2>1, <3>1, <3>2 DEF Record
  <2>3. kept \in Record /\ kept.asks = given /\ kept.retired = {}
    <3> HIDE DEF new
    <3> QED
      BY Zenon, <1>a, <2>2 DEF Record
  <2>4. rec' = rec \/ rec' = Merged(kept, clear, FALSE)
    BY Zenon, <1>3 DEF WriteSet
  <2>5. (clear => given = {}) /\ (clear = TRUE \/ clear = FALSE)
    BY Zenon, <1>3 DEF WriteSet
  <2> HIDE DEF kept
  <2>6. CASE clear = TRUE
    <3>1. WriteSet(st, {}, TRUE)
      BY Zenon, <1>3, <2>5, <2>6
    <3>2. rec.retired \subseteq rec'.retired
      <4>1. CASE rec' = Merged(kept, clear, FALSE)
        BY Zenon, <1>a, <2>3, <4>1, MergedFields
      <4> QED
        BY Zenon, <2>4, <4>1
    <3> QED
      BY Zenon, <3>1, <3>2
  <2>7. CASE clear = FALSE /\ given # {}
    <3>2. rec.retired \subseteq rec'.retired
      <4>1. CASE rec' = Merged(kept, clear, FALSE)
        BY Zenon, <1>a, <2>3, <4>1, MergedFields
      <4> QED
        BY Zenon, <2>4, <4>1
    <3> QED
      BY Zenon, <1>3, <2>7, <3>2
  <2>8. CASE clear = FALSE /\ given = {}
    <3>1. CASE rec' = Merged(kept, clear, FALSE)
      BY Zenon, <1>a, <2>3, <2>8, <3>1, MergedKeepsAsks
    <3> QED
      BY Zenon, <2>4, <3>1
  <2> QED
    BY Zenon, <2>5, <2>6, <2>7, <2>8
<1>4. ASSUME NEW st \in OpenStatuses, UpdateNow(st)
      PROVE  rec.asks \ rec'.asks \subseteq rec'.retired /\ rec.retired \subseteq rec'.retired
  <2> DEFINE new == [rec EXCEPT !.status = st]
  <2>1. new \in Record /\ new.asks = rec.asks /\ new.retired = rec.retired
    BY Zenon, <1>a DEF Record
  <2>2. rec' = Merged(new, FALSE, FALSE)
    BY Zenon, <1>4 DEF UpdateNow, Modify, Write
  <2> HIDE DEF new
  <2> QED
    BY Zenon, <1>a, <2>1, <2>2, MergedKeepsAsks
<1>5. ASSUME HoldGoal
      PROVE  rec.asks \ rec'.asks \subseteq rec'.retired /\ rec.retired \subseteq rec'.retired
  <2> DEFINE new == [rec EXCEPT !.status = "held", !.reason = TRUE]
  <2>1. new \in Record /\ new.asks = rec.asks /\ new.retired = rec.retired
    BY Zenon, <1>a DEF Record, OpenStatuses
  <2>2. rec' = Merged(new, FALSE, FALSE)
    BY Zenon, <1>5 DEF HoldGoal, Modify, Write
  <2> HIDE DEF new
  <2> QED
    BY Zenon, <1>a, <2>1, <2>2, MergedKeepsAsks
<1>6. ASSUME ResumeGoal
      PROVE  rec.asks \ rec'.asks \subseteq rec'.retired /\ rec.retired \subseteq rec'.retired
  <2> DEFINE new == [rec EXCEPT !.status = "working", !.reason = FALSE]
  <2>1. new \in Record /\ new.asks = rec.asks /\ new.retired = rec.retired
    BY Zenon, <1>a DEF Record, OpenStatuses
  <2>2. rec' = Merged(new, FALSE, FALSE)
    BY Zenon, <1>6 DEF ResumeGoal, Modify, Write
  <2> HIDE DEF new
  <2> QED
    BY Zenon, <1>a, <2>1, <2>2, MergedKeepsAsks
<1>7. ASSUME NEW x \in GoalTexts, RedirectGoal(x)
      PROVE  rec.asks \ rec'.asks \subseteq rec'.retired /\ rec.retired \subseteq rec'.retired
  <2> DEFINE new == [rec EXCEPT !.text = x, !.tasks = {}, !.version = @ + 1, !.revisions = @ + 1,
                          !.status = IF @ = "done" THEN "working" ELSE @]
  <2>a. rec.version + 1 \in 1..MaxGoalVersion /\ rec.revisions + 1 \in 0..MaxGoalVersion
    BY <1>7, <1>a, RecordsAssumption DEF RedirectGoal, Record, Recorded, Proven
  <2>1. new \in Record /\ new.asks = rec.asks /\ new.retired = rec.retired
    BY Zenon, <1>a, <2>a DEF Record, OpenStatuses
  <2>2. rec' = Merged(new, FALSE, TRUE)
    BY Zenon, <1>7 DEF RedirectGoal, Write
  <2> HIDE DEF new
  <2> QED
    BY Zenon, <1>a, <2>1, <2>2, MergedKeepsAsks
<1>8. ASSUME NEW t \in Tasks, AddForegroundTask(t)
      PROVE  rec.asks \ rec'.asks \subseteq rec'.retired /\ rec.retired \subseteq rec'.retired
  <2> DEFINE new == [rec EXCEPT !.tasks = @ \cup {<<t, rec.version>>}]
  <2>1. new \in Record /\ new.asks = rec.asks /\ new.retired = rec.retired
    BY <1>a DEF Record
  <2>2. rec' = Merged(new, FALSE, FALSE)
    BY Zenon, <1>8 DEF AddForegroundTask, Modify, Write
  <2> HIDE DEF new
  <2> QED
    BY Zenon, <1>a, <2>1, <2>2, MergedKeepsAsks
<1>9. ASSUME NEW t \in Tasks \X (1..MaxGoalVersion), ResolveForegroundTask(t)
      PROVE  rec.asks \ rec'.asks \subseteq rec'.retired /\ rec.retired \subseteq rec'.retired
  <2> DEFINE new == [rec EXCEPT !.tasks = @ \ {t}, !.retired = @ \cup {t[1]}]
  <2>1. new \in Record /\ new.asks = rec.asks /\ rec.retired \subseteq new.retired
    BY Zenon, <1>a DEF Record
  <2>2. rec' = Merged(new, FALSE, TRUE)
    BY Zenon, <1>9 DEF ResolveForegroundTask, Write
  <2> HIDE DEF new
  <2> QED
    BY Zenon, <1>a, <2>1, <2>2, MergedKeepsAsks
<1>10. ASSUME NEW a \in Asks, AddAsk(a)
      PROVE  rec.asks \ rec'.asks \subseteq rec'.retired /\ rec.retired \subseteq rec'.retired
  <2> DEFINE new == [rec EXCEPT !.asks = @ \cup {a}]
  <2>1. new \in Record /\ rec.asks \subseteq new.asks /\ new.retired = rec.retired
    BY Zenon, <1>a DEF Record
  <2>2. rec' = Merged(new, FALSE, FALSE)
    BY Zenon, <1>10 DEF AddAsk, Modify, Write
  <2> HIDE DEF new
  <2> QED
    BY Zenon, <1>a, <2>1, <2>2, MergedKeepsAsks
<1>11. ASSUME NEW removed \in SUBSET Asks, ResolveAsks(removed)
      PROVE  rec.asks \ rec'.asks \subseteq rec'.retired /\ rec.retired \subseteq rec'.retired
  <2> DEFINE new == [rec EXCEPT !.asks = @ \ removed, !.retired = @ \cup removed]
  <2>1. new \in Record /\ rec.asks \ new.asks \subseteq new.retired /\ rec.retired \subseteq new.retired
    BY Zenon, <1>a DEF Record
  <2>2. rec' = Merged(new, TRUE, FALSE)
    BY Zenon, <1>11 DEF ResolveAsks, Write
  <2> HIDE DEF new
  <2> QED
    BY Zenon, <1>a, <2>1, <2>2, MergedKeepsAsks
<1>12. ASSUME MarkCompletionGatePassed
      PROVE  rec.asks \ rec'.asks \subseteq rec'.retired /\ rec.retired \subseteq rec'.retired
  <2> DEFINE new == [rec EXCEPT !.status = "done", !.proof = rec.version]
  <2>a. rec.version \in 0..MaxGoalVersion
    BY <1>a DEF Record
  <2>1. new \in Record /\ new.asks = rec.asks /\ new.retired = rec.retired
    BY Zenon, <1>a, <2>a DEF Record
  <2>2. rec' = Merged(new, FALSE, FALSE)
    BY Zenon, <1>12 DEF MarkCompletionGatePassed, Write
  <2> HIDE DEF new
  <2> QED
    BY Zenon, <1>a, <2>1, <2>2, MergedKeepsAsks
<1>13. ASSUME NEW administrative \in BOOLEAN, CloseGoal(administrative) PROVE FALSE
  BY Zenon, <1>13 DEF CloseGoal, Exists
<1> QED
  <2>1. CASE \E st \in OpenStatuses \cup {"done"}, given \in SUBSET Asks, clear \in BOOLEAN : WriteSet(st, given, clear)
    <3>1. PICK st \in OpenStatuses \cup {"done"}, given \in SUBSET Asks, clear \in BOOLEAN : WriteSet(st, given, clear)
      BY Zenon, <2>1
    <3>2. /\ \/ rec.asks \ rec'.asks \subseteq rec'.retired
             \/ WriteSet(st, {}, TRUE) \/ (given # {} /\ WriteSet(st, given, FALSE))
          /\ rec.retired \subseteq rec'.retired
      BY Zenon, <1>3, <3>1
    <3> QED
      BY Zenon, <3>2
  <2>2. CASE ~\E st \in OpenStatuses \cup {"done"}, given \in SUBSET Asks, clear \in BOOLEAN : WriteSet(st, given, clear)
    <3> DEFINE Kept == rec.asks \ rec'.asks \subseteq rec'.retired /\ rec.retired \subseteq rec'.retired
    <3>1. CASE Enroll \/ ReadForSet
      BY Zenon, <1>1, <1>2, <3>1
    <3>2. Enroll \/ ReadForSet \/ Kept
      <4>1. /\ (\E st \in OpenStatuses : UpdateNow(st)) => Kept
            /\ (HoldGoal => Kept) /\ (ResumeGoal => Kept)
            /\ (\E x \in GoalTexts : RedirectGoal(x)) => Kept
            /\ (\E t \in Tasks : AddForegroundTask(t)) => Kept
            /\ (\E t \in Tasks \X (1..MaxGoalVersion) : ResolveForegroundTask(t)) => Kept
            /\ (\E a \in Asks : AddAsk(a)) => Kept
            /\ (\E removed \in SUBSET Asks : ResolveAsks(removed)) => Kept
            /\ MarkCompletionGatePassed => Kept
            /\ ~ \E administrative \in BOOLEAN : CloseGoal(administrative)
        BY Zenon, <1>4, <1>5, <1>6, <1>7, <1>8, <1>9, <1>10, <1>11, <1>12, <1>13
      <4> HIDE DEF Kept
      <4> QED
        BY Zenon, <2>2, <4>1 DEF RecordsNext
    <3> QED
      BY Zenon, <3>1, <3>2
  <2> QED
    BY Zenon, <2>1, <2>2

\* A step of the store's verbs never loses an operator ask: it stays in the list, goes into
\* the retired asks, or was replaced by a "set" that said so.
THEOREM AsksAreNotLost == RecordsSpec => AsksAreRetired
<1>1. Recorded /\ [RecordsNext]_recordsVars => [AskStep]_recordsVars
  BY Zenon, RecordsAskStep
<1> QED
  BY <1>1, RecordsInitHolds, RecordsStep, PTL DEF RecordsSpec, AsksAreRetired

-----------------------------------------------------------------------------
\* Questions and answers (Questions).

Passes == [at : {"idle", "question", "hold", "mark"}, q : Nat, v : 0 .. MaxContract, log : SUBSET Questions,
           mark : Nat, whole : BOOLEAN, to : Nat]
Rulings == [v : 1 .. MaxContract, text : AnswerTexts, asks : SUBSET Questions]
Replies == [at : {"idle", "rule", "retire", "relay", "look", "resume", "requeue"},
            text : AnswerTexts \cup {""}, v : 0 .. MaxContract, asks : SUBSET Questions,
            tasks : SUBSET Questions]

QuestionsTyped ==
    /\ asks \in SUBSET Questions /\ tasks \in SUBSET Questions
    /\ ver \in 1 .. MaxContract /\ asked \in 0 .. N
    /\ upto \in [1 .. MaxContract -> Nat]
    /\ ruling \in SUBSET Rulings
    /\ answer \in [Questions -> {"none", "queued", "sent", "taken", "rejected", "failed"}]
    /\ mon \in Passes /\ oper \in Replies
    /\ oper.at \in {"rule", "retire", "relay"} => oper.v \in 1 .. MaxContract /\ oper.text \in AnswerTexts

\* A question that reached durable state.
Tracked(q) == q \in asks \cup tasks \cup retired \/ answer[q] # "none"

\* The turn boundary lags behind the durable state; later versions have none yet.
BoundaryInv ==
    /\ upto[ver] <= asked
    /\ \A v \in 1 .. MaxContract : v > ver => upto[v] = 0
    /\ \A q \in 1 .. asked : q <= upto[ver] => Tracked(q)

\* What a pass over the goal version in force has behind it is in durable state.
PassInv ==
    mon.at # "idle" =>
        /\ mon.v \in 1 .. ver /\ mon.to <= asked /\ mon.q >= 1
        /\ mon.mark < mon.q
        /\ mon.at = "mark" => mon.q = mon.to + 1
        /\ mon.at # "mark" => mon.q <= mon.to
        /\ mon.log \subseteq BoundTo(mon.v)
        /\ mon.v = ver => \A q \in 1 .. asked : q < mon.q => Tracked(q)
        /\ mon.v = ver /\ mon.at = "hold" => Tracked(mon.q)

\* An answer is published only on the contract or on a ruling on this version.
AnswerInv ==
    \A q \in Questions : answer[q] # "none" =>
        Class[q] # "protected" /\ (Class[q] = "contract" \/ q \in BoundTo(ver))

QuestionsInv == QuestionsTyped /\ BoundaryInv /\ PassInv /\ AnswerInv

\* The numbers of questions and of contracts are naturals.
LEMMA NIsNatural == N \in Nat /\ MaxContract \in Nat
  BY QuestionsAssumption DEF N

\* The values of a monitor and an operator with nothing under way.
LEMMA NothingUnderWay ==
    /\ NoPass \in Passes /\ NoPass.at = "idle"
    /\ NoAnswer \in Replies /\ NoAnswer.at = "idle"
<1>1. 0 \in 0 .. MaxContract
  BY NIsNatural
<1>2. NoPass \in Passes /\ NoPass.at = "idle"
  BY Zenon, <1>1 DEF NoPass, Passes
<1>3. NoAnswer \in Replies /\ NoAnswer.at = "idle"
  BY Zenon, <1>1 DEF NoAnswer, Replies
<1> QED
  BY Zenon, <1>2, <1>3

\* Before the first question the invariant holds.
LEMMA QuestionsInitHolds == QuestionsInit => QuestionsInv
<1> SUFFICES ASSUME QuestionsInit PROVE QuestionsInv
  BY Zenon
<1>1. 1 \in 1 .. MaxContract /\ 0 \in 0 .. N
  BY NIsNatural, QuestionsAssumption
<1>2. QuestionsTyped
  BY Zenon, <1>1, NothingUnderWay DEF QuestionsInit, QuestionsTyped
<1>3. BoundaryInv
  BY <1>1 DEF QuestionsInit, BoundaryInv
<1>4. PassInv /\ AnswerInv
  BY Zenon, NothingUnderWay DEF QuestionsInit, PassInv, AnswerInv
<1> QED
  BY Zenon, <1>2, <1>3, <1>4 DEF QuestionsInv

\* Rulings are only ever added.
LEMMA BoundGrows ==
    ASSUME ruling \subseteq ruling', NEW v, NEW q \in BoundTo(v) PROVE q \in BoundTo(v)'
  BY Zenon DEF BoundTo

\* A step that leaves the monitor pass, the boundary, the version and the answers alone, and
\* takes no question out of durable state.
LEMMA StaysTracked ==
    ASSUME QuestionsInv, QuestionsTyped', UNCHANGED <<ver, upto>>, asked <= asked',
           asked' \in Nat, mon' = mon \/ mon'.at = "idle", ruling \subseteq ruling',
           \A q \in Questions : q \in asks \cup tasks \cup retired => q \in asks' \cup tasks' \cup retired',
           \A q \in Questions : (answer'[q] = "none" <=> answer[q] = "none")
    PROVE  QuestionsInv'
<1>1. asked \in Nat /\ upto[ver] \in Nat /\ asked <= N /\ N \in Nat
  BY NIsNatural DEF QuestionsInv, QuestionsTyped
<1>2. \A q \in 1 .. asked : q \in Questions
  BY <1>1 DEF Questions
<1>3. \A q \in 1 .. asked : Tracked(q) => Tracked(q)'
  BY Zenon, <1>2 DEF Tracked
<1>4. BoundaryInv'
  BY <1>1, <1>3 DEF QuestionsInv, BoundaryInv
<1>5. PassInv'
  <2>1. CASE mon'.at = "idle"
    BY Zenon, <2>1 DEF PassInv
  <2>2. CASE mon' = mon /\ mon.at # "idle"
    <3>1. /\ mon.v \in 1 .. ver /\ mon.to <= asked /\ mon.q >= 1 /\ mon.mark < mon.q
          /\ mon.at = "mark" => mon.q = mon.to + 1
          /\ mon.at # "mark" => mon.q <= mon.to
          /\ mon.log \subseteq BoundTo(mon.v)
          /\ mon.v = ver => \A q \in 1 .. asked : q < mon.q => Tracked(q)
          /\ mon.v = ver /\ mon.at = "hold" => Tracked(mon.q)
      BY Zenon, <2>2 DEF QuestionsInv, PassInv
    <3>2. mon.q \in Nat /\ mon.to \in Nat /\ mon.to <= asked'
      BY <1>1, <3>1 DEF QuestionsInv, QuestionsTyped, Passes
    <3>3. \A q \in mon.log : \E r \in ruling' : r.v = mon.v /\ q \in r.asks
      BY Zenon, <3>1 DEF BoundTo
    <3>a. (mon.log \subseteq BoundTo(mon.v))'
      BY Zenon, <2>2, <3>3 DEF BoundTo
    <3>b. mon.at \in {"question", "hold", "mark"}
      BY Zenon, <2>2 DEF QuestionsInv, QuestionsTyped, Passes
    <3>4. \A q \in 1 .. asked' : q < mon.q => q \in 1 .. asked
      BY <1>1, <3>1, <3>2, <3>b
    <3>5. mon.at = "hold" => mon.q \in 1 .. asked
      BY <1>1, <3>1, <3>2
    <3>6. (mon.v = ver => \A q \in 1 .. asked : q < mon.q => Tracked(q))'
      BY Zenon, <1>3, <2>2, <3>1, <3>4
    <3>7. (mon.v = ver /\ mon.at = "hold" => Tracked(mon.q))'
      BY Zenon, <1>3, <2>2, <3>1, <3>5 DEF Tracked
    <3> QED
      BY Zenon, <2>2, <3>1, <3>2, <3>a, <3>6, <3>7 DEF PassInv
  <2> QED
    BY Zenon, <2>1, <2>2
<1>6. AnswerInv'
  BY Zenon, BoundGrows DEF QuestionsInv, AnswerInv
<1> QED
  BY Zenon, <1>4, <1>5, <1>6 DEF QuestionsInv

\* A lane asks.
LEMMA AskKeeps == ASSUME QuestionsInv, Ask PROVE QuestionsInv'
<1>1. /\ asked' = asked + 1 /\ asked' \in Nat /\ asked <= asked' /\ asked' \in 0 .. N
      /\ UNCHANGED <<asks, tasks, ver, upto, ruling, answer, retired, mon, oper>>
  BY NIsNatural DEF Ask, QuestionsInv, QuestionsTyped
<1>2. QuestionsTyped'
  BY Zenon, <1>1 DEF QuestionsInv, QuestionsTyped
<1> QED
  BY Zenon, <1>1, <1>2, StaysTracked

\* A monitor pass begins: what is before its window is in durable state.
LEMMA MonBeginKeeps == ASSUME QuestionsInv, MonBegin PROVE QuestionsInv'
<1>1. /\ Unread(ver) # {} /\ mon' = Window(ver)
      /\ UNCHANGED <<asks, tasks, ver, asked, upto, ruling, answer, retired, oper>>
  BY Zenon DEF MonBegin
<1>2. asked \in Nat /\ upto[ver] \in Nat /\ ver \in 1 .. MaxContract /\ MaxContract \in Nat
  BY NIsNatural DEF QuestionsInv, QuestionsTyped
<1>3. upto[ver] + 1 <= asked /\ upto[ver] + 1 \in Nat /\ ver \in 0 .. MaxContract /\ ver \in 1 .. ver
  BY <1>1, <1>2 DEF Unread
<1>4. BoundTo(ver) \in SUBSET Questions
  BY DEF QuestionsInv, QuestionsTyped, BoundTo, Rulings
<1> DEFINE w == Window(ver)
<1>5. /\ w \in Passes /\ w.at = "question" /\ w.q = upto[ver] + 1 /\ w.v = ver /\ w.log = BoundTo(ver)
      /\ w.mark = upto[ver] /\ w.to = asked
  BY Zenon, <1>2, <1>3, <1>4 DEF Window, Passes
<1> HIDE DEF w
<1>6. mon' = w
  BY Zenon, <1>1 DEF w
<1>7. QuestionsTyped'
  BY Zenon, <1>1, <1>5, <1>6 DEF QuestionsInv, QuestionsTyped
<1>8. BoundaryInv' /\ AnswerInv'
  BY Zenon, <1>1 DEF QuestionsInv, BoundaryInv, AnswerInv, Tracked, BoundTo
<1>9. (\A q \in 1 .. asked : q < mon.q => Tracked(q))'
  <2>1. \A q \in 1 .. asked : q < upto[ver] + 1 => q <= upto[ver]
    BY <1>2
  <2> QED
    BY Zenon, <1>1, <1>5, <1>6, <2>1 DEF QuestionsInv, BoundaryInv, Tracked
<1>10. (mon.log \subseteq BoundTo(mon.v))'
  BY Zenon, <1>1, <1>5, <1>6 DEF BoundTo
<1>11. PassInv'
  <2>1. upto[ver] < upto[ver] + 1 /\ upto[ver] + 1 >= 1 /\ asked <= asked
    BY <1>2
  <2> QED
    BY Zenon, <1>1, <1>3, <1>5, <1>6, <1>9, <1>10, <2>1 DEF PassInv
<1> QED
  BY Zenon, <1>7, <1>8, <1>11 DEF QuestionsInv

\* What a pass remembers after one more question.
LEMMA HandledIs ==
    ASSUME mon \in Passes, NEW done \in BOOLEAN, mon.mark < mon.q
    PROVE  LET x == Handled(done)
           IN  /\ x \in Passes /\ x.q = mon.q + 1 /\ x.v = mon.v /\ x.log = mon.log /\ x.to = mon.to
               /\ x.at = IF mon.q = mon.to THEN "mark" ELSE "question"
               /\ x.mark < x.q
<1> DEFINE at == IF mon.q = mon.to THEN "mark" ELSE "question"
           q == mon.q + 1
           mark == IF done /\ mon.whole THEN mon.q ELSE mon.mark
           whole == mon.whole /\ done
           x == [mon EXCEPT !.at = at, !.q = q, !.mark = mark, !.whole = whole]
<1>1. at \in {"mark", "question"} /\ q \in Nat /\ mark \in Nat /\ mark < q
  BY DEF Passes
<1>2. whole \in BOOLEAN
  BY Zenon
<1>3. Handled(done) = x
  BY Zenon DEF Handled
<1> HIDE DEF at, q, mark, whole
<1>4. x \in Passes /\ x.q = q /\ x.v = mon.v /\ x.log = mon.log /\ x.to = mon.to /\ x.at = at /\ x.mark = mark
  BY Zenon, <1>1, <1>2 DEF Passes
<1> HIDE DEF x
<1> QED
  BY Zenon, <1>1, <1>3, <1>4 DEF at, q

\* The pass goes on past a question that is in durable state.
LEMMA GoesOn ==
    ASSUME QuestionsInv, mon.at \in {"question", "hold"}, NEW x \in Passes, mon' = x,
           x.q = mon.q + 1, x.v = mon.v, x.log = mon.log, x.to = mon.to, x.mark < x.q,
           x.at = IF mon.q = mon.to THEN "mark" ELSE "question",
           UNCHANGED <<ver, asked, upto, ruling, retired, oper>>,
           asks' \in SUBSET Questions, tasks' \in SUBSET Questions, asks \subseteq asks', tasks \subseteq tasks',
           answer' \in [Questions -> {"none", "queued", "sent", "taken", "rejected", "failed"}],
           \A q \in Questions : answer[q] # "none" => answer'[q] # "none",
           mon.v = ver => mon.q \in asks' \cup tasks' \cup retired' \/ answer'[mon.q] # "none",
           AnswerInv'
    PROVE  QuestionsInv'
<1>1. /\ mon.q \in Nat /\ mon.to \in Nat /\ mon.v \in 1 .. ver /\ mon.to <= asked /\ mon.q >= 1 /\ mon.q <= mon.to
      /\ asked \in Nat /\ asked <= N /\ N \in Nat /\ mon.log \subseteq BoundTo(mon.v)
      /\ mon.v = ver => \A q \in 1 .. asked : q < mon.q => Tracked(q)
  BY NIsNatural DEF QuestionsInv, QuestionsTyped, Passes, PassInv
<1>2. QuestionsTyped'
  BY Zenon DEF QuestionsInv, QuestionsTyped
<1>3. \A q \in 1 .. asked : q \in Questions
  BY <1>1 DEF Questions
<1>4. \A q \in 1 .. asked : Tracked(q) => Tracked(q)'
  BY Zenon, <1>3 DEF Tracked
<1>5. BoundaryInv'
  BY Zenon, <1>4 DEF QuestionsInv, BoundaryInv
<1>6. (mon.v = ver => \A q \in 1 .. asked : q < mon.q => Tracked(q))'
  <2>1. \A q \in 1 .. asked : q < mon.q + 1 => q < mon.q \/ q = mon.q
    BY <1>1
  <2>2. mon.v = ver => \A q \in 1 .. asked : q < mon.q + 1 => Tracked(q)'
    <3> SUFFICES ASSUME mon.v = ver, NEW q \in 1 .. asked, q < mon.q + 1 PROVE Tracked(q)'
      BY Zenon
    <3>1. CASE q < mon.q
      BY Zenon, <1>1, <1>4, <3>1
    <3>2. CASE q = mon.q
      BY Zenon, <3>2 DEF Tracked
    <3> QED
      BY Zenon, <2>1, <3>1, <3>2
  <2> QED
    BY Zenon, <2>2
<1>7. (mon.log \subseteq BoundTo(mon.v))'
  BY Zenon, <1>1 DEF BoundTo
<1>8. PassInv'
  <2>1. x.at = "mark" => x.q = x.to + 1
    BY Zenon, <1>1
  <2>2. x.at # "mark" => x.q <= x.to
    BY <1>1
  <2>3. x.q >= 1 /\ x.at # "hold"
    BY <1>1
  <2> QED
    BY Zenon, <1>1, <1>6, <1>7, <2>1, <2>2, <2>3 DEF PassInv
<1> QED
  BY Zenon, <1>2, <1>5, <1>8 DEF QuestionsInv

\* The question a pass works on is one that was asked.
LEMMA MonInWindow ==
    ASSUME QuestionsInv, mon.at \in {"question", "hold"}
    PROVE  mon \in Passes /\ mon.mark < mon.q /\ mon.q \in Questions
<1>1. /\ mon \in Passes /\ mon.q \in Nat /\ mon.to \in Nat /\ mon.to <= asked /\ mon.q >= 1 /\ mon.q <= mon.to
      /\ asked \in Nat /\ asked <= N /\ N \in Nat /\ mon.mark < mon.q
  BY NIsNatural DEF QuestionsInv, QuestionsTyped, Passes, PassInv
<1> QED
  BY <1>1 DEF Questions

\* A question is left to the residual, or held.
LEMMA MonHandlesKeeps == ASSUME QuestionsInv, MonResidual \/ MonHold PROVE QuestionsInv'
<1> DEFINE x == Handled(TRUE)
<1>1. /\ mon.at \in {"question", "hold"} /\ mon' = x
      /\ UNCHANGED <<asks, ver, asked, upto, ruling, answer, retired, oper>>
      /\ tasks \subseteq tasks' /\ tasks' \subseteq tasks \cup {mon.q}
      /\ mon.at = "question" => mon.q \in tasks'
  BY Zenon DEF MonResidual, MonHold
<1>2. mon \in Passes /\ mon.mark < mon.q /\ mon.q \in Questions
  BY Zenon, <1>1, MonInWindow
<1>3. /\ x \in Passes /\ x.q = mon.q + 1 /\ x.v = mon.v /\ x.log = mon.log /\ x.to = mon.to /\ x.mark < x.q
      /\ x.at = IF mon.q = mon.to THEN "mark" ELSE "question"
  BY Zenon, <1>2, HandledIs
<1> HIDE DEF x
<1>4. mon.v = ver => (Tracked(mon.q) \/ mon.q \in tasks')
  BY Zenon, <1>1 DEF QuestionsInv, PassInv
<1>5. mon.v = ver => mon.q \in asks' \cup tasks' \cup retired' \/ answer'[mon.q] # "none"
  BY Zenon, <1>1, <1>4 DEF Tracked
<1>6. AnswerInv'
  BY Zenon, <1>1 DEF QuestionsInv, AnswerInv, BoundTo
<1>7. asks' \in SUBSET Questions /\ tasks' \in SUBSET Questions
      /\ answer' \in [Questions -> {"none", "queued", "sent", "taken", "rejected", "failed"}]
  BY Zenon, <1>1, <1>2 DEF QuestionsInv, QuestionsTyped
<1> QED
  BY Zenon, <1>1, <1>3, <1>5, <1>6, <1>7, GoesOn DEF Tracked

\* An ask is on the ledger before the goal is held for it.
LEMMA MonAskKeeps == ASSUME QuestionsInv, MonAsk PROVE QuestionsInv'
<1> DEFINE x == [mon EXCEPT !.at = "hold"]
<1>1. /\ mon.at = "question" /\ mon' = x /\ asks' = asks \cup {mon.q}
      /\ UNCHANGED <<tasks, ver, asked, upto, ruling, answer, retired, oper>>
  BY Zenon DEF MonAsk
<1>2. mon \in Passes /\ mon.mark < mon.q /\ mon.q \in Questions
  BY Zenon, <1>1, MonInWindow
<1>3. /\ x \in Passes /\ x.at = "hold" /\ x.q = mon.q /\ x.v = mon.v /\ x.log = mon.log /\ x.to = mon.to
      /\ x.mark = mon.mark
  BY Zenon, <1>2 DEF Passes
<1> HIDE DEF x
<1>4. QuestionsTyped'
  BY Zenon, <1>1, <1>2, <1>3 DEF QuestionsInv, QuestionsTyped
<1>5. \A q : Tracked(q) => Tracked(q)'
  BY Zenon, <1>1 DEF Tracked
<1>6. BoundaryInv'
  BY Zenon, <1>1, <1>5 DEF QuestionsInv, BoundaryInv
<1>7. AnswerInv'
  BY Zenon, <1>1 DEF QuestionsInv, AnswerInv, BoundTo
<1>8. (mon.log \subseteq BoundTo(mon.v))'
  BY Zenon, <1>1, <1>3 DEF QuestionsInv, PassInv, BoundTo
<1>9. Tracked(mon.q)'
  BY Zenon, <1>1, <1>3 DEF Tracked
<1>10. (mon.v = ver => \A q \in 1 .. asked : q < mon.q => Tracked(q))'
  BY Zenon, <1>1, <1>3, <1>5 DEF QuestionsInv, PassInv
<1>11. PassInv'
  BY Zenon, <1>1, <1>3, <1>8, <1>9, <1>10 DEF QuestionsInv, PassInv
<1> QED
  BY Zenon, <1>4, <1>6, <1>7, <1>11 DEF QuestionsInv

\* An answer is settled by the contract, or by a ruling in the log, and not protected.
LEMMA AnsweredIsSettled ==
    ASSUME NEW q \in Questions, NEW log, Disposition(q, log) = "answered"
    PROVE  Class[q] # "protected" /\ (Class[q] = "contract" \/ q \in log)
  BY Zenon DEF Disposition, Authority, Uses, Granted, ByContract, Ruled

\* A question is answered from the contract.
LEMMA MonAnswerKeeps == ASSUME QuestionsInv, MonAnswer PROVE QuestionsInv'
<1> DEFINE done == mon.v = ver /\ answer[mon.q] = "taken"
           x == Handled(done)
           st == IF mon.v = ver /\ answer[mon.q] \in {"none", "failed"} THEN "queued" ELSE answer[mon.q]
<1>1. /\ mon.at \in {"question", "hold"} /\ mon.at # "idle" /\ Disposition(mon.q, mon.log) = "answered" /\ mon' = x
      /\ answer' = [answer EXCEPT ![mon.q] = st]
      /\ UNCHANGED <<asks, tasks, ver, asked, upto, ruling, retired, oper>>
  BY Zenon DEF MonAnswer
<1>2. mon \in Passes /\ mon.mark < mon.q /\ mon.q \in Questions
  BY Zenon, <1>1, MonInWindow
<1>3. done \in BOOLEAN
  BY Zenon
<1> HIDE DEF done
<1>4. /\ x \in Passes /\ x.q = mon.q + 1 /\ x.v = mon.v /\ x.log = mon.log /\ x.to = mon.to /\ x.mark < x.q
      /\ x.at = IF mon.q = mon.to THEN "mark" ELSE "question"
  BY Zenon, <1>2, <1>3, HandledIs
<1> HIDE DEF x
<1>5. answer \in [Questions -> {"none", "queued", "sent", "taken", "rejected", "failed"}]
  BY Zenon DEF QuestionsInv, QuestionsTyped
<1>6. /\ st \in {"none", "queued", "sent", "taken", "rejected", "failed"}
      /\ mon.v = ver => st # "none"
      /\ answer[mon.q] # "none" => st # "none"
      /\ st # "none" => mon.v = ver \/ answer[mon.q] # "none"
  BY Zenon, <1>2, <1>5
<1> HIDE DEF st
<1>7. /\ answer' \in [Questions -> {"none", "queued", "sent", "taken", "rejected", "failed"}]
      /\ \A q \in Questions : answer[q] # "none" => answer'[q] # "none"
      /\ answer'[mon.q] = st
      /\ \A q \in Questions : q # mon.q => answer'[q] = answer[q]
  BY Zenon, <1>1, <1>2, <1>5, <1>6
<1>8. Class[mon.q] # "protected" /\ (Class[mon.q] = "contract" \/ mon.q \in BoundTo(mon.v))
  BY Zenon, <1>1, <1>2, AnsweredIsSettled DEF QuestionsInv, PassInv
<1>9. AnswerInv'
  <2> SUFFICES ASSUME NEW q \in Questions, answer'[q] # "none"
               PROVE  Class[q] # "protected" /\ (Class[q] = "contract" \/ q \in BoundTo(ver))
    BY Zenon, <1>1 DEF AnswerInv, BoundTo
  <2>1. CASE answer[q] # "none"
    BY Zenon, <2>1 DEF QuestionsInv, AnswerInv
  <2>2. CASE answer[q] = "none"
    BY Zenon, <1>6, <1>7, <1>8, <2>2
  <2> QED
    BY Zenon, <2>1, <2>2
<1>10. mon.v = ver => mon.q \in asks' \cup tasks' \cup retired' \/ answer'[mon.q] # "none"
  BY Zenon, <1>6, <1>7
<1>11. asks' \in SUBSET Questions /\ tasks' \in SUBSET Questions /\ asks \subseteq asks' /\ tasks \subseteq tasks'
  BY Zenon, <1>1 DEF QuestionsInv, QuestionsTyped
<1> QED
  BY Zenon, <1>1, <1>4, <1>7, <1>9, <1>10, <1>11, GoesOn

\* The boundary moves only over questions the pass has put in durable state.
LEMMA MonMarkKeeps == ASSUME QuestionsInv, MonMark PROVE QuestionsInv'
<1>1. PICK b \in {mon.mark, mon.to} : upto' = [upto EXCEPT ![mon.v] = b]
  BY Zenon DEF MonMark
<1>2. /\ mon.at = "mark" /\ mon.at # "idle" /\ mon' = NoPass
      /\ UNCHANGED <<asks, tasks, ver, asked, ruling, answer, retired, oper>>
  BY Zenon DEF MonMark
<1>3. /\ mon.v \in 1 .. ver /\ mon.to <= asked /\ mon.mark < mon.q /\ mon.q = mon.to + 1
      /\ mon.v = ver => \A q \in 1 .. asked : q < mon.q => Tracked(q)
  BY Zenon, <1>2 DEF QuestionsInv, PassInv
<1>4. /\ mon.mark \in Nat /\ mon.to \in Nat /\ asked \in Nat /\ ver \in 1 .. MaxContract /\ MaxContract \in Nat
      /\ upto \in [1 .. MaxContract -> Nat]
  BY NIsNatural DEF QuestionsInv, QuestionsTyped, Passes
<1>5. b \in Nat /\ b < mon.q /\ b <= asked /\ mon.v \in 1 .. MaxContract
  BY <1>1, <1>3, <1>4
<1>6. QuestionsTyped'
  BY Zenon, <1>1, <1>2, <1>4, <1>5, NothingUnderWay DEF QuestionsInv, QuestionsTyped
<1>7. PassInv' /\ AnswerInv'
  BY Zenon, <1>2, NothingUnderWay DEF QuestionsInv, PassInv, AnswerInv, BoundTo
<1>8. BoundaryInv'
  <2>1. \A v \in 1 .. MaxContract : upto'[v] = IF v = mon.v THEN b ELSE upto[v]
    BY Zenon, <1>1, <1>4, <1>5
  <2>2. \A v \in 1 .. MaxContract : v > ver => v # mon.v
    BY <1>3, <1>4
  <2>3. upto[ver] <= asked /\ (\A v \in 1 .. MaxContract : v > ver => upto[v] = 0)
        /\ (\A q \in 1 .. asked : q <= upto[ver] => Tracked(q))
    BY Zenon DEF QuestionsInv, BoundaryInv
  <2>4. upto'[ver] <= asked
    BY Zenon, <1>4, <1>5, <2>1, <2>3
  <2>5. \A v \in 1 .. MaxContract : v > ver => upto'[v] = 0
    BY Zenon, <2>1, <2>2, <2>3
  <2>6. \A q \in 1 .. asked : q <= upto'[ver] => Tracked(q)
    <3>1. CASE mon.v = ver
      <4>1. upto'[ver] = b
        BY Zenon, <1>4, <2>1, <3>1
      <4>2. mon.q \in Nat
        BY <1>3, <1>4
      <4>3. \A q \in 1 .. asked : q <= b => q < mon.q
        BY <1>5, <4>2
      <4> QED
        BY Zenon, <1>3, <3>1, <4>1, <4>3
    <3>2. CASE mon.v # ver
      BY Zenon, <1>4, <2>1, <2>3, <3>2
    <3> QED
      BY Zenon, <3>1, <3>2
  <2> QED
    BY Zenon, <1>2, <2>4, <2>5, <2>6 DEF BoundaryInv, Tracked
<1> QED
  BY Zenon, <1>6, <1>7, <1>8 DEF QuestionsInv

\* The operator's reply under way, as one step of record_operator_answer leaves it.
LEMMA ReplyGoesOn ==
    ASSUME QuestionsInv, NEW at \in {"rule", "retire", "relay", "look", "resume", "requeue"},
           oper.at \in {"rule", "retire", "relay"} \/ at \in {"look", "resume", "requeue"}
    PROVE  LET x == [oper EXCEPT !.at = at]
           IN  /\ x \in Replies
               /\ x.at \in {"rule", "retire", "relay"} => x.v \in 1 .. MaxContract /\ x.text \in AnswerTexts
<1> DEFINE x == [oper EXCEPT !.at = at]
<1>1. oper \in Replies /\ (oper.at \in {"rule", "retire", "relay"} => oper.v \in 1 .. MaxContract /\ oper.text \in AnswerTexts)
  BY Zenon DEF QuestionsInv, QuestionsTyped
<1>2. x \in Replies /\ x.at = at /\ x.v = oper.v /\ x.text = oper.text
  BY Zenon, <1>1 DEF Replies
<1> HIDE DEF x
<1>3. x.at \in {"rule", "retire", "relay"} => x.v \in 1 .. MaxContract /\ x.text \in AnswerTexts
  BY Zenon, <1>1, <1>2
<1> QED
  BY Zenon, <1>2, <1>3 DEF x

\* The operator starts an answer.
LEMMA OperBeginKeeps == ASSUME QuestionsInv, NEW t \in AnswerTexts, OperBegin(t) PROVE QuestionsInv'
<1> DEFINE x == [at |-> "rule", text |-> t, v |-> ver, asks |-> asks, tasks |-> tasks]
<1>1. oper' = x /\ UNCHANGED <<asks, tasks, ver, asked, upto, ruling, answer, retired, mon>>
  BY Zenon DEF OperBegin
<1>2. ver \in 1 .. MaxContract /\ ver \in 0 .. MaxContract /\ asks \in SUBSET Questions /\ tasks \in SUBSET Questions
      /\ asked \in Nat
  BY NIsNatural DEF QuestionsInv, QuestionsTyped
<1>3. x \in Replies /\ x.v = ver /\ x.text = t
  BY Zenon, <1>2 DEF Replies
<1> HIDE DEF x
<1>4. QuestionsTyped'
  BY Zenon, <1>1, <1>2, <1>3 DEF QuestionsInv, QuestionsTyped
<1> QED
  BY <1>1, <1>2, <1>4, StaysTracked

\* The ruling is appended to the contract.
LEMMA OperRuleKeeps == ASSUME QuestionsInv, OperRule PROVE QuestionsInv'
<1> DEFINE x == [oper EXCEPT !.at = "retire"]
           r == [v |-> oper.v, text |-> oper.text, asks |-> oper.asks]
<1>1. /\ oper.at = "rule" /\ oper' = x /\ (ruling' = ruling \/ ruling' = ruling \cup {r})
      /\ UNCHANGED <<asks, tasks, ver, asked, upto, answer, retired, mon>>
  BY Zenon DEF OperRule
<1>2. x \in Replies /\ (x.at \in {"rule", "retire", "relay"} => x.v \in 1 .. MaxContract /\ x.text \in AnswerTexts)
  BY Zenon, <1>1, ReplyGoesOn
<1> HIDE DEF x
<1>2a. oper.v \in 1 .. MaxContract /\ oper.text \in AnswerTexts
  BY Zenon, <1>1 DEF QuestionsInv, QuestionsTyped
<1>3. oper.v \in 1 .. MaxContract /\ oper.text \in AnswerTexts /\ oper.asks \in SUBSET Questions /\ asked \in Nat
  <2>1. oper \in Replies /\ asked \in Nat
    BY NIsNatural DEF QuestionsInv, QuestionsTyped
  <2>2. oper.asks \in SUBSET Questions
    BY Zenon, <2>1 DEF Replies
  <2> QED
    BY Zenon, <1>2a, <2>1, <2>2
<1>4. r \in Rulings
  BY Zenon, <1>3 DEF Rulings
<1> HIDE DEF r
<1>5. QuestionsTyped' /\ ruling \subseteq ruling'
  BY Zenon, <1>1, <1>2, <1>4 DEF QuestionsInv, QuestionsTyped
<1> QED
  BY <1>1, <1>3, <1>5, StaysTracked

\* What a reply takes out of the ledger is retired by it.
LEMMA OperRetireKeeps == ASSUME QuestionsInv, OperRetire PROVE QuestionsInv'
<1> DEFINE x == [oper EXCEPT !.at = "relay"]
<1>1. /\ oper.at = "retire" /\ oper' = x /\ asks' = asks \ oper.asks /\ tasks' = tasks \ oper.tasks
      /\ retired' = retired \cup (asks \cap oper.asks) \cup (tasks \cap oper.tasks)
      /\ UNCHANGED <<ver, asked, upto, ruling, answer, mon>>
  BY Zenon DEF OperRetire
<1>2. x \in Replies /\ (x.at \in {"rule", "retire", "relay"} => x.v \in 1 .. MaxContract /\ x.text \in AnswerTexts)
  BY Zenon, <1>1, ReplyGoesOn
<1> HIDE DEF x
<1>3. QuestionsTyped' /\ asked \in Nat
  BY <1>1, <1>2, NIsNatural DEF QuestionsInv, QuestionsTyped
<1>4. \A q \in Questions : q \in asks \cup tasks \cup retired => q \in asks' \cup tasks' \cup retired'
  BY Zenon, <1>1
<1> QED
  BY <1>1, <1>3, <1>4, StaysTracked

\* The rest of the answer, and its end in a crash.
LEMMA ReplyKeeps ==
    ASSUME QuestionsInv, OperRelay \/ OperLook \/ OperResume \/ OperRequeue \/ OperCrash
    PROVE  QuestionsInv'
<1>1. UNCHANGED <<asks, tasks, ver, asked, upto, ruling, answer, retired, mon>>
  BY Zenon DEF OperRelay, OperLook, OperResume, OperRequeue, OperCrash
<1>2. PICK at \in {"look", "resume", "requeue"} : oper' = [oper EXCEPT !.at = at] \/ oper' = NoAnswer
  BY Zenon DEF OperRelay, OperLook, OperResume, OperRequeue, OperCrash
<1>3. oper' \in Replies /\ (oper'.at \in {"rule", "retire", "relay"} => oper'.v \in 1 .. MaxContract /\ oper'.text \in AnswerTexts)
  BY Zenon, <1>2, ReplyGoesOn, NothingUnderWay
<1>4. QuestionsTyped' /\ asked \in Nat
  BY <1>1, <1>3, NIsNatural DEF QuestionsInv, QuestionsTyped
<1> QED
  BY <1>1, <1>4, StaysTracked

\* An answer reaches the lane.
LEMMA DeliveryKeeps ==
    ASSUME QuestionsInv, NEW q \in Questions, DeliverAnswer(q) \/ TakeAnswer(q)
    PROVE  QuestionsInv'
<1>1. /\ answer[q] \in {"queued", "sent"}
      /\ UNCHANGED <<asks, tasks, ver, asked, upto, ruling, retired, mon, oper>>
  BY Zenon DEF DeliverAnswer, TakeAnswer
<1>2. PICK a \in {"sent", "taken", "rejected", "failed"} : answer' = [answer EXCEPT ![q] = a]
  BY Zenon DEF DeliverAnswer, TakeAnswer
<1>3. answer \in [Questions -> {"none", "queued", "sent", "taken", "rejected", "failed"}] /\ asked \in Nat
  BY NIsNatural DEF QuestionsInv, QuestionsTyped
<1>4. answer' \in [Questions -> {"none", "queued", "sent", "taken", "rejected", "failed"}]
      /\ \A p \in Questions : answer'[p] = "none" <=> answer[p] = "none"
  BY Zenon, <1>1, <1>2, <1>3
<1>5. QuestionsTyped'
  BY Zenon, <1>1, <1>4 DEF QuestionsInv, QuestionsTyped
<1> QED
  BY <1>1, <1>3, <1>4, <1>5, StaysTracked

\* Steps that touch neither the questions nor the answers.
LEMMA ElsewhereKeeps ==
    ASSUME QuestionsInv,
           UNCHANGED <<asks, tasks, ver, asked, upto, ruling, answer, retired, oper>>,
           mon' = mon \/ mon' = NoPass
    PROVE  QuestionsInv'
<1>1. QuestionsTyped' /\ asked \in Nat
  BY NothingUnderWay, NIsNatural DEF QuestionsInv, QuestionsTyped
<1> QED
  BY <1>1, NothingUnderWay, StaysTracked

\* A new goal version has no boundary and no answers, and no pass reads it yet.
LEMMA RedirectKeeps == ASSUME QuestionsInv, Redirect PROVE QuestionsInv'
<1>1. /\ ver < MaxContract /\ ver' = ver + 1 /\ tasks' = {} /\ answer' = [q \in Questions |-> "none"]
      /\ UNCHANGED <<asks, asked, upto, ruling, retired, mon, oper>>
  BY Zenon DEF Redirect
<1>2. /\ ver \in Nat /\ MaxContract \in Nat /\ ver >= 1 /\ asked \in Nat
  BY NIsNatural DEF QuestionsInv, QuestionsTyped
<1>3. ver' \in 1 .. MaxContract /\ ver' > ver
  BY <1>1, <1>2
<1>4. QuestionsTyped'
  BY Zenon, <1>1, <1>3 DEF QuestionsInv, QuestionsTyped
<1>5. AnswerInv'
  BY Zenon, <1>1 DEF AnswerInv
<1>6. upto'[ver'] = 0 /\ \A v \in 1 .. MaxContract : v > ver' => upto'[v] = 0
  <2>1. \A v \in 1 .. MaxContract : v > ver' => v > ver
    BY <1>1, <1>2
  <2> QED
    BY Zenon, <1>1, <1>3, <2>1 DEF QuestionsInv, BoundaryInv
<1>7. BoundaryInv'
  <2>1. \A q \in 1 .. asked : ~(q <= 0)
    BY <1>2
  <2> QED
    BY <1>1, <1>2, <1>6, <2>1 DEF BoundaryInv
<1>8. PassInv'
  <2> SUFFICES ASSUME mon.at # "idle" PROVE PassInv'
    BY Zenon, <1>1 DEF PassInv
  <2>1. mon.v \in 1 .. ver
    BY Zenon DEF QuestionsInv, PassInv
  <2>2. mon.v \in 1 .. ver' /\ mon.v # ver'
    BY <1>1, <1>2, <2>1
  <2>3. (mon.log \subseteq BoundTo(mon.v))'
    BY Zenon, <1>1 DEF QuestionsInv, PassInv, BoundTo
  <2> QED
    BY Zenon, <1>1, <2>2, <2>3 DEF QuestionsInv, PassInv
<1> QED
  BY Zenon, <1>4, <1>5, <1>7, <1>8 DEF QuestionsInv

\* Every step preserves the invariant.
LEMMA QuestionsStep == ASSUME QuestionsInv, [QuestionsNext]_questionsVars PROVE QuestionsInv'
<1>1. CASE UNCHANGED questionsVars
  BY Zenon, <1>1, ElsewhereKeeps DEF questionsVars
<1>2. CASE Ask \/ MonBegin \/ MonResidual \/ MonAsk \/ MonHold \/ MonAnswer \/ MonMark
  BY Zenon, <1>2, AskKeeps, MonBeginKeeps, MonHandlesKeeps, MonAskKeeps, MonAnswerKeeps, MonMarkKeeps
<1>3. CASE MonCrash \/ HoldOther \/ ResumeOther
  BY Zenon, <1>3, ElsewhereKeeps DEF MonCrash, HoldOther, ResumeOther
<1>4. CASE \E t \in AnswerTexts : OperBegin(t)
  BY Zenon, <1>4, OperBeginKeeps
<1>5. CASE OperRule \/ OperRetire \/ OperRelay \/ OperLook \/ OperResume \/ OperRequeue \/ OperCrash
  BY Zenon, <1>5, OperRuleKeeps, OperRetireKeeps, ReplyKeeps
<1>6. CASE \E q \in Questions : DeliverAnswer(q) \/ TakeAnswer(q)
  BY Zenon, <1>6, DeliveryKeeps
<1>7. CASE \E k \in DOMAIN relay : DeliverRelay(k)
  BY Zenon, <1>7, ElsewhereKeeps DEF DeliverRelay
<1>8. CASE Redirect
  BY Zenon, <1>8, RedirectKeeps
<1> QED
  BY Zenon, <1>1, <1>2, <1>3, <1>4, <1>5, <1>6, <1>7, <1>8 DEF QuestionsNext

\* The invariant holds throughout.
LEMMA QuestionsInvariant == QuestionsSpec => []QuestionsInv
<1>1. QuestionsInit => QuestionsInv
  BY Zenon, QuestionsInitHolds
<1>2. QuestionsInv /\ [QuestionsNext]_questionsVars => QuestionsInv'
  BY Zenon, QuestionsStep
<1> QED
  BY <1>1, <1>2, PTL DEF QuestionsSpec

\* No question of a lane is dropped, whatever crashes and however many questions, replies and
\* goal versions there are (handle_agent_question, record_operator_answer).
THEOREM QuestionsStayTracked == QuestionsSpec => []QuestionsAreTracked
<1>1. QuestionsInv => QuestionsAreTracked
  <2> SUFFICES ASSUME QuestionsInv, NEW q \in 1 .. asked PROVE q \in Unread(ver) \/ Tracked(q)
    BY Zenon DEF QuestionsAreTracked, Tracked
  <2>1. asked \in Nat /\ upto[ver] \in Nat
    BY NIsNatural DEF QuestionsInv, QuestionsTyped
  <2>2. q <= upto[ver] => Tracked(q)
    BY Zenon DEF QuestionsInv, BoundaryInv
  <2> QED
    BY <2>1, <2>2 DEF Unread
<1> QED
  BY <1>1, QuestionsInvariant, PTL

\* A lane is only ever told what the contract version in force settles, or the operator ruled on
\* it (question_handler, goal binding of dispatch orders).
THEOREM LanesHearRulings == QuestionsSpec => []AnswersFollowRulings
<1>1. QuestionsInv => AnswersFollowRulings
  BY Zenon DEF QuestionsInv, AnswerInv, AnswersFollowRulings, BoundTo
<1> QED
  BY <1>1, QuestionsInvariant, PTL

-----------------------------------------------------------------------------
\* The lane lifecycle (LaneAnchor).

Points == {"idle", "refresh", "probe", "create", "prove", "capture", "transition", "check", "write",
           "queue", "stop"}
Running == [pc : Points, pending : BOOLEAN, seen : 0 .. MaxTree]
Applications == [state : States \cup {"none"}, tree : 0 .. MaxTree]

AnchorTyped ==
    /\ life \in States \cup {"untracked"} /\ controls \in States \cup {"missing"}
    /\ checkpoint \in 0 .. MaxTree /\ tree \in 0 .. MaxTree
    /\ progress \in [Commands -> Running]
    /\ applied \in [Commands -> Applications]
    /\ records \in Seq(Commands)

\* Every record is that of a request that is known to be applied, and of no other.
OneRecord ==
    /\ \A i \in 1 .. Len(records) : applied[records[i]].state # "none"
    /\ \A i, j \in 1 .. Len(records) : records[i] = records[j] => i = j

\* The file says what the lifecycle says; it is missing only before the first record.
FileFollows == controls = life \/ (controls = "missing" /\ life = "untracked")

Settled == FileFollows /\ (life \in {"active", "paused"} => Len(records) \in queued)

\* What a command that runs alone and has not died finds at its next step.
StepInv(c) ==
    /\ progress[c].pc \notin {"check", "write", "queue"} => Settled
    /\ progress[c].pc = "check" =>
          Settled \/ (life = Target(c) /\ (Target(c) # "active" => controls # "missing"))
    /\ progress[c].pc = "write" => life = Target(c)
    /\ progress[c].pc = "queue" => FileFollows

AloneInv ==
    atOnce = 1 /\ ~crashed =>
        /\ \A c, d \in Commands : progress[c] # NotRunning /\ progress[d] # NotRunning => c = d
        /\ AtRest => Settled
        /\ \A c \in Commands : progress[c] # NotRunning => StepInv(c)

AnchorInv == AnchorTyped /\ OneRecord /\ AloneInv

\* A command aims at a state of the lifecycle.
LEMMA TargetIsState == ASSUME NEW c \in Commands PROVE Target(c) \in States
  BY Zenon, AnchorAssumption DEF Target, States

\* The values of a command that is not running.
LEMMA NotRunningTyped == NotRunning \in Running /\ NotRunning.pc = "idle"
  BY AnchorAssumption DEF NotRunning, Running, Points

\* An untracked lane satisfies the invariant.
LEMMA AnchorInitHolds == AnchorInit => AnchorInv
<1> SUFFICES ASSUME AnchorInit PROVE AnchorInv
  BY Zenon
<1>1. 0 \in 0 .. MaxTree
  BY AnchorAssumption
<1>2. NotApplied \in Applications
  BY Zenon, <1>1 DEF NotApplied, Applications
<1>3. AnchorTyped
  BY <1>1, <1>2, NotRunningTyped DEF AnchorInit, AnchorTyped
<1>4. OneRecord
  BY DEF AnchorInit, OneRecord
<1>5. AloneInv
  BY Zenon DEF AnchorInit, AloneInv, Settled, FileFollows
<1> QED
  BY Zenon, <1>3, <1>4, <1>5 DEF AnchorInv

\* The three things a step does to the command that takes it.
LEMMA GotoIs ==
    ASSUME AnchorTyped, NEW c \in Commands, NEW p \in Points \ {"idle"}, GotoStep(c, p)
    PROVE  /\ progress' \in [Commands -> Running]
           /\ progress'[c].pc = p /\ progress'[c].pending = progress[c].pending
           /\ progress'[c].seen = progress[c].seen /\ progress'[c] # NotRunning
           /\ \A d \in Commands \ {c} : progress'[d] = progress[d]
<1>1. progress \in [Commands -> Running] /\ progress[c] \in Running
  BY Zenon DEF AnchorTyped
<1> DEFINE x == [progress[c] EXCEPT !.pc = p]
<1>2. x \in Running /\ x.pc = p /\ x.pending = progress[c].pending /\ x.seen = progress[c].seen
  BY Zenon, <1>1 DEF Running
<1>3. progress' = [progress EXCEPT ![c] = x]
  BY Zenon, <1>1 DEF GotoStep
<1> HIDE DEF x
<1>4. progress'[c] = x /\ progress' \in [Commands -> Running] /\ \A d \in Commands \ {c} : progress'[d] = progress[d]
  BY Zenon, <1>1, <1>2, <1>3
<1> QED
  BY Zenon, <1>2, <1>4, NotRunningTyped

\* A command moves to its next point.
LEMMA EnterIs ==
    ASSUME AnchorTyped, NEW c \in Commands, NEW p \in Points \ {"idle"}, NEW b \in BOOLEAN, Enter(c, p, b)
    PROVE  /\ progress' \in [Commands -> Running]
           /\ progress'[c].pc = p /\ progress'[c] # NotRunning
           /\ \A d \in Commands \ {c} : progress'[d] = progress[d]
<1> DEFINE x == [NotRunning EXCEPT !.pc = p, !.pending = b]
<1>1. x \in Running /\ x.pc = p
  BY Zenon, NotRunningTyped DEF Running
<1>2. progress' = [progress EXCEPT ![c] = x] /\ progress \in [Commands -> Running]
  BY Zenon DEF Enter, AnchorTyped
<1> HIDE DEF x
<1> QED
  BY Zenon, <1>1, <1>2, NotRunningTyped

\* A command ends.
LEMMA EndIs ==
    ASSUME AnchorTyped, NEW c \in Commands, End(c)
    PROVE  /\ progress' \in [Commands -> Running]
           /\ progress'[c] = NotRunning
           /\ \A d \in Commands \ {c} : progress'[d] = progress[d]
  BY Zenon, NotRunningTyped DEF End, AnchorTyped

\* A step of a command that is running keeps what is said of commands that run alone when it
\* leaves that command at rest and settled, or at a point whose condition holds.
LEMMA StepKeepsAlone ==
    ASSUME AnchorInv, NEW c \in Commands, progress[c] # NotRunning,
           UNCHANGED <<atOnce, crashed>>,
           \A d \in Commands \ {c} : progress'[d] = progress[d],
           atOnce = 1 /\ ~crashed =>
               IF progress'[c] = NotRunning THEN Settled' ELSE StepInv(c)'
    PROVE  AloneInv'
<1> SUFFICES ASSUME atOnce = 1, ~crashed
             PROVE  /\ \A a, d \in Commands : progress'[a] # NotRunning /\ progress'[d] # NotRunning => a = d
                    /\ AtRest' => Settled'
                    /\ \A a \in Commands : progress'[a] # NotRunning => StepInv(a)'
  BY Zenon DEF AloneInv
<1>1. \A d \in Commands : d # c => progress[d] = NotRunning
  BY Zenon DEF AnchorInv, AloneInv
<1>2. \A d \in Commands : d # c => progress'[d] = NotRunning
  BY Zenon, <1>1
<1>3. AtRest' => progress'[c] = NotRunning
  BY Zenon DEF AtRest
<1> QED
  BY Zenon, <1>2, <1>3

\* A command begins alone, when the lane is at rest.
LEMMA BeginKeepsAlone ==
    ASSUME AnchorInv, NEW c \in Commands, progress[c] = NotRunning,
           Room,
           UNCHANGED <<atOnce, crashed, life, controls, records, queued>>,
           \A d \in Commands \ {c} : progress'[d] = progress[d],
           progress'[c] # NotRunning, progress'[c].pc \in {"refresh", "probe", "capture"}
    PROVE  AloneInv'
<1> SUFFICES ASSUME atOnce = 1, ~crashed
             PROVE  /\ \A a, d \in Commands : progress'[a] # NotRunning /\ progress'[d] # NotRunning => a = d
                    /\ AtRest' => Settled'
                    /\ \A a \in Commands : progress'[a] # NotRunning => StepInv(a)'
  BY Zenon DEF AloneInv
<1>1. PICK others \in [1 .. (atOnce - 1) -> Commands] : \A d \in Commands : progress[d] # NotRunning => d \in Range(others)
  BY Zenon DEF Room
<1>2. DOMAIN others = 1 .. (atOnce - 1) /\ 1 .. (atOnce - 1) = {}
  BY <1>1
<1>3. Range(others) = {}
  BY Zenon, <1>2 DEF Range
<1>4. AtRest
  BY Zenon, <1>1, <1>3 DEF AtRest
<1>5. Settled
  BY Zenon, <1>4 DEF AnchorInv, AloneInv
<1>6. Settled'
  BY Zenon, <1>5 DEF Settled, FileFollows
<1>7. \A d \in Commands : d # c => progress'[d] = NotRunning
  BY Zenon, <1>4 DEF AtRest
<1>8. StepInv(c)'
  BY Zenon, <1>6 DEF StepInv
<1> QED
  BY Zenon, <1>6, <1>7, <1>8

\* A command begins and reads the state it starts from.
LEMMA BeginKeeps == ASSUME AnchorInv, NEW c \in Commands, BeginStart(c) \/ BeginStop(c) PROVE AnchorInv'
<1>1. /\ progress[c] = NotRunning /\ Room
      /\ UNCHANGED <<atOnce, durable, laneFiles, laneWorld, crashed>>
  BY Zenon DEF BeginStart, BeginStop
<1>2. PICK p \in {"refresh", "probe", "capture"}, b \in BOOLEAN : Enter(c, p, b)
  BY Zenon DEF BeginStart, BeginStop
<1>3. /\ progress' \in [Commands -> Running] /\ progress'[c].pc = p /\ progress'[c] # NotRunning
      /\ \A d \in Commands \ {c} : progress'[d] = progress[d]
  BY <1>2, EnterIs DEF AnchorInv, Points
<1>4. AloneInv'
  BY Zenon, <1>1, <1>3, BeginKeepsAlone DEF durable, laneFiles
<1>5. AnchorTyped' /\ OneRecord'
  BY Zenon, <1>1, <1>3 DEF AnchorInv, AnchorTyped, OneRecord, durable, laneFiles, laneWorld
<1> QED
  BY Zenon, <1>4, <1>5 DEF AnchorInv

\* What a command that runs alone knows at its step.
LEMMA AtStep ==
    ASSUME AnchorInv, NEW c \in Commands, progress[c].pc # "idle"
    PROVE  /\ progress[c] # NotRunning
           /\ atOnce = 1 /\ ~crashed => StepInv(c)
  BY Zenon, NotRunningTyped DEF AnchorInv, AloneInv

\* A step that only moves its command on, or ends it, while the lane is settled.
LEMMA MovesOn ==
    ASSUME AnchorInv, NEW c \in Commands, progress[c].pc \notin {"idle", "check", "write", "queue"},
           \/ \E p \in Points \ {"idle", "check", "write"} : GotoStep(c, p)
           \/ End(c),
           UNCHANGED <<atOnce, durable, laneFiles, tree, crashed>>
    PROVE  AnchorInv'
<1>1. /\ progress' \in [Commands -> Running] /\ \A d \in Commands \ {c} : progress'[d] = progress[d]
      /\ progress'[c] = NotRunning \/ progress'[c].pc \notin {"check", "write"}
  <2>1. CASE \E p \in Points \ {"idle", "check", "write"} : GotoStep(c, p)
    BY Zenon, <2>1, GotoIs DEF AnchorInv
  <2>2. CASE End(c)
    BY Zenon, <2>2, EndIs DEF AnchorInv
  <2> QED
    BY Zenon, <2>1, <2>2
<1>2. progress[c] # NotRunning /\ (atOnce = 1 /\ ~crashed => StepInv(c))
  BY Zenon, AtStep
<1>3. atOnce = 1 /\ ~crashed => Settled'
  BY Zenon, <1>2 DEF StepInv, Settled, FileFollows, durable, laneFiles
<1>4. Settled' /\ progress'[c] # NotRunning => StepInv(c)'
  BY Zenon, <1>1 DEF StepInv, Settled
<1>5. AloneInv'
  BY Zenon, <1>1, <1>2, <1>3, <1>4, StepKeepsAlone
<1>6. AnchorTyped' /\ OneRecord'
  BY Zenon, <1>1 DEF AnchorInv, AnchorTyped, OneRecord, durable, laneFiles
<1> QED
  BY Zenon, <1>5, <1>6 DEF AnchorInv

\* The session is probed, created, proven or stopped.
LEMMA LaunchKeeps ==
    ASSUME AnchorInv, NEW c \in Commands, Probe(c) \/ CreateSession(c) \/ Prove(c) \/ StopSession(c)
    PROVE  AnchorInv'
<1>1. progress[c].pc \notin {"idle", "check", "write", "queue"} /\ UNCHANGED <<atOnce, durable, laneFiles, tree, crashed>>
  BY Zenon DEF Probe, CreateSession, Prove, StopSession, laneWorld
<1>2. (\E p \in Points \ {"idle", "check", "write"} : GotoStep(c, p)) \/ End(c)
  BY Zenon DEF Probe, CreateSession, Prove, StopSession, Points
<1> QED
  BY Zenon, <1>1, <1>2, MovesOn

\* The checkpoint is captured.
LEMMA CaptureKeeps == ASSUME AnchorInv, NEW c \in Commands, Capture(c) PROVE AnchorInv'
<1> DEFINE x == [progress[c] EXCEPT !.pc = "transition", !.seen = tree]
<1>1. /\ progress[c].pc = "capture" /\ progress' = [progress EXCEPT ![c] = x]
      /\ UNCHANGED <<atOnce, durable, laneFiles, laneWorld, crashed>>
      /\ progress \in [Commands -> Running] /\ progress[c] \in Running /\ tree \in 0 .. MaxTree
  BY Zenon DEF Capture, AnchorInv, AnchorTyped
<1>2. x \in Running /\ x.pc = "transition"
  BY Zenon, <1>1 DEF Running, Points
<1> HIDE DEF x
<1>3. /\ progress' \in [Commands -> Running] /\ progress'[c].pc = "transition"
      /\ \A d \in Commands \ {c} : progress'[d] = progress[d]
  BY Zenon, <1>1, <1>2
<1>4. progress[c] # NotRunning /\ (atOnce = 1 /\ ~crashed => StepInv(c)) /\ progress'[c] # NotRunning
  BY Zenon, <1>1, <1>3, AtStep, NotRunningTyped
<1>5. atOnce = 1 /\ ~crashed => StepInv(c)'
  BY Zenon, <1>1, <1>3, <1>4 DEF StepInv, Settled, FileFollows, durable, laneFiles
<1>6. AloneInv'
  BY Zenon, <1>1, <1>3, <1>4, <1>5, StepKeepsAlone
<1>7. AnchorTyped' /\ OneRecord'
  BY Zenon, <1>1, <1>3 DEF AnchorInv, AnchorTyped, OneRecord, durable, laneFiles, laneWorld
<1> QED
  BY Zenon, <1>6, <1>7 DEF AnchorInv

\* A resume compares the tree with the checkpoint.
LEMMA RefreshKeeps == ASSUME AnchorInv, NEW c \in Commands, Refresh(c) PROVE AnchorInv'
<1>1. progress[c].pc = "refresh" /\ UNCHANGED <<atOnce, durable, queued, laneWorld, crashed>>
  BY Zenon DEF Refresh
<1>2. CASE life = "active"
  <2>1. controls' = "active" /\ GotoStep(c, "probe")
    BY Zenon, <1>2 DEF Refresh
  <2>2. /\ progress' \in [Commands -> Running] /\ progress'[c].pc = "probe" /\ progress'[c] # NotRunning
        /\ \A d \in Commands \ {c} : progress'[d] = progress[d]
    BY Zenon, <2>1, GotoIs DEF AnchorInv, Points
  <2>3. progress[c] # NotRunning /\ (atOnce = 1 /\ ~crashed => StepInv(c))
    BY Zenon, <1>1, AtStep
  <2>4. atOnce = 1 /\ ~crashed => StepInv(c)'
    BY Zenon, <1>1, <1>2, <2>1, <2>2, <2>3 DEF StepInv, Settled, FileFollows, durable
  <2>5. AloneInv'
    BY Zenon, <1>1, <2>2, <2>3, <2>4, StepKeepsAlone
  <2>6. AnchorTyped' /\ OneRecord'
    BY Zenon, <1>1, <2>1, <2>2 DEF AnchorInv, AnchorTyped, OneRecord, durable, laneWorld, States
  <2> QED
    BY Zenon, <2>5, <2>6 DEF AnchorInv
<1>3. CASE life # "active"
  <2>1. End(c) /\ UNCHANGED controls
    BY Zenon, <1>3 DEF Refresh
  <2> QED
    BY Zenon, <1>1, <2>1, MovesOn DEF laneFiles, laneWorld
<1> QED
  BY Zenon, <1>2, <1>3

\* A transition of a lane that has no file is its first one, or makes it active.
LEMMA FileBeforeStop ==
    ASSUME NEW c \in Commands, FileFollows, <<life, Target(c)>> \in AllowedTransitions, Target(c) # "active"
    PROVE  controls # "missing"
  BY Zenon DEF FileFollows, AllowedTransitions

\* The lifecycle record is written.
LEMMA TransitionKeeps == ASSUME AnchorInv, NEW c \in Commands, Transition(c) PROVE AnchorInv'
<1>1. progress[c].pc = "transition" /\ UNCHANGED <<atOnce, laneFiles, laneWorld, crashed>>
  BY Zenon DEF Transition
<1>2. progress[c] # NotRunning /\ (atOnce = 1 /\ ~crashed => Settled)
  BY Zenon, <1>1, AtStep DEF StepInv
<1>3. CASE End(c) /\ UNCHANGED durable
  BY Zenon, <1>1, <1>3, MovesOn DEF laneWorld
<1>4. CASE GotoStep(c, "check") /\ UNCHANGED durable
  <2>1. /\ progress' \in [Commands -> Running] /\ progress'[c].pc = "check" /\ progress'[c] # NotRunning
        /\ \A d \in Commands \ {c} : progress'[d] = progress[d]
    BY Zenon, <1>4, GotoIs DEF AnchorInv, Points
  <2>2. atOnce = 1 /\ ~crashed => StepInv(c)'
    BY Zenon, <1>1, <1>2, <1>4, <2>1 DEF StepInv, Settled, FileFollows, durable, laneFiles
  <2>3. AloneInv'
    BY Zenon, <1>1, <1>2, <2>1, <2>2, StepKeepsAlone
  <2>4. AnchorTyped' /\ OneRecord'
    BY Zenon, <1>1, <1>4, <2>1 DEF AnchorInv, AnchorTyped, OneRecord, durable, laneFiles, laneWorld
  <2> QED
    BY Zenon, <2>3, <2>4 DEF AnchorInv
<1>5. CASE /\ ~Prior(c) /\ ~TransitionRefused(c)
           /\ life' = Target(c) /\ checkpoint' = progress[c].seen
           /\ applied' = [applied EXCEPT ![c] = [state |-> Target(c), tree |-> progress[c].seen]]
           /\ records' = Append(records, c) /\ GotoStep(c, "check")
  <2>1. /\ progress' \in [Commands -> Running] /\ progress'[c].pc = "check" /\ progress'[c] # NotRunning
        /\ \A d \in Commands \ {c} : progress'[d] = progress[d]
    BY Zenon, <1>5, GotoIs DEF AnchorInv, Points
  <2>2. <<life, Target(c)>> \in AllowedTransitions
    BY Zenon, <1>5 DEF TransitionRefused
  <2>3. atOnce = 1 /\ ~crashed => StepInv(c)'
    <3> SUFFICES ASSUME atOnce = 1, ~crashed PROVE StepInv(c)'
      BY Zenon
    <3>1. Target(c) # "active" => controls # "missing"
      BY Zenon, <1>2, <2>2, FileBeforeStop DEF Settled
    <3>2. life' = Target(c) /\ (Target(c) # "active" => controls' # "missing")
      BY Zenon, <1>1, <1>5, <3>1 DEF laneFiles
    <3> QED
      BY Zenon, <2>1, <3>2 DEF StepInv, Target
  <2>4. AloneInv'
    BY Zenon, <1>1, <1>2, <2>1, <2>3, StepKeepsAlone
  <2> DEFINE a == [state |-> Target(c), tree |-> progress[c].seen]
  <2>5. /\ progress[c].seen \in 0 .. MaxTree /\ applied \in [Commands -> Applications]
        /\ records \in Seq(Commands)
    BY Zenon DEF AnchorInv, AnchorTyped, Running
  <2>6. a \in Applications /\ a.state # "none"
    BY Zenon, <2>5, TargetIsState DEF Applications, States
  <2>7. applied' = [applied EXCEPT ![c] = a]
    BY Zenon, <1>5
  <2> HIDE DEF a
  <2>8. /\ records' \in Seq(Commands) /\ Len(records') = Len(records) + 1 /\ Len(records) \in Nat
        /\ records'[Len(records) + 1] = c
        /\ \A i \in 1 .. Len(records) : records'[i] = records[i]
    BY <1>5, <2>5
  <2>9. AnchorTyped'
    BY Zenon, <1>1, <1>5, <2>1, <2>5, <2>6, <2>7, <2>8, TargetIsState DEF AnchorInv, AnchorTyped, laneFiles, laneWorld
  <2>10. applied[c].state = "none"
    <3>1. applied[c] \in Applications /\ applied[c] = NotApplied
      BY Zenon, <1>5, <2>5 DEF Prior
    <3> QED
      BY <3>1 DEF NotApplied
  <2>11. \A i \in 1 .. Len(records) : records[i] \in Commands /\ records[i] # c
    BY <2>5, <2>10 DEF AnchorInv, OneRecord
  <2>12. OneRecord'
    <3>1. \A i \in 1 .. Len(records') : i \in 1 .. Len(records) \/ i = Len(records) + 1
      BY <2>8
    <3>2. applied'[c].state # "none" /\ \A d \in Commands : d # c => applied'[d] = applied[d]
      BY Zenon, <2>5, <2>6, <2>7
    <3>3. ASSUME NEW i \in 1 .. Len(records') PROVE applied'[records'[i]].state # "none"
      <4>1. CASE i \in 1 .. Len(records)
        BY <2>8, <2>11, <3>2, <4>1 DEF AnchorInv, OneRecord
      <4>2. CASE i = Len(records) + 1
        BY Zenon, <2>8, <3>2, <4>2
      <4> QED
        BY Zenon, <3>1, <4>1, <4>2
    <3>4. ASSUME NEW i \in 1 .. Len(records'), NEW j \in 1 .. Len(records'), records'[i] = records'[j]
          PROVE  i = j
      <4>1. CASE i \in 1 .. Len(records) /\ j \in 1 .. Len(records)
        BY Zenon, <2>8, <3>4, <4>1 DEF AnchorInv, OneRecord
      <4>2. CASE i = Len(records) + 1 /\ j = Len(records) + 1
        BY Zenon, <4>2
      <4>3. CASE i \in 1 .. Len(records) /\ j = Len(records) + 1
        BY Zenon, <2>8, <2>11, <3>4, <4>3
      <4>4. CASE i = Len(records) + 1 /\ j \in 1 .. Len(records)
        BY Zenon, <2>8, <2>11, <3>4, <4>4
      <4> QED
        BY Zenon, <3>1, <4>1, <4>2, <4>3, <4>4
    <3> QED
      BY Zenon, <3>3, <3>4 DEF OneRecord
  <2> QED
    BY Zenon, <2>4, <2>9, <2>12 DEF AnchorInv
<1> QED
  BY Zenon, <1>3, <1>4, <1>5 DEF Transition

\* The controls are compared with the record.
LEMMA CheckKeeps == ASSUME AnchorInv, NEW c \in Commands, CheckControls(c) PROVE AnchorInv'
<1>1. progress[c].pc = "check" /\ UNCHANGED <<atOnce, durable, laneFiles, laneWorld, crashed>>
  BY Zenon DEF CheckControls
<1>2. /\ progress[c] # NotRunning
      /\ atOnce = 1 /\ ~crashed => Settled \/ (life = Target(c) /\ (Target(c) # "active" => controls # "missing"))
  BY Zenon, <1>1, AtStep DEF StepInv
<1>3. /\ progress' \in [Commands -> Running]
      /\ \A d \in Commands \ {c} : progress'[d] = progress[d]
      /\ \/ progress'[c] = NotRunning \/ progress'[c].pc = "stop"
         \/ progress'[c].pc = "write"
      /\ progress'[c] = NotRunning \/ progress'[c].pc = "stop" =>
            (Target(c) # "active" /\ controls = "missing") \/ life # Target(c)
      /\ progress'[c].pc = "write" => life = Target(c)
  <2>1. CASE Target(c) # "active" /\ controls = "missing" /\ End(c)
    BY Zenon, <2>1, EndIs, NotRunningTyped DEF AnchorInv
  <2>2. CASE Target(c) # "active" /\ controls = "missing" /\ GotoStep(c, "stop")
    BY <2>2, GotoIs DEF AnchorInv, Points
  <2>3. CASE life # Target(c) /\ End(c)
    BY Zenon, <2>3, EndIs, NotRunningTyped DEF AnchorInv
  <2>4. CASE life = Target(c) /\ GotoStep(c, "write")
    BY <2>4, GotoIs DEF AnchorInv, Points
  <2> QED
    BY Zenon, <2>1, <2>2, <2>3, <2>4 DEF CheckControls
<1>4. progress'[c].pc = "write" => progress'[c] # NotRunning
  BY Zenon, NotRunningTyped
<1>5. atOnce = 1 /\ ~crashed => IF progress'[c] = NotRunning THEN Settled' ELSE StepInv(c)'
  <2> SUFFICES ASSUME atOnce = 1, ~crashed PROVE IF progress'[c] = NotRunning THEN Settled' ELSE StepInv(c)'
    BY Zenon
  <2>1. CASE progress'[c].pc = "write"
    <3>1. life' = Target(c) /\ Target(c)' = Target(c)
      BY Zenon, <1>1, <1>3, <2>1 DEF durable, Target
    <3> QED
      BY Zenon, <1>4, <2>1, <3>1 DEF StepInv
  <2>2. CASE progress'[c] = NotRunning \/ progress'[c].pc = "stop"
    <3>1. Settled
      BY Zenon, <1>2, <1>3, <2>2
    <3>2. Settled'
      BY Zenon, <1>1, <3>1 DEF Settled, FileFollows, durable, laneFiles
    <3> QED
      BY Zenon, <2>2, <3>2 DEF StepInv
  <2> QED
    BY Zenon, <1>3, <2>1, <2>2
<1>6. AloneInv'
  BY Zenon, <1>1, <1>2, <1>3, <1>5, StepKeepsAlone
<1>7. AnchorTyped' /\ OneRecord'
  BY Zenon, <1>1, <1>3 DEF AnchorInv, AnchorTyped, OneRecord, durable, laneFiles, laneWorld
<1> QED
  BY Zenon, <1>6, <1>7 DEF AnchorInv

\* The controls are written from the record.
LEMMA WriteKeeps == ASSUME AnchorInv, NEW c \in Commands, WriteControls(c) PROVE AnchorInv'
<1> DEFINE p == IF Kind[c] \in {"shelve", "close"} THEN "stop" ELSE "queue"
<1>1. /\ progress[c].pc = "write" /\ controls' = Target(c) /\ GotoStep(c, p)
      /\ UNCHANGED <<atOnce, durable, queued, laneWorld, crashed>>
  BY Zenon DEF WriteControls
<1>2. progress[c] # NotRunning /\ (atOnce = 1 /\ ~crashed => life = Target(c))
  BY Zenon, <1>1, AtStep DEF StepInv
<1>3. /\ progress' \in [Commands -> Running] /\ progress'[c].pc = p /\ progress'[c] # NotRunning
      /\ \A d \in Commands \ {c} : progress'[d] = progress[d]
  BY Zenon, <1>1, GotoIs DEF AnchorInv, Points
<1>4. p = "stop" => Target(c) \notin {"active", "paused"}
  BY Zenon DEF Target
<1>5. atOnce = 1 /\ ~crashed => StepInv(c)'
  BY Zenon, <1>1, <1>2, <1>3, <1>4 DEF StepInv, Settled, FileFollows, durable
<1>6. AloneInv'
  BY Zenon, <1>1, <1>2, <1>3, <1>5, StepKeepsAlone
<1>7. AnchorTyped' /\ OneRecord'
  BY Zenon, <1>1, <1>3, TargetIsState DEF AnchorInv, AnchorTyped, OneRecord, durable, laneWorld
<1> QED
  BY Zenon, <1>6, <1>7 DEF AnchorInv

\* The controls are queued for the lane.
LEMMA QueueKeeps == ASSUME AnchorInv, NEW c \in Commands, QueueControls(c) PROVE AnchorInv'
<1>1. /\ progress[c].pc = "queue" /\ queued' = queued \cup {Len(records)} /\ End(c)
      /\ UNCHANGED <<atOnce, durable, controls, laneWorld, crashed>>
  BY Zenon DEF QueueControls
<1>2. progress[c] # NotRunning /\ (atOnce = 1 /\ ~crashed => FileFollows)
  BY Zenon, <1>1, AtStep DEF StepInv
<1>3. /\ progress' \in [Commands -> Running] /\ progress'[c] = NotRunning
      /\ \A d \in Commands \ {c} : progress'[d] = progress[d]
  BY Zenon, <1>1, EndIs DEF AnchorInv
<1>4. atOnce = 1 /\ ~crashed => Settled'
  BY Zenon, <1>1, <1>2 DEF Settled, FileFollows, durable
<1>5. AloneInv'
  BY Zenon, <1>1, <1>2, <1>3, <1>4, StepKeepsAlone
<1>6. AnchorTyped' /\ OneRecord'
  BY Zenon, <1>1, <1>3 DEF AnchorInv, AnchorTyped, OneRecord, durable, laneWorld
<1> QED
  BY Zenon, <1>5, <1>6 DEF AnchorInv

\* The command ends between two of its writes.
LEMMA DiesKeeps == ASSUME AnchorInv, NEW c \in Commands, CommandDies(c) PROVE AnchorInv'
<1>1. crashed' /\ End(c) /\ UNCHANGED <<atOnce, durable, laneFiles, laneWorld>>
  BY Zenon DEF CommandDies
<1>2. progress' \in [Commands -> Running]
  BY Zenon, <1>1, EndIs DEF AnchorInv
<1>3. AnchorTyped' /\ OneRecord' /\ AloneInv'
  BY Zenon, <1>1, <1>2 DEF AnchorInv, AnchorTyped, OneRecord, AloneInv, durable, laneFiles, laneWorld
<1> QED
  BY Zenon, <1>3 DEF AnchorInv

\* The agent edits, the session ends, or nothing happens.
LEMMA LaneKeeps == ASSUME AnchorInv, AgentEdits \/ SessionEnds \/ UNCHANGED anchorVars PROVE AnchorInv'
<1>1. UNCHANGED <<atOnce, durable, laneFiles, progress, crashed>> /\ tree' \in 0 .. MaxTree
  BY AnchorAssumption DEF AgentEdits, SessionEnds, anchorVars, durable, laneFiles, laneWorld, AnchorInv, AnchorTyped
<1>2. AnchorTyped' /\ OneRecord'
  BY Zenon, <1>1 DEF AnchorInv, AnchorTyped, OneRecord, durable, laneFiles
<1>3. (Settled' <=> Settled) /\ (AtRest' <=> AtRest) /\ \A c \in Commands : StepInv(c)' <=> StepInv(c)
  BY <1>1 DEF Settled, FileFollows, AtRest, StepInv, Target, durable, laneFiles
<1>4. AloneInv'
  BY Zenon, <1>1, <1>3 DEF AnchorInv, AloneInv
<1> QED
  BY Zenon, <1>2, <1>4 DEF AnchorInv

\* Every step preserves the invariant.
LEMMA AnchorStep == ASSUME AnchorInv, [AnchorNext]_anchorVars PROVE AnchorInv'
<1>1. ASSUME NEW c \in Commands,
             \/ BeginStart(c) \/ BeginStop(c) \/ Refresh(c) \/ Probe(c) \/ CreateSession(c) \/ Prove(c) \/ Capture(c)
             \/ Transition(c) \/ CheckControls(c) \/ WriteControls(c) \/ QueueControls(c)
             \/ StopSession(c) \/ CommandDies(c)
      PROVE  AnchorInv'
  BY Zenon, <1>1, BeginKeeps, RefreshKeeps, LaunchKeeps, CaptureKeeps, TransitionKeeps, CheckKeeps, WriteKeeps,
     QueueKeeps, DiesKeeps
<1> QED
  BY Zenon, <1>1, LaneKeeps DEF AnchorNext

\* The invariant holds throughout.
LEMMA AnchorInvariant == AnchorSpec => []AnchorInv
<1>1. AnchorInit => AnchorInv
  BY Zenon, AnchorInitHolds
<1>2. AnchorInv /\ [AnchorNext]_anchorVars => AnchorInv'
  BY Zenon, AnchorStep
<1> QED
  BY <1>1, <1>2, PTL DEF AnchorSpec

\* However many commands, records and edits: a request has one lifecycle record, and a lane whose
\* commands run one at a time without dying has its file and its orders follow the lifecycle
\* (transition_lane_lifecycle, set_native_controls_lifecycle, enqueue_native_controls).
THEOREM LaneControlsFollowLifecycle == AnchorSpec => []ControlsFollowLifecycle
<1>1. AnchorInv => ControlsFollowLifecycle
  <2> SUFFICES ASSUME AnchorInv PROVE ControlsFollowLifecycle
    BY Zenon
  <2>1. AnchorTypeOK
    BY Zenon DEF AnchorInv, AnchorTyped, AnchorTypeOK, Running, Points
  <2> QED
    BY Zenon, <2>1 DEF AnchorInv, OneRecord, AloneInv, Settled, FileFollows, ControlsFollowLifecycle
<1> QED
  BY <1>1, AnchorInvariant, PTL

\* A paused or shelved lane becomes active only on the worktree it was left with, in whatever
\* order commands and the agent's edits come (transition_lane_lifecycle compares again).
THEOREM LanesResumeAtCheckpoint == AnchorSpec => ResumesAtCheckpoint
<1>1. [AnchorNext]_anchorVars =>
        [(life \in {"paused", "shelved"} /\ life' = "active") => (checkpoint' = checkpoint)]_anchorVars
  <2> SUFFICES ASSUME AnchorNext, life \in {"paused", "shelved"}, life' = "active" PROVE checkpoint' = checkpoint
    BY Zenon
  <2>1. life' # life
    BY Zenon
  <2>2. PICK c \in Commands : Transition(c)
    BY Zenon, <2>1 DEF AnchorNext, BeginStart, BeginStop, Refresh, Probe, CreateSession, Prove, Capture, CheckControls,
       WriteControls, QueueControls, StopSession, CommandDies, AgentEdits, SessionEnds, durable
  <2>3. ~TransitionRefused(c) /\ life' = Target(c) /\ checkpoint' = progress[c].seen
    BY Zenon, <2>1, <2>2 DEF Transition, durable
  <2> QED
    BY Zenon, <2>3 DEF TransitionRefused
<1> QED
  BY <1>1, PTL DEF AnchorSpec, ResumesAtCheckpoint

=============================================================================
