---------------------------- MODULE GoalRecords ----------------------------
(***************************************************************************)
(* The goal record of one lane (goals.py) and the commands that write it   *)
(* (goals_cli.py).  Every writer takes the lane lock and the lock of       *)
(* goals.json around its own read and write, so each is one step; the one  *)
(* exception is "chitra-goals set", which reads the record before it takes *)
(* the locks and builds the new record from that reading.  Enrollment and  *)
(* transfer are taken apart in GoalEnrollment.                             *)
(*                                                                         *)
(* Text stands for the strategic fields (goal, done_when, intent, scope,   *)
(* source, autonomy policy), which are only compared; "proof" is the goal  *)
(* version whose completion receipts were verified when completion_proofs  *)
(* were stored (0: none stored).                                           *)
(***************************************************************************)
EXTENDS Naturals

CONSTANTS
    GoalTexts,      \* values of the strategic fields
    Asks,           \* operator asks
    Tasks,          \* foreground tasks
    MaxGoalVersion  \* bound: redirects per record

ASSUME RecordsAssumption == MaxGoalVersion \in Nat \ {0}

VARIABLES
    rec,            \* the stored record, or Absent
    snap,           \* what a running "set" read, or Absent
    outcome         \* history: how the last closed record was closed

recordsVars == <<rec, snap, outcome>>

Absent == [absent |-> TRUE]
Exists(r) == r # Absent

\* Idle also stands for blocked, turn-finished-unverified and completion-disputed.
OpenStatuses == {"working", "held", "idle"}

Record == [status : OpenStatuses \cup {"done"}, reason : BOOLEAN, text : GoalTexts,
           version : 1..MaxGoalVersion, revisions : 0..MaxGoalVersion,
           asks : SUBSET Asks, tasks : SUBSET (Tasks \X (1..MaxGoalVersion)),
           retired : SUBSET (Asks \cup Tasks),
           proof : 0..MaxGoalVersion, legacy : BOOLEAN]

NewRecord(text, status, asks) ==
    [status |-> status, reason |-> FALSE, text |-> text, version |-> 1, revisions |-> 0,
     asks |-> asks, tasks |-> {}, retired |-> {}, proof |-> 0, legacy |-> FALSE]

RecordsTypeOK ==
    /\ rec \in Record \cup {Absent}
    /\ snap \in [text : GoalTexts, proof : 0..MaxGoalVersion] \cup {Absent}
    /\ outcome \in {"none", "complete", "unproven", "discarded"}

\* A store may already hold a record of an older schema, whatever its status.
RecordsInit ==
    /\ rec \in {Absent} \cup {[NewRecord(x, st, {}) EXCEPT !.legacy = TRUE] :
                                 x \in GoalTexts, st \in {"working", "done"}}
    /\ snap = Absent
    /\ outcome = "none"

-----------------------------------------------------------------------------
\* _upsert_goal_locked: what is refused for an existing record.
Refused(new, strategic, gate, administrative) ==
    \/ rec.legacy /\ ~administrative
    \/ new.text # rec.text /\ ~strategic
    \/ new.proof # rec.proof /\ ~gate
    \/ new.status = "done" /\ rec.status # "done" /\ ~gate

\* Mutant: a write that says nothing about asks clears them.
MergedForgetful(new, clearAsks, clearTasks) ==
    [new EXCEPT !.reason = @ \/ (new.status = rec.status /\ rec.reason)]

\* _upsert_goal_locked: what a write that says nothing about a field keeps of the stored one.
Merged(new, clearAsks, clearTasks) ==
    [new EXCEPT
        !.asks = IF @ = {} /\ ~clearAsks THEN rec.asks ELSE @,
        !.tasks = IF @ = {} /\ ~clearTasks THEN rec.tasks ELSE @,
        !.retired = IF @ = {} THEN rec.retired ELSE @,
        !.reason = @ \/ (new.status = rec.status /\ rec.reason)]

Write(new, clearAsks, clearTasks) ==
    /\ rec' = Merged(new, clearAsks, clearTasks)
    /\ UNCHANGED <<snap, outcome>>

\* The read-modify-write of the store's own verbs.
Modify(new) == Exists(rec) /\ ~Refused(new, FALSE, FALSE, FALSE) /\ Write(new, FALSE, FALSE)

Enroll ==
    /\ ~Exists(rec)
    /\ \E x \in GoalTexts, st \in OpenStatuses, asks \in SUBSET Asks : rec' = NewRecord(x, st, asks)
    /\ outcome' = "none"
    /\ UNCHANGED snap

\* "chitra-goals set" of an enrolled goal: get_goal before any lock is taken.
ReadForSet ==
    /\ Exists(rec) /\ ~rec.legacy /\ ~Exists(snap)
    /\ snap' = [text |-> rec.text, proof |-> rec.proof]
    /\ UNCHANGED <<rec, outcome>>

\* The record that "set" builds: options, completed from its reading; the versions, the
\* foreground tasks and the retired asks are left at their defaults.
Requested(status, asks) ==
    [NewRecord(snap.text, status, asks) EXCEPT !.proof = snap.proof]

\* upsert_goal: the record is gone (it is enrolled again from the reading), or refuses the
\* request, or is updated with its own version and history.
WriteSet(status, asks, clear) ==
    LET new == Requested(status, asks)
        kept == [new EXCEPT !.version = rec.version, !.revisions = rec.revisions]
    IN
    /\ Exists(snap)
    /\ clear => asks = {}
    /\ snap' = Absent
    /\ \/ ~Exists(rec) /\ status = "done" /\ UNCHANGED <<rec, outcome>>
       \/ ~Exists(rec) /\ status # "done" /\ rec' = new /\ outcome' = "none"
       \/ Exists(rec) /\ Refused(new, FALSE, FALSE, FALSE) /\ UNCHANGED <<rec, outcome>>
       \/ Exists(rec) /\ ~Refused(new, FALSE, FALSE, FALSE)
          /\ rec' = Merged(kept, clear, FALSE) /\ UNCHANGED outcome

UpdateNow(status) == Modify([rec EXCEPT !.status = status])

HoldGoal == Modify([rec EXCEPT !.status = "held", !.reason = TRUE])

\* The reason is cleared because the status changes.
ResumeGoal ==
    /\ Exists(rec) /\ rec.status = "held"
    /\ Modify([rec EXCEPT !.status = "working", !.reason = FALSE])

\* Mutant: a redirected goal stays done.
RedirectGoalKeepsDone(text) ==
    /\ Exists(rec) /\ text # rec.text /\ rec.version < MaxGoalVersion
    /\ Write([rec EXCEPT !.text = text, !.tasks = {}, !.version = @ + 1, !.revisions = @ + 1], FALSE, TRUE)

\* redirect_goal, which an older record allows as well.
RedirectGoal(text) ==
    /\ Exists(rec) /\ text # rec.text /\ rec.version < MaxGoalVersion
    /\ Write([rec EXCEPT !.text = text, !.tasks = {}, !.version = @ + 1, !.revisions = @ + 1,
                         !.status = IF @ = "done" THEN "working" ELSE @], FALSE, TRUE)

AddForegroundTask(t) == Modify([rec EXCEPT !.tasks = @ \cup {<<t, rec.version>>}])

ResolveForegroundTask(t) ==
    /\ Exists(rec) /\ t \in rec.tasks
    /\ LET new == [rec EXCEPT !.tasks = @ \ {t}, !.retired = @ \cup {t[1]}]
       IN  ~Refused(new, FALSE, FALSE, FALSE) /\ Write(new, FALSE, TRUE)

AddAsk(a) == Exists(rec) /\ a \notin rec.asks /\ Modify([rec EXCEPT !.asks = @ \cup {a}])

\* resolve_ask by text, by index or --all.
ResolveAsks(removed) ==
    LET new == [rec EXCEPT !.asks = @ \ removed, !.retired = @ \cup removed]
    IN  /\ Exists(rec) /\ removed # {} /\ removed \subseteq rec.asks
        /\ ~Refused(new, FALSE, FALSE, FALSE) /\ Write(new, TRUE, FALSE)

\* Every enrolled item has a receipt that is verified under the locks.
MarkCompletionGatePassed ==
    /\ Exists(rec) /\ ~rec.legacy
    /\ Write([rec EXCEPT !.status = "done", !.proof = rec.version], FALSE, FALSE)

\* close_goal: a completion close needs the gate and the enrollment, a discard needs a reason.
CloseGoal(administrative) ==
    /\ Exists(rec)
    /\ administrative \/ (rec.status = "done" /\ ~rec.legacy)
    /\ outcome' = IF administrative THEN "discarded"
                  ELSE IF rec.proof = rec.version THEN "complete" ELSE "unproven"
    /\ rec' = Absent
    /\ UNCHANGED snap

RecordsNext ==
    \/ Enroll
    \/ ReadForSet
    \/ \E st \in OpenStatuses \cup {"done"}, asks \in SUBSET Asks, clear \in BOOLEAN : WriteSet(st, asks, clear)
    \/ \E st \in OpenStatuses : UpdateNow(st)
    \/ HoldGoal
    \/ ResumeGoal
    \/ \E x \in GoalTexts : RedirectGoal(x)
    \/ \E t \in Tasks : AddForegroundTask(t)
    \/ \E t \in Tasks \X (1..MaxGoalVersion) : ResolveForegroundTask(t)
    \/ \E a \in Asks : AddAsk(a)
    \/ \E removed \in SUBSET Asks : ResolveAsks(removed)
    \/ MarkCompletionGatePassed
    \/ \E administrative \in BOOLEAN : CloseGoal(administrative)

RecordsSpec == RecordsInit /\ [][RecordsNext]_recordsVars

-----------------------------------------------------------------------------
\* A goal is done, and is closed as complete, only with receipts that were verified for the
\* goal as it now reads: a redirect after the gate takes the status back, and a "set" that
\* read the record before the redirect cannot put it back (goals.py, "done-* status
\* transitions require the completion gate").  Its foreground work and its revision history
\* are those of that version too.
DoneIsProven ==
    /\ RecordsTypeOK
    /\ Exists(rec) /\ rec.status = "done" /\ ~rec.legacy => rec.proof = rec.version
    /\ Exists(rec) => (\A t \in rec.tasks : t[2] = rec.version) /\ rec.revisions = rec.version - 1
    /\ outcome # "unproven"

\* What a step may do to the asks of a goal that stays.
AskStep ==
    Exists(rec) /\ Exists(rec') =>
        /\ \/ rec.asks \ rec'.asks \subseteq rec'.retired
           \/ \E st \in OpenStatuses \cup {"done"} :
                WriteSet(st, {}, TRUE) \/ \E asks \in (SUBSET Asks) \ {{}} : WriteSet(st, asks, FALSE)
        /\ rec.retired \subseteq rec'.retired

\* An open ask of a goal that stays leaves the list only into the retired asks, or because
\* "set" was told to replace or clear the list: a "set" that says nothing about asks keeps
\* those added after it read the record.  What was retired stays recorded.
AsksAreRetired == [][AskStep]_recordsVars
=============================================================================
