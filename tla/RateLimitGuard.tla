--------------------------- MODULE RateLimitGuard ---------------------------
(***************************************************************************)
(* The pause and resume transactions of rate_limit_guard.py, with the      *)
(* outbox of rate_limit_state.py and the shed state of load_shed.py.  One  *)
(* sweep runs at a time (a oneshot service under a timer); each durable    *)
(* write of a sweep is a step, so that operators, the dispatcher and the   *)
(* end of the process (a crash, or an exception that leaves sweep())       *)
(* interleave between any two of them.  The lanes of a loop are taken in   *)
(* any order.                                                              *)
(*                                                                         *)
(* A deadline is the flag "late", set by the passage of time; an order is  *)
(* delivered or fails in the order it was queued; a lane's transcript is   *)
(* seen as "changed" or "same" since the last sweep looked.                *)
(***************************************************************************)
EXTENDS Naturals, Sequences, FiniteSets

CONSTANTS
    Lanes,          \* tracked lanes of one host
    Cap,            \* Cap[level]: effective_max_running
    MaxLevel,       \* highest load level in use (the code's is 3)
    Sweeps,         \* LoadPolicy.consecutive_sweeps
    MaxAttempts,    \* PausePolicy.max_retry_attempts
    UsageLevels,    \* the usage verdicts that occur
    OperatorHolds,  \* the holds others place on a lane
    MaxChanges,     \* bound: usage changes and operator actions
    MaxFaults       \* bound: crashes of a sweep and failed deliveries

Holds == {"none", "limit1", "limit2", "untimed", "load", "other", "superseded", "gone"}

ASSUME GuardAssumption ==
    /\ Lanes # {}
    /\ MaxLevel \in Nat /\ Cap \in [0..MaxLevel -> Nat]
    /\ Sweeps \in Nat \ {0} /\ MaxAttempts \in Nat \ {0}
    /\ "ok" \in UsageLevels /\ UsageLevels \subseteq {"ok", "missing", "limit1", "limit2"}
    /\ OperatorHolds \subseteq Holds \ {"none", "gone"}
    /\ MaxChanges \in Nat /\ MaxFaults \in Nat

VARIABLES
    \* durable
    hold,           \* hold[s]: the goal's hold; limit1, limit2 are usage windows,
                    \* untimed a rate-limit hold without resume_at, gone no goal
    due,            \* lanes whose resume_at has passed
    txn,            \* txn[s]: the lane's transaction
    load,           \* LoadHostState: level, observed, breach, clear
    shed,           \* its shed_lanes, as the order of its lanes: <<older, younger>>
    \* the dispatcher and the lane
    codex,          \* lanes that run Codex; the others run Claude Code
    queue,          \* queue[s]: guard orders not yet delivered, oldest first
    mail,           \* mail[s]: result of the order the transaction names
    told,           \* told[s]: the last instruction that reached the lane
    watch,          \* watch[s]: the transcript since the last look
    late,           \* lanes whose transaction is past its deadline
    usage,          \* usage[s]: the level of its usage snapshot
    \* the sweep's memory
    pc, todo, lane, draft, next, verdict, known, fresh,
    \* history and bounds
    meddled,        \* lanes whose goal somebody else wrote
    changes, faults

goals == <<hold, due, meddled>>
outbox == <<txn, load, shed>>
world == <<codex, queue, mail, told, watch, late, usage>>
memory == <<pc, todo, lane, draft, next, verdict, known, fresh>>
bounds == <<changes, faults>>
vars == <<hold, due, meddled, txn, load, shed, codex, queue, mail, told, watch, late, usage,
          pc, todo, lane, draft, next, verdict, known, fresh, changes, faults>>

PausePhases == {"pause_requested", "checkpoint_sent", "stop_sent", "awaiting_quiescence"}
ResumePhases == {"resume_requested", "resume_sent"}
Phases == PausePhases \cup {"held"} \cup ResumePhases

Limits == {"limit1", "limit2", "untimed"}
Frozen == Limits \cup {"load"}

Backend(s) == IF s \in codex THEN "codex" ELSE "claude"
\* A transaction that enters a phase: no attempts yet; transcript tells whether
\* the confirmed delivery named one.
Txn(phase, backend, why, transcript) ==
    [phase |-> phase, backend |-> backend, why |-> why, transcript |-> transcript,
     attempts |-> 0, escalated |-> FALSE]
NoTxn == Txn("none", "claude", "none", FALSE)
Txns == [phase : Phases \cup {"none"}, backend : {"claude", "codex"}, why : Frozen \cup {"none"},
         transcript : BOOLEAN, attempts : Nat, escalated : BOOLEAN]

Kinds == {"checkpoint", "stop", "resume"}
Results == {"none", "pending", "sent", "failed"}
Steps == {"idle", "clear", "forget", "reconcile", "pause", "write", "hold", "begin",
          "shedhold", "shedbegin", "resume", "requeue", "drop", "unshed"}

TypeOK ==
    /\ hold \in [Lanes -> Holds] /\ due \subseteq Lanes /\ meddled \subseteq Lanes
    /\ txn \in [Lanes -> Txns]
    /\ load \in [level : 0..MaxLevel, observed : 0..MaxLevel, breach : Nat, clear : Nat]
    /\ shed \subseteq Lanes \X Lanes
    /\ queue \in [Lanes -> Seq([kind : Kinds, tag : {"mine", "draft", "stray"}])]
    /\ mail \in [Lanes -> Results] /\ told \in [Lanes -> {"go", "stop"}] /\ codex \subseteq Lanes
    /\ late \subseteq Lanes
    /\ watch \in [Lanes -> {"unseen", "same", "quiet", "changed"}]
    /\ usage \in [Lanes -> UsageLevels]
    /\ pc \in Steps /\ todo \subseteq Lanes /\ lane \in Lanes
    /\ draft \in Results /\ next \in Txns
    /\ verdict \in [Lanes -> UsageLevels]
    /\ known \in [Lanes -> Holds] /\ fresh \subseteq Lanes \X Lanes
    /\ changes \in Nat /\ faults \in Nat

SomeLane == CHOOSE s \in Lanes : TRUE

\* shed_lanes, a list without duplicates, as a reflexive order: its lanes, the list without those
\* outside kept, and one list after another.
Empty == {}
On(stack) == {s \in Lanes : <<s, s>> \in stack}
Restricted(stack, kept) == stack \cap (kept \X kept)
Followed(stack, lanes, later) == stack \cup later \cup (On(stack) \X lanes)

Init ==
    /\ hold = [s \in Lanes |-> "none"] /\ due = {} /\ meddled = {}
    /\ txn = [s \in Lanes |-> NoTxn]
    /\ load = [level |-> 0, observed |-> 0, breach |-> 0, clear |-> 0]
    /\ shed = Empty
    /\ codex \in SUBSET Lanes
    /\ queue = [s \in Lanes |-> <<>>] /\ mail = [s \in Lanes |-> "none"]
    /\ told = [s \in Lanes |-> "go"] /\ late = {}
    /\ watch = [s \in Lanes |-> "unseen"]
    /\ usage = [s \in Lanes |-> "ok"]
    /\ pc = "idle" /\ todo = {} /\ lane = SomeLane /\ draft = "none" /\ next = NoTxn
    /\ verdict = [s \in Lanes |-> "ok"] /\ known = [s \in Lanes |-> "none"] /\ fresh = Empty
    /\ changes = 0 /\ faults = 0

-----------------------------------------------------------------------------
(* Pieces of a sweep *)

\* The process ends or sweep() returns: what it had in memory is lost, and an
\* order it queued but did not record becomes a stray.
EndSweep ==
    /\ pc' = "idle" /\ todo' = {} /\ lane' = SomeLane /\ draft' = "none" /\ next' = NoTxn
    /\ verdict' = [s \in Lanes |-> "ok"] /\ known' = [s \in Lanes |-> "none"] /\ fresh' = Empty

Retag(q, from, to) ==
    [i \in DOMAIN q |-> IF q[i].tag = from THEN [q[i] EXCEPT !.tag = to] ELSE q[i]]

\* An exception leaves sweep(); main() reports it and exits.
Raise ==
    /\ EndSweep
    /\ UNCHANGED <<goals, outbox, world, bounds>>

\* The loop at step "at" goes on without lane s.
Continue(at, s) ==
    /\ pc' = at /\ todo' = todo \ {s}
    /\ UNCHANGED <<lane, draft, next, verdict, known, fresh>>

Goto(at, lanes) ==
    /\ pc' = at /\ todo' = lanes
    /\ UNCHANGED <<lane, draft, next, verdict, known>>

\* The transaction of s becomes t, which names no order of its own yet.
Replace(s, t) ==
    /\ txn' = [txn EXCEPT ![s] = t]
    /\ mail' = [mail EXCEPT ![s] = "none"]
    /\ queue' = [queue EXCEPT ![s] = Retag(@, "mine", "stray")]
    /\ watch' = [watch EXCEPT ![s] = "unseen"]
    /\ late' = late \ {s}
    /\ UNCHANGED <<codex, told, usage>>

remove_transaction(s) == Replace(s, NoTxn)

\* Queue an order first; the transaction that names it is written in a later step.
Enqueue(s, kind, t) ==
    /\ queue' = [queue EXCEPT ![s] = Append(@, [kind |-> kind, tag |-> "draft"])]
    /\ draft' = "pending" /\ next' = t /\ lane' = s /\ pc' = "write"
    /\ UNCHANGED <<goals, outbox, codex, mail, told, watch, late, usage, bounds,
                   todo, verdict, known, fresh>>

LoopOf(phase) == IF phase \in ResumePhases THEN "resume" ELSE "pause"

upsert_transaction ==
    /\ pc = "write"
    /\ txn' = [txn EXCEPT ![lane] = next]
    /\ mail' = [mail EXCEPT ![lane] = draft]
    /\ queue' = [queue EXCEPT ![lane] = Retag(Retag(@, "mine", "stray"), "draft", "mine")]
    /\ late' = late \ {lane}
    /\ pc' = LoopOf(next.phase) /\ todo' = todo \ {lane}
    /\ draft' = "none" /\ next' = NoTxn /\ lane' = SomeLane
    /\ UNCHANGED <<goals, load, shed, codex, told, watch, usage, verdict, known, fresh, bounds>>

\* Mutant: a retry does not count.
RetryForever(t, max) == [t EXCEPT !.attempts = 0]

escalate_or_retry(t, max) ==
    IF t.escalated THEN t
    ELSE IF t.attempts + 1 >= max THEN [t EXCEPT !.escalated = TRUE]
    ELSE [t EXCEPT !.attempts = @ + 1]

\* Mutant: escalating gives up the freeze.
WaitLiftsFreeze(s, max) ==
    LET t == IF s \in late THEN escalate_or_retry(txn[s], max) ELSE txn[s]
    IN  /\ txn' = [txn EXCEPT ![s] = t]
        /\ hold' = IF t.escalated THEN [hold EXCEPT ![s] = "none"] ELSE hold
        /\ late' = IF t.attempts # txn[s].attempts THEN late \ {s} ELSE late
        /\ Continue(LoopOf(t.phase), s)
        /\ UNCHANGED <<due, meddled, load, shed, codex, queue, mail, told, watch, usage, bounds>>

\* The transaction keeps its phase and its order; a retry has a new deadline.
bounded_wait(s, max) ==
    LET t == IF s \in late THEN escalate_or_retry(txn[s], max) ELSE txn[s]
    IN  /\ txn' = [txn EXCEPT ![s] = t]
        /\ late' = IF t.attempts # txn[s].attempts THEN late \ {s} ELSE late
        /\ Continue(LoopOf(t.phase), s)
        /\ UNCHANGED <<goals, load, shed, codex, queue, mail, told, watch, usage, bounds>>

\* A terminal result other than SENT: a fresh order, or none once escalated.
retry_with_fresh_order(s, kind) ==
    LET t == escalate_or_retry(txn[s], MaxAttempts)
    IN  \/ /\ ~t.escalated
           /\ Enqueue(s, kind, t)
        \/ /\ t.escalated
           /\ txn' = [txn EXCEPT ![s] = t]
           /\ Continue(LoopOf(t.phase), s)
           /\ UNCHANGED <<goals, load, shed, world, bounds>>

Phase(s, phase) == Txn(phase, txn[s].backend, txn[s].why, txn[s].transcript)

-----------------------------------------------------------------------------
(* The sweep, in program order *)

advance_load_state(observed, clear) ==
    LET breach == IF load.observed = observed THEN load.breach + 1 ELSE 1
    IN  IF observed > load.level
        THEN [level |-> IF breach >= Sweeps THEN observed ELSE load.level, observed |-> observed,
              breach |-> IF breach >= Sweeps THEN 0 ELSE breach, clear |-> 0]
        ELSE IF load.level > 0 /\ clear
        THEN [level |-> IF load.clear + 1 >= Sweeps THEN 0 ELSE load.level, observed |-> observed,
              breach |-> 0, clear |-> IF load.clear + 1 >= Sweeps THEN 0 ELSE load.clear + 1]
        ELSE [level |-> load.level, observed |-> observed, breach |-> 0, clear |-> 0]

\* Read the usage snapshots and the pressure sample, save the load state.
BeginSweep ==
    /\ pc = "idle"
    /\ \E observed \in 0..MaxLevel, clear \in BOOLEAN :
          /\ clear => observed = 0
          /\ load' = advance_load_state(observed, clear)
    /\ verdict' = usage
    /\ pc' = "clear" /\ todo' = {s \in Lanes : hold[s] = "superseded"}
    /\ UNCHANGED <<goals, txn, shed, world, bounds, lane, draft, next, known, fresh>>

\* clear_superseded_holds closes the goal, then removes its transaction.
clear_superseded_holds(s) ==
    /\ pc = "clear" /\ s \in todo
    /\ \/ hold[s] = "gone" /\ Raise
       \/ /\ hold[s] # "gone"
          /\ hold' = [hold EXCEPT ![s] = "gone"] /\ due' = due \ {s}
          /\ pc' = "forget" /\ lane' = s
          /\ UNCHANGED <<meddled, outbox, world, bounds, todo, draft, next, verdict, known, fresh>>

ForgetSuperseded ==
    /\ pc = "forget"
    /\ remove_transaction(lane)
    /\ Continue("clear", lane)
    /\ UNCHANGED <<goals, load, shed, bounds>>

\* goal_by_ref is read once and used to the end of the sweep.
ReadGoals ==
    /\ pc = "clear" /\ todo = {}
    /\ known' = hold
    /\ shed' = Restricted(shed, {s \in On(shed) : hold[s] = "load"})
    /\ pc' = "reconcile" /\ todo' = {s \in Lanes : hold[s] \in Frozen}
    /\ UNCHANGED <<goals, txn, load, world, bounds, lane, draft, next, verdict, fresh>>

\* A hold without a transaction; the record has the default backend.
Reconcile(s) ==
    /\ pc = "reconcile" /\ s \in todo
    /\ Continue("reconcile", s)
    /\ \/ /\ txn[s].phase = "none"
          /\ Replace(s, Txn("pause_requested", "claude", known[s], FALSE))
       \/ txn[s].phase # "none" /\ UNCHANGED <<txn, world>>
    /\ UNCHANGED <<goals, load, shed, bounds>>

PauseLoop ==
    /\ pc = "reconcile" /\ todo = {}
    /\ pc' = "pause" /\ todo' = {s \in Lanes : txn[s].phase \in PausePhases}
    /\ known' = [s \in Lanes |-> IF known[s] = "gone" THEN "gone" ELSE "none"]  \* all that is read from here on
    /\ UNCHANGED <<goals, outbox, world, bounds, lane, draft, next, verdict, fresh>>

\* The goal was closed out from under the guard.
Abandon(at, s) ==
    /\ known[s] = "gone"
    /\ remove_transaction(s)
    /\ Continue(at, s)
    /\ UNCHANGED <<goals, load, shed, bounds>>

\* The last order of the pause is confirmed, by a transcript or only by a pane capture.
Stopped(s) ==
    /\ \E transcript \in BOOLEAN :
          Replace(s, Txn("awaiting_quiescence", txn[s].backend, txn[s].why, transcript))
    /\ Continue("pause", s)
    /\ UNCHANGED <<goals, load, shed, bounds>>

Held(s) ==
    /\ Replace(s, Phase(s, "held"))
    /\ Continue("pause", s)
    /\ UNCHANGED <<goals, load, shed, bounds>>

progress_checkpoint(s) ==
    \/ mail[s] = "pending" /\ bounded_wait(s, MaxAttempts)
    \/ mail[s] = "failed" /\ retry_with_fresh_order(s, "checkpoint")
    \/ mail[s] = "sent" /\ txn[s].backend = "codex" /\ Stopped(s)
    \/ mail[s] = "sent" /\ txn[s].backend = "claude" /\ Enqueue(s, "stop", Phase(s, "stop_sent"))

\* Mutant: any result counts as a delivered stop.
StopAnyResult(s) ==
    \/ mail[s] = "pending" /\ bounded_wait(s, MaxAttempts)
    \/ mail[s] \in {"sent", "failed"} /\ Stopped(s)

progress_stop(s) ==
    \/ mail[s] = "pending" /\ bounded_wait(s, MaxAttempts)
    \/ mail[s] = "failed" /\ retry_with_fresh_order(s, "stop")
    \/ mail[s] = "sent" /\ Stopped(s)

\* A changed transcript (or pane) restarts the quiet window and looks at no deadline.
Observe(s) ==
    /\ watch[s] \in {"unseen", "changed"}
    /\ watch' = [watch EXCEPT ![s] = "same"]
    /\ Continue("pause", s)
    /\ UNCHANGED <<goals, outbox, codex, queue, mail, told, late, usage, bounds>>

\* record_pause_recovery raises before the held phase is saved.
CanRecord(s) == hold[s] # "gone" /\ txn[s].transcript /\ txn[s].why # "untimed"

advance_quiescence(s) ==
    IF ~txn[s].transcript /\ txn[s].backend = "claude"
    THEN bounded_wait(s, 1)
    ELSE \/ bounded_wait(s, MaxAttempts)    \* no evidence to read, or quiet but not for long
         \/ Observe(s)
         \/ watch[s] = "quiet" /\ CanRecord(s) /\ Held(s)
         \/ watch[s] = "quiet" /\ ~CanRecord(s) /\ Raise

progress_pause_transaction(s) ==
    /\ pc = "pause" /\ s \in todo
    /\ \/ Abandon("pause", s)
       \/ /\ known[s] # "gone"
          /\ \/ txn[s].phase = "pause_requested" /\ Enqueue(s, "checkpoint", Phase(s, "checkpoint_sent"))
             \/ txn[s].phase = "checkpoint_sent" /\ progress_checkpoint(s)
             \/ txn[s].phase = "stop_sent" /\ progress_stop(s)
             \/ txn[s].phase = "awaiting_quiescence" /\ advance_quiescence(s)

\* plan_pauses: fresh pause verdicts, except holds that are not the guard's own kind.
PausePlan ==
    /\ pc = "pause" /\ todo = {}
    /\ Goto("hold", {s \in Lanes : /\ verdict[s] \in Limits
                                    /\ hold[s] \in {"none"} \cup (Limits \ {verdict[s]})})
    /\ UNCHANGED <<goals, outbox, world, bounds, fresh>>

hold_goal(s, why, at) ==
    \/ hold[s] = "gone" /\ Raise
    \/ /\ hold[s] # "gone"
       /\ hold' = [hold EXCEPT ![s] = why] /\ due' = due \ {s}
       /\ pc' = at /\ lane' = s
       /\ UNCHANGED <<meddled, outbox, world, bounds, todo, draft, next, verdict, known, fresh>>

\* apply_pause: the hold, then the transaction.
ApplyPauseHold(s) ==
    /\ pc = "hold" /\ s \in todo
    /\ hold_goal(s, verdict[s], "begin")

ApplyPauseTransaction ==
    /\ pc = "begin"
    /\ Replace(lane, Txn("pause_requested", Backend(lane), verdict[lane], FALSE))
    /\ Continue("hold", lane)
    /\ UNCHANGED <<goals, load, shed, bounds>>

ResumeLanes == {s \in Lanes : txn[s].phase \in ResumePhases}

\* The lanes above the cap of the active level, in an order that is left open.
ShedPlan ==
    /\ pc = "hold" /\ todo = {}
    /\ \/ /\ load.level = 0
          /\ Goto("resume", ResumeLanes)
       \/ /\ load.level > 0
          /\ LET running == {s \in Lanes : hold[s] = "none"}
                 cap == Cap[load.level]
                 excess == IF Cardinality(running) > cap THEN Cardinality(running) - cap ELSE 0
             IN  \E chosen \in SUBSET running :
                    Cardinality(chosen) = excess /\ Goto("shedhold", chosen)
    /\ UNCHANGED <<goals, outbox, world, bounds, fresh>>

ShedHold(s) ==
    /\ pc = "shedhold" /\ s \in todo
    /\ hold_goal(s, "load", "shedbegin")

ShedTransaction ==
    /\ pc = "shedbegin"
    /\ Replace(lane, Txn("pause_requested", Backend(lane), "load", FALSE))
    /\ pc' = "shedhold" /\ todo' = todo \ {lane}
    /\ fresh' = IF lane \in On(shed) THEN fresh
                ELSE Followed(fresh, {lane}, {<<lane, lane>>})
    /\ UNCHANGED <<goals, load, shed, bounds, lane, draft, next, verdict, known>>

\* The shed stack is saved only after the last lane of the loop.
ShedSave ==
    /\ pc = "shedhold" /\ todo = {}
    /\ shed' = Followed(shed, On(fresh), fresh)
    /\ fresh' = Empty
    /\ Goto("resume", ResumeLanes)
    /\ UNCHANGED <<goals, txn, load, world, bounds>>

\* resume_goal lifts whatever hold the goal has now, and raises if it has none.
resume_goal(s) ==
    \/ hold[s] \in {"none", "gone"} /\ Raise
    \/ /\ hold[s] \notin {"none", "gone"}
       /\ hold' = [hold EXCEPT ![s] = "none"] /\ due' = due \ {s}
       /\ pc' = "requeue" /\ lane' = s
       /\ UNCHANGED <<meddled, outbox, world, bounds, todo, draft, next, verdict, known, fresh>>

\* Mutant: the hold lifts as soon as the resume order is queued.
ResumeUnconfirmed(s) ==
    \/ mail[s] = "failed" /\ retry_with_fresh_order(s, "resume")
    \/ mail[s] \in {"pending", "sent"} /\ resume_goal(s)

progress_resume_sent(s) ==
    \/ mail[s] = "pending" /\ bounded_wait(s, MaxAttempts)
    \/ mail[s] = "failed" /\ retry_with_fresh_order(s, "resume")
    \/ mail[s] = "sent" /\ resume_goal(s)

progress_resume_transaction(s) ==
    /\ pc = "resume" /\ s \in todo
    /\ \/ Abandon("resume", s)
       \/ /\ known[s] # "gone"
          /\ \/ txn[s].phase = "resume_requested" /\ Enqueue(s, "resume", Phase(s, "resume_sent"))
             \/ txn[s].phase = "resume_sent" /\ progress_resume_sent(s)

\* The parked orders themselves move in ClaimQueue; here the call is a step that
\* a crash can separate from its neighbours.
requeue_deferred_for_session ==
    /\ pc = "requeue"
    /\ pc' = "drop"
    /\ UNCHANGED <<goals, outbox, world, bounds, todo, lane, draft, next, verdict, known, fresh>>

DropTransaction ==
    /\ pc = "drop"
    /\ remove_transaction(lane)
    /\ IF txn[lane].why = "load"
       THEN pc' = "unshed" /\ UNCHANGED <<todo, lane, draft, next, verdict, known, fresh>>
       ELSE Continue("resume", lane)
    /\ UNCHANGED <<goals, load, shed, bounds>>

Unshed ==
    /\ pc = "unshed"
    /\ shed' = Restricted(shed, On(shed) \ {lane})
    /\ Continue("resume", lane)
    /\ UNCHANGED <<goals, txn, load, world, bounds>>

Settled(s) == txn[s].phase \in {"none", "held"}

plan_resumes ==
    {s \in due : hold[s] \in {"limit1", "limit2"} /\ Settled(s) /\ verdict[s] = "ok"}

plan_load_resumes ==
    {s \in On(shed) : /\ load.level = 0
                      /\ hold[s] = "load" /\ Settled(s) /\ verdict[s] \in {"ok", "missing"}}

\* Last shed first, then the others in an order that is left open.
select_next_resume(eligible) ==
    LET stacked == eligible \cap On(shed)
    IN  IF stacked = {} THEN eligible
        ELSE {s \in stacked : \A t \in stacked : <<t, s>> \in shed}

\* apply_resume starts at most one resume, and the sweep returns.
FinishSweep ==
    /\ pc = "resume" /\ todo = {}
    /\ LET eligible == plan_resumes \cup plan_load_resumes
       IN  \/ eligible = {} /\ UNCHANGED <<txn, world>>
           \/ \E s \in select_next_resume(eligible) :
                 LET why == IF txn[s].phase = "none" THEN hold[s] ELSE txn[s].why
                 IN  Replace(s, Txn("resume_requested", txn[s].backend, why, FALSE))
    /\ EndSweep
    /\ UNCHANGED <<goals, load, shed, bounds>>

-----------------------------------------------------------------------------
(* Everything that runs beside the sweep *)

Crash ==
    /\ pc # "idle" /\ faults < MaxFaults
    /\ queue' = [s \in Lanes |-> Retag(queue[s], "draft", "stray")]
    /\ faults' = faults + 1
    /\ EndSweep
    /\ UNCHANGED <<goals, outbox, codex, mail, told, watch, late, usage, changes>>

\* What a delivered order tells the lane to do: a Claude lane stops at "stop"
\* (/goal clear), a Codex lane at "checkpoint".
Instructs(s, kind) ==
    CASE kind = "resume" -> "go"
      [] kind = "stop" /\ s \notin codex -> "stop"
      [] kind = "checkpoint" /\ s \in codex -> "stop"
      [] OTHER -> told[s]

\* dispatchd publishes the result of the oldest guard order of a lane.
Deliver(s) ==
    /\ queue[s] # <<>>
    /\ \E result \in {"sent", "failed"} :
          /\ result = "failed" => faults < MaxFaults
          /\ faults' = IF result = "failed" THEN faults + 1 ELSE faults
          /\ told' = [told EXCEPT ![s] = IF result = "sent" THEN Instructs(s, Head(queue[s]).kind) ELSE @]
          /\ mail' = [mail EXCEPT ![s] = IF Head(queue[s]).tag = "mine" THEN result ELSE @]
          /\ draft' = IF Head(queue[s]).tag = "draft" THEN result ELSE draft
    /\ queue' = [queue EXCEPT ![s] = Tail(@)]
    /\ UNCHANGED <<goals, outbox, codex, watch, late, usage, changes,
                   pc, todo, lane, next, verdict, known, fresh>>

LaneActs(s) ==
    /\ txn[s].phase = "awaiting_quiescence" /\ watch[s] \in {"same", "quiet"}
    /\ watch' = [watch EXCEPT ![s] = "changed"]
    /\ UNCHANGED <<goals, outbox, codex, queue, mail, told, late, usage, memory, bounds>>

QuietLongEnough(s) ==
    /\ txn[s].phase = "awaiting_quiescence" /\ watch[s] = "same"
    /\ watch' = [watch EXCEPT ![s] = "quiet"]
    /\ UNCHANGED <<goals, outbox, codex, queue, mail, told, late, usage, memory, bounds>>

DeadlinePasses(s) ==
    /\ txn[s].phase \in {"checkpoint_sent", "stop_sent", "awaiting_quiescence", "resume_sent"}
    /\ mail[s] \in {"none", "pending"} /\ ~txn[s].escalated    \* else nothing reads it
    /\ s \notin late
    /\ late' = late \cup {s}
    /\ UNCHANGED <<goals, outbox, codex, queue, mail, told, watch, usage, memory, bounds>>

WindowResets(s) ==
    /\ hold[s] \in {"limit1", "limit2"} /\ s \notin due
    /\ due' = due \cup {s}
    /\ UNCHANGED <<hold, meddled, outbox, world, memory, bounds>>

UsageChanges(s) ==
    /\ changes < MaxChanges
    /\ \E u \in UsageLevels \ {usage[s]} : usage' = [usage EXCEPT ![s] = u]
    /\ changes' = changes + 1
    /\ UNCHANGED <<goals, outbox, codex, queue, mail, told, watch, late, memory, faults>>

\* hold_goal, resume_goal and close_goal as goals_cli, monitord and the supervisor
\* call them.
Meddle(s, h) ==
    /\ changes < MaxChanges /\ hold[s] \notin {"gone", h}
    /\ hold' = [hold EXCEPT ![s] = h] /\ due' = due \ {s}
    /\ meddled' = meddled \cup {s} /\ changes' = changes + 1
    /\ UNCHANGED <<outbox, world, memory, faults>>

OthersHold(s) == \E h \in OperatorHolds : Meddle(s, h)
OperatorResumes(s) == Meddle(s, "none")
OperatorCloses(s) == Meddle(s, "gone")

Sweep ==
    \/ BeginSweep \/ ForgetSuperseded \/ ReadGoals \/ PauseLoop \/ upsert_transaction
    \/ PausePlan \/ ApplyPauseTransaction \/ ShedPlan \/ ShedTransaction \/ ShedSave
    \/ requeue_deferred_for_session \/ DropTransaction \/ Unshed \/ FinishSweep
    \/ \E s \in Lanes : \/ clear_superseded_holds(s) \/ Reconcile(s) \/ progress_pause_transaction(s)
                         \/ ApplyPauseHold(s) \/ ShedHold(s) \/ progress_resume_transaction(s)

Next ==
    \/ Sweep \/ Crash
    \/ \E s \in Lanes : \/ Deliver(s) \/ LaneActs(s) \/ QuietLongEnough(s)
                         \/ DeadlinePasses(s) \/ WindowResets(s) \/ UsageChanges(s)
                         \/ OthersHold(s) \/ OperatorResumes(s) \/ OperatorCloses(s)

Spec == Init /\ [][Next]_vars

\* The timer runs sweeps for ever and time passes; nothing else is promised.
FairSpec ==
    /\ Spec
    /\ WF_vars(Sweep)
    /\ \A s \in Lanes : WF_vars(DeadlinePasses(s))

-----------------------------------------------------------------------------
Named(s) == {i \in DOMAIN queue[s] : queue[s][i].tag = "mine"}

(* Types, and the outbox's one order per transaction: the order it waits   *)
(* for is queued exactly as long as its result is missing, every other     *)
(* order there is a stray or the one the sweep is about to record, and no  *)
(* result is read for a replaced order.                                    *)
OutboxInv ==
    /\ TypeOK
    /\ \A s \in Lanes :
          /\ IF mail[s] = "pending" THEN \E i \in DOMAIN queue[s] : Named(s) = {i} ELSE Named(s) = {}
          /\ mail[s] # "none" => txn[s].phase \in {"checkpoint_sent", "stop_sent", "resume_sent"}
          /\ (\E i \in DOMAIN queue[s] : queue[s][i].tag = "draft") =>
                pc = "write" /\ lane = s /\ draft = "pending"

(* A lane nobody else wrote is frozen for as long as it has a transaction: *)
(* apply_pause holds before it records, and the hold lifts only with the   *)
(* resume's SENT result in hand, whatever crash comes between the writes.  *)
FreezeCoversTransaction ==
    \A s \in Lanes \ meddled :
        txn[s].phase # "none" =>
            \/ hold[s] \in Frozen
            \/ txn[s].phase = "resume_sent" /\ mail[s] = "sent"

(* With one order per transaction in the outbox, a lane is recorded as     *)
(* held only if the last instruction that reached it was to stop: no       *)
(* earlier resume order overtakes the pause.                               *)
HeldLaneWasStopped ==
    /\ OutboxInv
    /\ \A s \in Lanes : txn[s].phase = "held" => told[s] = "stop"

(* The guard lifts a hold only on a lane whose last delivered instruction  *)
(* was to go on ("the hold only ever lifts once a resume is actually       *)
(* confirmed delivered").                                                  *)
LiftOnlyAfterResume ==
    [][\A s \in Lanes : hold[s] # "none" /\ hold'[s] = "none" /\ changes' = changes => told[s] = "go"]_vars

Undelivered(s) == txn[s].phase \in {"pause_requested", "checkpoint_sent", "stop_sent"} /\ ~txn[s].escalated

(* A pause whose orders are not delivered is not stranded: the deadlines   *)
(* and the attempt limit of _escalate_or_retry move it on or escalate it.  *)
DeliveryWaitsAreBounded ==
    \A s \in Lanes : Undelivered(s) ~> ~Undelivered(s)

(* A resume whose nudge was confirmed is finished by some later sweep, as  *)
(* "the next sweep re-reads the transaction and continues" has it.         *)
ConfirmedResumeFinishes ==
    \A s \in Lanes :
        (txn[s].phase = "resume_sent" /\ mail[s] = "sent") ~> txn[s].phase # "resume_sent"
=============================================================================
