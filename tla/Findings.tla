-------------------------------- MODULE Findings --------------------------------
(***************************************************************************)
(* What becomes of the findings of a monitor pass (monitord.run_once): the *)
(* blocker claims that are compared with those of earlier passes           *)
(* (detect/blockers), the count of clean passes that ends in an idle       *)
(* finding, the ladder that the findings are put to, the findings log with *)
(* its emit state, and the determination for the coordinator.              *)
(*                                                                         *)
(* The findings of the other detectors come from outside: `standing` holds *)
(* those that a pass would report now.  One lane, one goal.                *)
(***************************************************************************)
EXTENDS Integers, Sequences, FiniteSets

CONSTANTS
    Excuses,        \* claim keys of blocker claims
    Standing,       \* findings of the other detectors
    Class,          \* finding of a detector -> detector and unmet item
    Threshold,      \* _REPEATED_CLASS_THRESHOLD
    Lease,          \* _DELIVERY_PENDING_LEASE_PASSES
    IdlePasses,     \* idle_pursuit_passes
    MaxTurns, MaxWork, MaxPasses, MaxFailures

\* The findings of the other detectors are none of those made here.
ASSUME StandingIsOther ==
    Standing \cap {"false_blocker", "changed_excuse", "idle_pursuit", "monitor-internal-error"} = {}
ASSUME BoundsAreNatural == IdlePasses \in Nat /\ MaxTurns \in Nat

VARIABLES
    turns,          \* the lane's journal: an excuse, or "call"
    item,           \* the first unmet item
    work,           \* the progress digest
    standing,
    owed,           \* the supervision ledger says a correction is on its way
    claims,         \* BlockerClaimStore: rows [at, key, item], in the order of at
    idle,           \* the idle-pursuit file
    step,           \* where the pass is
    cur,            \* its findings
    ladder,         \* findings put to the ladder
    logged,         \* finding -> its last record in the findings log
    emit,           \* the findings open in the emit state
    opens,          \* class -> how often one of it was opened
    verdict,        \* the last determination
    quiet,          \* clean passes, passes at the same digest, and whether a lease ran
    passes, failures

findingsVars == <<turns, item, work, standing, owed, claims, idle, step, cur, ladder,
          logged, emit, opens, verdict, quiet, passes, failures>>

None == "none"

\* Findings are [by, at]; at is 0 but for a claim, whose turn it is.
Of(by, at) == [by |-> by, at |-> at]
Blockers == {Of(by, at) : by \in {"false_blocker", "changed_excuse"}, at \in 1 .. MaxTurns}
IdleFinding == Of("idle_pursuit", 0)
LaneError == Of("monitor-internal-error", 0)
Known == {Of(s, 0) : s \in Standing} \cup Blockers \cup {IdleFinding, LaneError}
ClassOf(f) == IF f.by \in Standing THEN Class[f.by] ELSE f.by
Classes == {ClassOf(f) : f \in Known}

NoIdle == [known |-> FALSE, digest |-> 0, count |-> 0, waited |-> 0]
NoQuiet == [clean |-> 0, still |-> 0, digest |-> 0, leased |-> FALSE]

FindingsInit ==
    /\ turns = <<>> /\ item = 1 /\ work = 0 /\ standing = {} /\ owed = FALSE
    /\ claims = {} /\ idle = NoIdle /\ step = "rest" /\ cur = {} /\ ladder = {}
    /\ logged = [f \in Known |-> None] /\ emit = {} /\ opens = [c \in Classes |-> 0]
    /\ verdict = None /\ quiet = NoQuiet /\ passes = 0 /\ failures = 0

---------------------------------------------------------------------------
(* The lane and the rest of the monitor *)

Turn(t) ==
    /\ Len(turns) < MaxTurns
    /\ turns' = Append(turns, t)
    /\ UNCHANGED <<item, work, standing, owed, claims, idle, step, cur, ladder, logged, emit,
                   opens, verdict, quiet, passes, failures>>

\* Scoped progress; it may also meet the item.
Work(met) ==
    /\ work < MaxWork
    /\ work' = work + 1
    /\ item' = item + (IF met THEN 1 ELSE 0)
    /\ UNCHANGED <<turns, standing, owed, claims, idle, step, cur, ladder, logged, emit,
                   opens, verdict, quiet, passes, failures>>

Stand(s) ==
    /\ standing' = IF s \in standing THEN standing \ {s} ELSE standing \cup {s}
    /\ step = "rest"
    /\ UNCHANGED <<turns, item, work, owed, claims, idle, step, cur, ladder, logged, emit,
                   opens, verdict, quiet, passes, failures>>

Owe ==
    /\ owed' = ~owed
    /\ step = "rest"
    /\ UNCHANGED <<turns, item, work, standing, claims, idle, step, cur, ladder, logged, emit,
                   opens, verdict, quiet, passes, failures>>

---------------------------------------------------------------------------
(* Blocker claims *)

\* extract_blocker_claims: the turns that assert an obstacle.
ClaimsIn(ts) == {i \in DOMAIN ts : ts[i] # "call"}
Recorded == {c.at : c \in claims}

\* BlockerClaimStore, whose index skips the rows it has.
Stored(history, rows) == history \cup rows

\* What a claim is, next to those of the same goal and item before it.  A call
\* after the last claim of the same obstacle is one after each of them.
Judged(c, history) ==
    LET priors == {d \in history : d.item = c.item /\ d.at < c.at}
        same == {d \in priors : d.key = c.key}
    IN CASE \E d \in same : \A j \in (d.at + 1) .. (c.at - 1) : turns[j] # "call" ->
                {Of("false_blocker", c.at)}
         [] same = {} /\ priors # {} -> {Of("changed_excuse", c.at)}
         [] OTHER -> {}

\* The claims that are not in the store yet, as rows of it.
NewRows == {[at |-> i, key |-> turns[i], item |-> item] : i \in ClaimsIn(turns) \ Recorded}

DetectedAfterStoring == [found |-> {}, rows |-> NewRows]

\* detect_blocker_claims
Detected == [found |-> UNION {Judged(c, claims \cup NewRows) : c \in NewRows}, rows |-> NewRows]

\* run_detectors ends with the claims: the store has them before anything else
\* is done with what was found.
Detect ==
    /\ step = "rest" /\ passes < MaxPasses /\ turns # <<>>
    /\ claims' = Stored(claims, Detected.rows)
    /\ cur' = {Of(s, 0) : s \in standing} \cup Detected.found
    /\ step' = "detected"
    /\ passes' = passes + 1
    /\ UNCHANGED <<turns, item, work, standing, owed, idle, ladder, logged, emit, opens, verdict,
                   quiet, failures>>

---------------------------------------------------------------------------
(* The idle count *)

\* A pass that finds anything, or that waits for an answer or a validator, is
\* not clean.
Clean(busy) == cur = {} /\ ~busy

\* _progress_digest: whether the lane has moved since the last count.
Progressed == idle.digest # work

CountedCarry(progressed) == idle.count + 1

\* The count after a clean pass outside a lease.
Counted(progressed) ==
    CASE idle.known /\ progressed -> 0
      [] idle.known /\ ~progressed -> idle.count + 1
      [] OTHER -> 1

\* A correction on its way suspends the count for some passes.
Waiting == owed /\ idle.waited < Lease

\* _idle_pursuit_finding
PursueIdle(busy) ==
    LET count == Counted(Progressed)
        still == IF quiet.clean > 0 /\ quiet.digest = work THEN quiet.still + 1 ELSE 1
        leased == Waiting \/ (quiet.clean > 0 /\ quiet.leased)
    IN
    /\ step = "detected"
    /\ idle' = IF ~Clean(busy) THEN NoIdle
               ELSE IF Waiting THEN [known |-> TRUE, digest |-> work, count |-> idle.count, waited |-> idle.waited + 1]
               ELSE [known |-> TRUE, digest |-> work, count |-> count,
                     waited |-> IF owed THEN idle.waited + 1 ELSE 0]
    /\ quiet' = IF ~Clean(busy) THEN NoQuiet
                ELSE [clean |-> quiet.clean + 1, still |-> still, digest |-> work, leased |-> leased]
    /\ cur' = IF Clean(busy) /\ ~Waiting /\ count >= IdlePasses THEN {IdleFinding} ELSE cur
    /\ step' = "counted"
    /\ UNCHANGED <<turns, item, work, standing, owed, claims, ladder, logged, emit, opens, verdict,
                   passes, failures>>

---------------------------------------------------------------------------
(* The ladder, the log and the determination *)

\* evaluate_findings: module Supervision is about what follows.
Ladder ==
    /\ step = "counted"
    /\ ladder' = ladder \cup cur
    /\ step' = "pursued"
    /\ UNCHANGED <<turns, item, work, standing, owed, claims, idle, cur, logged, emit, opens, verdict,
                   quiet, passes, failures>>

\* The records of a pass that sees `seen`: those that open and those that close.
Opening(seen) == seen \ emit
Closing(seen) == emit \ seen

AfterOpenRecords(seen) ==
    [f \in Known |-> IF f \in Opening(seen) THEN "open" ELSE logged[f]]

AfterRecords(seen) ==
    [f \in Known |-> IF f \in Opening(seen) THEN "open" ELSE IF f \in Closing(seen) THEN "closed" ELSE logged[f]]

\* append_finding_records, its first write
WriteLog(seen) == logged' = AfterRecords(seen)

\* The emit state that goes with it: open findings, and how often each class
\* was opened (it stops mattering once the class is reported as repeated).
Counts(seen) ==
    [c \in Classes |->
        LET n == opens[c] + Cardinality({f \in Opening(seen) : ClassOf(f) = c})
        IN IF n > Threshold THEN Threshold ELSE n]

Log ==
    /\ step = "pursued"
    /\ WriteLog(cur)
    /\ step' = "logged"
    /\ UNCHANGED <<turns, item, work, standing, owed, claims, idle, cur, ladder, emit, opens, verdict,
                   quiet, passes, failures>>

WriteState ==
    /\ step = "logged"
    /\ emit' = cur /\ opens' = Counts(cur)
    /\ step' = "emitted"
    /\ UNCHANGED <<turns, item, work, standing, owed, claims, idle, cur, ladder, logged, verdict,
                   quiet, passes, failures>>

\* append_determination, on a change of the verdict
Determine ==
    /\ step = "emitted"
    /\ verdict' = IF cur = {} THEN "live" ELSE "not_live"
    /\ step' = "rest" /\ cur' = {}
    /\ UNCHANGED <<turns, item, work, standing, owed, claims, idle, ladder, logged, emit, opens,
                   quiet, passes, failures>>

\* An exception in a pass: all that it still does is to record the error, as
\* the only finding of the lane.
Fail ==
    /\ step \in {"detected", "counted"} /\ failures < MaxFailures
    /\ WriteLog({LaneError})
    /\ emit' = {LaneError} /\ opens' = Counts({LaneError})
    /\ verdict' = "UNKNOWN"
    /\ step' = "rest" /\ cur' = {}
    /\ failures' = failures + 1
    /\ UNCHANGED <<turns, item, work, standing, owed, claims, idle, ladder, quiet, passes>>

\* The process is gone in the middle of a pass.
PassDies ==
    /\ step # "rest" /\ failures < MaxFailures
    /\ step' = "rest" /\ cur' = {}
    /\ failures' = failures + 1
    /\ UNCHANGED <<turns, item, work, standing, owed, claims, idle, ladder, logged, emit, opens,
                   verdict, quiet, passes>>

FindingsNext ==
    \/ \E t \in Excuses \cup {"call"} : Turn(t)
    \/ \E met \in BOOLEAN : Work(met)
    \/ \E s \in Standing : Stand(s)
    \/ Owe \/ Detect
    \/ \E busy \in BOOLEAN : PursueIdle(busy)
    \/ Ladder \/ Log \/ WriteState \/ Determine \/ Fail \/ PassDies

FindingsSpec == FindingsInit /\ [][FindingsNext]_findingsVars

---------------------------------------------------------------------------
(* Properties *)

\* A recorded claim is judged once, by the pass that records it.  If no pass
\* fails, every claim that repeats an earlier one of the same item with no call
\* in between has been put to the ladder when the pass is over ("a finding when
\* it re-appears with no intervening tool call").
RepeatedClaimsArePursued ==
    step = "rest" /\ failures = 0 =>
        \A c, d \in claims :
            (/\ d.at < c.at /\ d.key = c.key /\ d.item = c.item
             /\ \A j \in (d.at + 1) .. (c.at - 1) : turns[j] # "call")
            => Of("false_blocker", c.at) \in ladder

\* The log is ahead of the emit state, whatever fails: a finding that the state
\* holds open has a record, and when every pass went to its end the findings
\* whose last record is not a close are the open ones, and the coordinator was
\* told "live" only if there is none.
FindingsAreOnRecord ==
    /\ \A f \in emit : logged[f] # None
    /\ step = "rest" /\ failures = 0 =>
        /\ emit = {f \in Known : logged[f] = "open"}
        /\ (verdict = "live") => (emit = {})

\* An idle finding takes idle_pursuit_passes clean passes in a row, and if none
\* of them waited for a correction on its way the lane made no progress over
\* that many passes.
IdleIsEarned ==
    IdleFinding \in cur =>
        /\ quiet.clean >= IdlePasses
        /\ ~quiet.leased => quiet.still >= IdlePasses

==================================================================================
