----------------------------- MODULE Dispatchd -----------------------------
(***************************************************************************)
(* Delivery of orders by one dispatchd daemon                              *)
(* (src/src/chitra/dispatchd.py, run_pool.py and dispatch_to_tmux of       *)
(* dispatch.py).  The main thread runs passes (run_once); with             *)
(* DeferDelivery the slow part of a delivery runs on a worker thread of    *)
(* its session and leaves a durable record that a later pass applies, and  *)
(* without it (--once) the pass delivers inline.  The daemon may crash     *)
(* between any two steps and restarts with an empty pool.                  *)
(*                                                                         *)
(* Around it: goal writers hold, resume and redirect a lane under the same *)
(* lane lock; lifecycle transitions take no lane lock; a resumed session's *)
(* parked orders are requeued by another process; agents consume what was  *)
(* pasted.  A file move is one step here (module ClaimQueue takes it       *)
(* apart) and the lane lock is the mutex of module LaneMutex.              *)
(***************************************************************************)
EXTENDS Naturals, FiniteSets

CONSTANTS
    Orders,         \* order ids
    Sessions,       \* lanes
    SessionOf,      \* SessionOf[o]: the lane an order addresses
    Arrival,        \* Arrival[o]: rank of the order file's mtime
    Kind,           \* Kind[o]: "plain", "bypass", "directive" or "relay"
    UriBound,       \* lanes bound to a plug instead of a tmux transcript
    NoOrder,
    DeferDelivery,  \* TRUE: run_forever; FALSE: --once
    MaxAttempts,    \* _DELIVERY_RUN_MAX_ATTEMPTS
    MaxFaults,      \* bound: crashes, worker failures and ledger failures
    MaxChanges      \* bound: goal and lifecycle changes

Kinds == {"plain", "bypass", "directive", "relay"}

ASSUME OrdersAssumption ==
    /\ SessionOf \in [Orders -> Sessions]
    /\ Arrival \in [Orders -> Nat]
    /\ Kind \in [Orders -> Kinds]
    /\ UriBound \subseteq Sessions
    /\ NoOrder \notin Orders
    /\ Sessions \cap {"main", "free"} = {}
    /\ DeferDelivery \in BOOLEAN
    /\ MaxAttempts \in Nat /\ MaxFaults \in Nat /\ MaxChanges \in Nat

VARIABLES
    \* the queue directory
    place,          \* the directory an order file is in
    marker,         \* its owner marker: "none", "live" (this process) or "dead"
    result,         \* results/<id>.json: its status, or "none"
    nonce,          \* orders with a send nonce
    sidecar,        \* orders with a retry sidecar
    lmark,          \* orders with a lifecycle marker
    record,         \* delivery-runs/<id>.json: a worker's outcome, or "none"
    \* the rest of the world
    ledger,         \* orders with a signed delivery row
    pasted,         \* how often the order's text reached the pane
    consumed,       \* orders whose consumption the lane's transcript shows
    goal,           \* goal[s]: "working", "guard-held" (rate limit, load shed) or "held"
    stale,          \* lanes whose goal was redirected or finished since the orders were bound
    life,           \* life[s]: "active", "paused" or "closed"
    owed,           \* lanes resumed whose backlog is still to be requeued
    lock,           \* lane locks: "free" or the thread that holds it
    \* the daemon's memory
    mpc,            \* where the pass is
    todo,           \* what is left of the scan it iterates
    pending,        \* orders it has still to process
    retries,        \* requeued deferrals it processes after those
    job,            \* the outcome it is applying: order, outcome, loop it came from
    run,            \* run[t]: the delivery computed by thread t
    attempts,       \* RunPool attempts per session
    \* bounds
    faults, changes

queue == <<place, marker, result, nonce, sidecar, lmark, record>>
world == <<ledger, pasted, consumed, goal, stale, life, owed>>
pass == <<mpc, todo, pending, retries, job>>
bounds == <<faults, changes>>
vars == <<place, marker, result, nonce, sidecar, lmark, record,
          ledger, pasted, consumed, goal, stale, life, owed, lock,
          mpc, todo, pending, retries, job, run, attempts, faults, changes>>

Threads == {"main"} \cup Sessions

\* DispatchStatus of a terminal result; "closed" is BLOCKED by a closed lifecycle.
Statuses == {"sent", "blocked", "closed", "failed"}

\* _DeliveryOutcome.action, with the result's status where there is a result.
Outcomes == {"existing-result", "ledger-pending", "lock-timeout", "defer-lifecycle",
             "defer-goal-held", "defer-hold", "unconfirmed"} \cup Statuses

RunSteps == {"idle", "lock", "check", "gates", "nonce", "paste", "confirm",
             "unlock", "ledger", "finish", "return"}

PassSteps == {"idle", "lifecycle", "drain", "abandoned", "snapshot", "process",
              "claimed", "inline", "apply", "move", "park", "clear", "done"}

NoRun == [step |-> "idle", order |-> NoOrder, out |-> "none"]
NoJob == [order |-> NoOrder, out |-> "none", from |-> "process"]

TypeOK ==
    /\ place \in [Orders -> {"orders", "in_flight", "deferred", "processed"}]
    /\ marker \in [Orders -> {"none", "live", "dead"}]
    /\ result \in [Orders -> Statuses \cup {"none"}]
    /\ nonce \subseteq Orders /\ sidecar \subseteq Orders /\ lmark \subseteq Orders
    /\ record \in [Orders -> Outcomes \cup {"none"}]
    /\ ledger \subseteq Orders /\ consumed \subseteq Orders
    /\ pasted \in [Orders -> Nat]
    /\ goal \in [Sessions -> {"working", "guard-held", "held"}]
    /\ stale \subseteq Sessions
    /\ life \in [Sessions -> {"active", "paused", "closed"}]
    /\ owed \subseteq Sessions
    /\ lock \in [Sessions -> Threads \cup {"free"}]
    /\ mpc \in PassSteps
    /\ todo \subseteq Orders /\ pending \subseteq Orders /\ retries \subseteq Orders
    /\ job \in [order : Orders \cup {NoOrder}, out : Outcomes \cup {"none"}, from : {"drain", "process"}]
    /\ run \in [Threads -> [step : RunSteps, order : Orders \cup {NoOrder}, out : Outcomes \cup {"none"}]]
    /\ attempts \in [Sessions -> Nat]
    /\ faults \in Nat /\ changes \in Nat

Init ==
    /\ place = [o \in Orders |-> "orders"]
    /\ marker = [o \in Orders |-> "none"]
    /\ result = [o \in Orders |-> "none"]
    /\ nonce = {} /\ sidecar = {} /\ lmark = {}
    /\ record = [o \in Orders |-> "none"]
    /\ ledger = {} /\ consumed = {}
    /\ pasted = [o \in Orders |-> 0]
    /\ goal = [s \in Sessions |-> "working"]
    /\ stale = {}
    /\ life = [s \in Sessions |-> "active"] /\ owed = {}
    /\ lock = [s \in Sessions |-> "free"]
    /\ mpc = "idle" /\ todo = {} /\ pending = {} /\ retries = {} /\ job = NoJob
    /\ run = [t \in Threads |-> NoRun]
    /\ attempts = [s \in Sessions |-> 0]
    /\ faults = 0 /\ changes = 0

Set(f, S, v) == [o \in DOMAIN f |-> IF o \in S THEN v ELSE f[o]]
InFlight(s) == run[s].step # "idle"        \* RunPool.in_flight

-----------------------------------------------------------------------------
(* The pass: run_once *)

\* Mutant: a restarted daemon leaves the claims of its dead predecessor alone.
StartPassKeepsClaims ==
    /\ mpc = "idle"
    /\ mpc' = "lifecycle"
    /\ UNCHANGED <<queue, world, lock, todo, pending, retries, job, run, attempts, bounds>>

\* _reclaim_stale_in_flight: claims without a live owner return to orders/.
StartPass ==
    LET ownerless == {o \in Orders : place[o] = "in_flight" /\ marker[o] # "live"}
        orphan == {o \in Orders : place[o] # "in_flight" /\ marker[o] = "dead"}
    IN
    /\ mpc = "idle"
    /\ place' = Set(place, ownerless, "orders")
    /\ marker' = Set(marker, ownerless \cup orphan, "none")
    /\ mpc' = "lifecycle"
    /\ UNCHANGED <<result, nonce, sidecar, lmark, record, world, lock, todo, pending, retries,
                   job, run, attempts, bounds>>

\* _requeue_lifecycle_deferred, then the snapshot of the delivery records.
RequeueLifecycle ==
    LET back == {o \in lmark : place[o] = "deferred" /\ life[SessionOf[o]] \in {"active", "closed"}}
    IN
    /\ mpc = "lifecycle"
    /\ place' = Set(place, back, "orders")
    /\ lmark' = lmark \ back
    /\ todo' = {o \in Orders : record[o] # "none"}
    /\ mpc' = "drain"
    /\ UNCHANGED <<marker, result, nonce, sidecar, record, world, lock, pending, retries,
                   job, run, attempts, bounds>>

\* _drain_delivery_results, first loop: a record without a claim is dropped, any
\* other is applied.
DrainRecord(o) ==
    /\ mpc = "drain"
    /\ o \in todo
    /\ todo' = todo \ {o}
    /\ \/ /\ place[o] # "in_flight"
          /\ record' = [record EXCEPT ![o] = "none"]
          /\ UNCHANGED <<mpc, job>>
       \/ /\ place[o] = "in_flight"
          /\ job' = [order |-> o, out |-> record[o], from |-> "drain"]
          /\ mpc' = "apply"
          /\ UNCHANGED record
    /\ UNCHANGED <<place, marker, result, nonce, sidecar, lmark, world, lock, pending, retries,
                   run, attempts, bounds>>

StartAbandoned ==
    /\ mpc = "drain" /\ todo = {}
    /\ todo' = {o \in Orders : place[o] = "in_flight" /\ marker[o] = "live"}
    /\ mpc' = "abandoned"
    /\ UNCHANGED <<queue, world, lock, pending, retries, job, run, attempts, bounds>>

\* Second loop: a claim of this process whose session has no run in flight is
\* abandoned and returns to orders/.
RecoverAbandoned(o) ==
    /\ mpc = "abandoned"
    /\ o \in todo
    /\ todo' = todo \ {o}
    /\ \/ /\ InFlight(SessionOf[o])
          /\ UNCHANGED <<place, marker>>
       \/ /\ ~InFlight(SessionOf[o])
          /\ place' = [place EXCEPT ![o] = "orders"]
          /\ marker' = [marker EXCEPT ![o] = "none"]
    /\ UNCHANGED <<result, nonce, sidecar, lmark, record, world, lock, mpc, pending, retries,
                   job, run, attempts, bounds>>

\* The pending snapshot, then _requeue_lane_lock_deferred.
Snapshot ==
    LET retry == {o \in sidecar : place[o] = "deferred"} IN
    /\ mpc = "abandoned" /\ todo = {}
    /\ pending' = {o \in Orders : place[o] = "orders"}
    /\ retries' = retry
    /\ place' = Set(place, retry, "orders")
    /\ mpc' = "process"
    /\ UNCHANGED <<marker, result, nonce, sidecar, lmark, record, world, lock, todo,
                   job, run, attempts, bounds>>

EndPass ==
    /\ mpc = "process" /\ pending = {} /\ retries = {}
    /\ mpc' = "idle"
    /\ job' = NoJob
    /\ UNCHANGED <<queue, world, lock, todo, pending, retries, run, attempts, bounds>>

\* Oldest first, and retries after everything that was pending.
NextInLine == IF pending # {} THEN pending ELSE retries

\* process_one_order: reserve and claim; a reserved or vanished order is skipped.
ClaimOrder(o) ==
    /\ mpc = "process"
    /\ o \in NextInLine
    /\ \A q \in NextInLine : Arrival[o] <= Arrival[q]
    /\ pending' = pending \ {o}
    /\ retries' = IF pending # {} THEN retries ELSE retries \ {o}
    /\ \/ /\ place[o] # "orders" \/ marker[o] # "none"
          /\ UNCHANGED <<place, marker, mpc, job>>
       \/ /\ place[o] = "orders" /\ marker[o] = "none"
          /\ place' = [place EXCEPT ![o] = "in_flight"]
          /\ marker' = [marker EXCEPT ![o] = "live"]
          /\ job' = [order |-> o, out |-> "none", from |-> "process"]
          /\ mpc' = "claimed"
    /\ UNCHANGED <<result, nonce, sidecar, lmark, record, world, lock, todo, run, attempts, bounds>>

\* _goal_contract_rejection: only orders bound to a goal version are checked.
ContractRejects(o) ==
    /\ Kind[o] \in {"directive", "relay"}
    /\ SessionOf[o] \in stale \/ goal[SessionOf[o]] # "working"

\* The rejection "goal-held" of an operator's relayed answer.
HeldRelay(o) ==
    /\ Kind[o] = "relay"
    /\ SessionOf[o] \notin stale /\ goal[SessionOf[o]] # "working"

\* What _process_claimed_order settles before the lane lock: an order with a
\* result is completed, a held relay is parked, a rejected contract is final.  The
\* session's scope, the completion policy (reloaded by every pass), the
\* attestation log or the order file itself may block or fail any order.
PreCheck(o) ==
    IF result[o] # "none" THEN {"existing-result"}
    ELSE IF HeldRelay(o) THEN {"defer-goal-held"}
    ELSE IF ContractRejects(o) THEN {"blocked"}
    ELSE {"none", "blocked", "failed"}

Apply(o, out) ==
    /\ job' = [job EXCEPT !.out = out]
    /\ mpc' = "apply"
    /\ UNCHANGED <<run, attempts>>

\* RunPool.submit: ignored while the session has a run in flight; either way the
\* claim stays held.
Submit(o) ==
    LET s == SessionOf[o] IN
    /\ IF InFlight(s) THEN UNCHANGED <<run, attempts>>
       ELSE /\ run' = [run EXCEPT ![s] = [step |-> "lock", order |-> o, out |-> "none"]]
            /\ attempts' = [attempts EXCEPT ![s] = @ + 1]
    /\ mpc' = "process"
    /\ UNCHANGED job

\* After MaxAttempts runs without a consumed record, and with --once, the pass
\* delivers itself.
DeliverInline(o) ==
    /\ run' = [run EXCEPT !["main"] = [step |-> "lock", order |-> o, out |-> "none"]]
    /\ attempts' = [attempts EXCEPT ![SessionOf[o]] = 0]
    /\ mpc' = "inline"
    /\ UNCHANGED job

ProcessClaimed ==
    LET o == job.order IN
    /\ mpc = "claimed"
    /\ \E out \in PreCheck(o) :
         \/ out # "none" /\ Apply(o, out)
         \/ /\ out = "none"
            /\ DeferDelivery /\ attempts[SessionOf[o]] < MaxAttempts
            /\ Submit(o)
         \/ /\ out = "none"
            /\ ~DeferDelivery \/ attempts[SessionOf[o]] >= MaxAttempts
            /\ DeliverInline(o)
    /\ UNCHANGED <<queue, world, lock, todo, pending, retries, bounds>>

-----------------------------------------------------------------------------
(* Computing an outcome: _compute_delivery_outcome, on a worker or inline *)

Conclude(t, step, out) ==
    run' = [run EXCEPT ![t] = [step |-> step, order |-> run[t].order, out |-> out]]
Advance(t, step) == Conclude(t, step, run[t].out)
LaneOf(t) == SessionOf[run[t].order]

AcquireLane(t) ==
    LET s == LaneOf(t) IN
    /\ run[t].step = "lock"
    /\ \/ /\ lock[s] = "free"
          /\ lock' = [lock EXCEPT ![s] = t]
          /\ Advance(t, "check")
          /\ UNCHANGED faults
       \/ /\ lock[s] # "free"
          /\ UNCHANGED <<lock, faults>>
          /\ Conclude(t, "finish", "lock-timeout")
       \/ /\ faults < MaxFaults           \* another process keeps the lock too long
          /\ faults' = faults + 1
          /\ UNCHANGED lock
          /\ Conclude(t, "finish", "lock-timeout")
    /\ UNCHANGED <<queue, world, pass, attempts, changes>>

CheckResult(t) ==
    /\ run[t].step = "check"
    /\ IF result[run[t].order] # "none" THEN Conclude(t, "unlock", "existing-result")
       ELSE Advance(t, "gates")
    /\ UNCHANGED <<queue, world, lock, pass, attempts, bounds>>

\* Mutant: the guard's hold is not rechecked under the lane lock.
GatesWithoutHold(o) ==
    LET s == SessionOf[o] IN
    CASE HeldRelay(o) -> {"defer-goal-held"}
      [] ~HeldRelay(o) /\ ContractRejects(o) -> {"blocked"}
      [] ~ContractRejects(o) /\ life[s] = "paused" -> {"defer-lifecycle"}
      [] ~ContractRejects(o) /\ life[s] = "closed" -> {"closed"}
      [] OTHER -> {"blocked", "none"}

\* The goal contract, the lifecycle record and the guard's hold, in the code's
\* order.  A retired owner or a missing binding blocks the order as well.
Gates(o) ==
    LET s == SessionOf[o] IN
    CASE HeldRelay(o) -> {"defer-goal-held"}
      [] ~HeldRelay(o) /\ ContractRejects(o) -> {"blocked"}
      [] ~ContractRejects(o) /\ life[s] = "paused" -> {"defer-lifecycle"}
      [] ~ContractRejects(o) /\ life[s] = "closed" -> {"closed"}
      [] ~ContractRejects(o) /\ life[s] = "active" /\ Kind[o] # "bypass" /\ goal[s] = "guard-held" ->
            {"blocked", "defer-hold"}
      [] OTHER -> {"blocked", "none"}

CheckGates(t) ==
    /\ run[t].step = "gates"
    /\ \E out \in Gates(run[t].order) :
         IF out = "none" THEN Advance(t, "nonce") ELSE Conclude(t, "unlock", out)
    /\ UNCHANGED <<queue, world, lock, pass, attempts, bounds>>

\* Mutant: a retry mints a fresh nonce instead of only verifying.
CheckNonceAlwaysMints(t) ==
    /\ run[t].step = "nonce"
    /\ nonce' = nonce \cup {run[t].order}
    /\ Advance(t, "paste")
    /\ UNCHANGED <<place, marker, result, sidecar, lmark, record, world, lock, pass, attempts, bounds>>

\* A nonce makes the order verify-only; otherwise it is minted before the paste.
\* _deliver_via_plug does the same with a plug's send and read proof.
CheckNonce(t) ==
    LET o == run[t].order IN
    /\ run[t].step = "nonce"
    /\ \/ /\ o \in nonce
          /\ \/ o \in consumed /\ Conclude(t, "unlock", "sent")
             \/ Conclude(t, "unlock", "unconfirmed")
          /\ UNCHANGED nonce
       \/ /\ LaneOf(t) \in UriBound        \* no plug: lane-dead or adapter-error
          /\ Conclude(t, "unlock", "failed")
          /\ UNCHANGED nonce
       \/ /\ o \notin nonce
          /\ nonce' = nonce \cup {o}
          /\ Advance(t, "paste")
    /\ UNCHANGED <<place, marker, result, sidecar, lmark, record, world, lock, pass, attempts, bounds>>

\* dispatch_to_tmux up to the paste: the checks before it end in BLOCKED or
\* FAILED with nothing typed.
Paste(t) ==
    LET o == run[t].order IN
    /\ run[t].step = "paste"
    /\ \/ /\ \E out \in {"blocked", "failed"} : Conclude(t, "unlock", out)
          /\ UNCHANGED pasted
       \/ /\ pasted' = [pasted EXCEPT ![o] = @ + 1]
          /\ Advance(t, "confirm")
    /\ UNCHANGED <<queue, ledger, consumed, goal, stale, life, owed, lock, pass, attempts, bounds>>

\* Mutant: the submitted text counts as delivered without the transcript's proof.
ConfirmOptimistic(t) ==
    /\ run[t].step = "confirm"
    /\ \E out \in {"failed", "sent", "unconfirmed"} : Conclude(t, "unlock", out)
    /\ UNCHANGED <<queue, world, lock, pass, attempts, bounds>>

\* dispatch_to_tmux after the paste: submission and the transcript's proof.
Confirm(t) ==
    LET o == run[t].order IN
    /\ run[t].step = "confirm"
    /\ \/ Conclude(t, "unlock", "failed")
       \/ o \in consumed /\ Conclude(t, "unlock", "sent")
       \/ Conclude(t, "unlock", "unconfirmed")
    /\ UNCHANGED <<queue, world, lock, pass, attempts, bounds>>

ReleaseLane(t) ==
    /\ run[t].step = "unlock"
    /\ lock' = [lock EXCEPT ![LaneOf(t)] = "free"]
    /\ Advance(t, IF run[t].out = "sent" THEN "ledger" ELSE "finish")
    /\ UNCHANGED <<queue, world, pass, attempts, bounds>>

\* _ensure_delivery_ledger: sign, append and verify before anything is published.
SignDelivery(t) ==
    LET o == run[t].order IN
    /\ run[t].step = "ledger"
    /\ \/ /\ ledger' = ledger \cup {o}
          /\ Advance(t, "finish")
          /\ UNCHANGED faults
       \/ /\ faults < MaxFaults
          /\ faults' = faults + 1
          /\ Conclude(t, "finish", "ledger-pending")
          /\ UNCHANGED ledger
    /\ UNCHANGED <<queue, pasted, consumed, goal, stale, life, owed, lock, pass, attempts, changes>>

\* _deliver_and_record: the record is durable before the run is over.
RecordOutcome(s) ==
    /\ s \in Sessions
    /\ run[s].step = "finish"
    /\ record' = [record EXCEPT ![run[s].order] = run[s].out]
    /\ Advance(s, "return")
    /\ UNCHANGED <<place, marker, result, nonce, sidecar, lmark, world, lock, pass, attempts, bounds>>

\* The worker's future is done.
WorkerReturns(s) ==
    /\ s \in Sessions
    /\ run[s].step = "return"
    /\ run' = [run EXCEPT ![s] = NoRun]
    /\ UNCHANGED <<queue, world, lock, pass, attempts, bounds>>

\* The inline call returns its outcome to the pass.
InlineOutcome ==
    /\ mpc = "inline"
    /\ run["main"].step = "finish"
    /\ job' = [job EXCEPT !.out = run["main"].out]
    /\ run' = [run EXCEPT !["main"] = NoRun]
    /\ mpc' = "apply"
    /\ UNCHANGED <<queue, world, lock, todo, pending, retries, attempts, bounds>>

\* The daemon ends and starts again: an empty pool, the markers of a dead pid
\* except the ones released on the way out, and reclaimable lane locks.
Restart(lost) ==
    /\ marker' = [o \in Orders |-> IF o \in lost THEN "none"
                                   ELSE IF marker[o] = "live" THEN "dead" ELSE marker[o]]
    /\ lock' = [s \in Sessions |-> "free"]
    /\ mpc' = "idle" /\ todo' = {} /\ pending' = {} /\ retries' = {} /\ job' = NoJob
    /\ run' = [t \in Threads |-> NoRun]
    /\ attempts' = [s \in Sessions |-> 0]

\* A delivery that raises (the lock's FileExistsError, an unreadable goal store,
\* a failed record write) leaves no record; inline it ends the daemon, which
\* first releases the claim's marker.
DeliveryRaises(t) ==
    /\ run[t].step \in {"lock", "gates", "finish"}
    /\ faults < MaxFaults
    /\ faults' = faults + 1
    /\ \/ /\ t \in Sessions
          /\ run' = [run EXCEPT ![t] = NoRun]
          /\ lock' = [s \in Sessions |-> IF lock[s] = t THEN "free" ELSE lock[s]]
          /\ UNCHANGED <<marker, pass, attempts>>
       \/ /\ t = "main" /\ run[t].step # "finish"
          /\ Restart({job.order})
    /\ UNCHANGED <<place, result, nonce, sidecar, lmark, record, world, changes>>

-----------------------------------------------------------------------------
(* Applying an outcome: _apply_delivery_outcome and TerminalFinalization *)

Proven(o) == o \in ledger

Retryable == {"lock-timeout", "unconfirmed"}
Parked == {"defer-lifecycle", "defer-goal-held", "defer-hold"}

\* Mutant: the order is finished before its result is on disk.
PublishResultLate(o, out) == UNCHANGED result

\* StoredResult.create_once, through _write_result_atomic.
PublishResult(o, out) == result' = [result EXCEPT ![o] = out]

\* A delivery that lacks its signed row: the claim is left for the next pass.
LeavePending(o, out) ==
    /\ \/ out = "ledger-pending"
       \/ out = "sent" /\ ~Proven(o)
       \/ out = "existing-result" /\ result[o] = "sent" /\ ~Proven(o)
    /\ mpc' = "done"
    /\ UNCHANGED <<sidecar, lmark, result>>

\* LaneLockRetryTracker.record: the order is retried by every following pass.
ScheduleRetry(o, out) ==
    /\ out \in Retryable
    /\ sidecar' = sidecar \cup {o}
    /\ mpc' = "park"
    /\ UNCHANGED <<lmark, result>>

\* _defer_lifecycle_order and _defer_held_goal_order: parked until a resume.
ParkUntilResume(o, out) ==
    /\ out \in Parked
    /\ sidecar' = sidecar \ {o}
    /\ lmark' = IF out = "defer-lifecycle" THEN lmark \cup {o} ELSE lmark
    /\ mpc' = "park"
    /\ UNCHANGED result

\* _complete_existing_result, or a second verdict: the first result stands.
KeepResult(o, out) ==
    /\ \/ out = "existing-result" /\ (result[o] = "sent" => Proven(o))
       \/ out \in Statuses \ {"sent"} /\ result[o] # "none"
    /\ mpc' = "move"
    /\ UNCHANGED <<sidecar, lmark, result>>

FirstResult(o, out) ==
    /\ out \in Statuses /\ result[o] = "none"
    /\ out = "sent" => Proven(o)
    /\ PublishResult(o, out)
    /\ mpc' = "move"
    /\ UNCHANGED <<sidecar, lmark>>

\* The first durable effect of an outcome: retry state, or the result.  A
\* delivery that meets another result raises FileExistsError and ends the daemon.
ApplyOutcome ==
    LET o == job.order
        out == job.out
    IN
    /\ mpc = "apply"
    /\ \/ /\ \/ LeavePending(o, out) \/ ScheduleRetry(o, out) \/ ParkUntilResume(o, out)
             \/ KeepResult(o, out) \/ FirstResult(o, out)
          /\ UNCHANGED <<marker, lock, todo, pending, retries, job, run, attempts>>
       \/ /\ out = "sent" /\ result[o] # "none" /\ Proven(o)
          /\ Restart(IF job.from = "process" THEN {o} ELSE {})
          /\ UNCHANGED <<sidecar, lmark, result>>
    /\ UNCHANGED <<place, nonce, record, world, bounds>>

ParkOrder ==
    /\ mpc = "park"
    /\ place' = [place EXCEPT ![job.order] = "deferred"]
    /\ mpc' = "done"
    /\ UNCHANGED <<marker, result, nonce, sidecar, lmark, record, world, lock, todo, pending, retries,
                   job, run, attempts, bounds>>

FinishMove ==
    /\ mpc = "move"
    /\ place' = [place EXCEPT ![job.order] = "processed"]
    /\ mpc' = "clear"
    /\ UNCHANGED <<marker, result, nonce, sidecar, lmark, record, world, lock, todo, pending, retries,
                   job, run, attempts, bounds>>

\* The retry sidecar, the send nonce and, for a new result, the lifecycle marker.
ClearControls ==
    LET o == job.order IN
    /\ mpc = "clear"
    /\ sidecar' = sidecar \ {o}
    /\ nonce' = nonce \ {o}
    /\ lmark' = IF job.out = "existing-result" THEN lmark ELSE lmark \ {o}
    /\ mpc' = "done"
    /\ UNCHANGED <<place, marker, result, record, world, lock, todo, pending, retries, job, run, attempts, bounds>>

\* The drain resets the pool's count and removes record and marker;
\* process_one_order releases the marker.
ResolveClaim ==
    LET o == job.order IN
    /\ mpc = "done"
    /\ marker' = [marker EXCEPT ![o] = "none"]
    /\ record' = IF job.from = "drain" THEN [record EXCEPT ![o] = "none"] ELSE record
    /\ attempts' = IF job.from = "drain" THEN [attempts EXCEPT ![SessionOf[o]] = 0] ELSE attempts
    /\ mpc' = job.from
    /\ job' = NoJob
    /\ UNCHANGED <<place, result, nonce, sidecar, lmark, world, lock, todo, pending, retries, run, bounds>>

-----------------------------------------------------------------------------
(* The environment *)

\* The daemon dies; the lane locks it held are reclaimed, its markers are stale.
Crash ==
    /\ faults < MaxFaults
    /\ faults' = faults + 1
    /\ Restart({})
    /\ UNCHANGED <<place, result, nonce, sidecar, lmark, record, world, changes>>

\* goals.py: hold, resume, redirect and completion run under the lane lock.  Who
\* resumes a lane requeues its backlog once, right after.
WriteGoal(s) ==
    /\ changes < MaxChanges
    /\ lock[s] = "free"
    /\ \/ /\ \E g \in {"working", "guard-held", "held"} \ {goal[s]} :
               /\ goal' = [goal EXCEPT ![s] = g]
               /\ owed' = IF g = "working" THEN owed \cup {s} ELSE owed
          /\ UNCHANGED stale
       \/ /\ stale' = stale \cup {s}
          /\ UNCHANGED <<goal, owed>>
    /\ changes' = changes + 1
    /\ UNCHANGED <<queue, ledger, pasted, consumed, life, lock, pass, run, attempts, faults>>

\* recovery.py: lifecycle transitions take the recovery lock, not the lane lock.
ChangeLifecycle(s) ==
    /\ changes < MaxChanges
    /\ \E l \in {"active", "paused", "closed"} :
         /\ l # life[s] /\ life[s] # "closed"
         /\ life' = [life EXCEPT ![s] = l]
    /\ changes' = changes + 1
    /\ UNCHANGED <<queue, ledger, pasted, consumed, goal, stale, owed, lock, pass, run, attempts, faults>>

\* requeue_deferred_for_session
RequeueBacklog(s) ==
    LET back == {o \in Orders : SessionOf[o] = s /\ place[o] = "deferred"} IN
    /\ place' = Set(place, back, "orders")
    /\ lmark' = lmark \ back

\* The requeue after a resume, by the guard, the goals CLI or operator_answer; the
\* last one leaves the backlog of a lane that is held again or paused.
RequeueResumed(s) ==
    /\ s \in owed
    /\ owed' = owed \ {s}
    /\ \/ RequeueBacklog(s)
       \/ (goal[s] # "working" \/ life[s] = "paused") /\ UNCHANGED <<place, lmark>>
    /\ UNCHANGED <<marker, result, nonce, sidecar, record, ledger, pasted, consumed, goal, stale, life,
                   lock, pass, run, attempts, bounds>>

\* operator_answer: an answer recorded for a lane that is neither held nor paused.
RequeueAnswered(s) ==
    /\ goal[s] = "working" /\ life[s] # "paused"
    /\ RequeueBacklog(s)
    /\ UNCHANGED <<marker, result, nonce, sidecar, record, world, lock, pass, run, attempts, bounds>>

\* The agent takes the pasted text up and its transcript shows it.
Consume(o) ==
    /\ pasted[o] > 0
    /\ o \notin consumed
    /\ consumed' = consumed \cup {o}
    /\ UNCHANGED <<queue, ledger, pasted, goal, stale, life, owed, lock, pass, run, attempts, bounds>>

PassStep ==
    \/ StartPass \/ RequeueLifecycle \/ StartAbandoned \/ Snapshot \/ EndPass
    \/ \E o \in Orders : DrainRecord(o) \/ RecoverAbandoned(o) \/ ClaimOrder(o)
    \/ ProcessClaimed \/ InlineOutcome
    \/ ApplyOutcome \/ ParkOrder \/ FinishMove \/ ClearControls \/ ResolveClaim

RunStep(t) ==
    \/ AcquireLane(t) \/ CheckResult(t) \/ CheckGates(t) \/ CheckNonce(t)
    \/ Paste(t) \/ Confirm(t) \/ ReleaseLane(t) \/ SignDelivery(t)
    \/ RecordOutcome(t) \/ WorkerReturns(t)

Environment ==
    \/ Crash
    \/ \E t \in Threads : DeliveryRaises(t)
    \/ \E s \in Sessions : WriteGoal(s) \/ ChangeLifecycle(s)
                           \/ RequeueResumed(s) \/ RequeueAnswered(s)
    \/ \E o \in Orders : Consume(o)

Next == PassStep \/ (\E t \in Threads : RunStep(t)) \/ Environment

Spec == Init /\ [][Next]_vars

\* The daemon polls for ever, its threads run, and whoever resumed a lane gets to
\* the requeue that follows.
FairSpec ==
    /\ Spec
    /\ WF_vars(PassStep)
    /\ \A t \in Threads : WF_vars(RunStep(t))
    /\ \A s \in Sessions : WF_vars(RequeueResumed(s))

-----------------------------------------------------------------------------
(* Properties *)

\* Steps of a delivery that run between LaneLock's acquire and release.
Critical == {"check", "gates", "nonce", "paste", "confirm", "unlock"}

\* Steps between the gates and the paste.
Cleared == {"nonce", "paste"}

\* The lane lock is held exactly by the delivery that is inside its critical
\* section, and a session's worker only ever delivers orders of its session
\* (dispatchd.py, _compute_delivery_outcome from acquire to its finally).
LockMatchesRun ==
    /\ \A t \in Threads : run[t].step # "idle" => run[t].order \in Orders
    /\ \A s \in Sessions : InFlight(s) => SessionOf[run[s].order] = s
    /\ \A s \in Sessions, t \in Threads :
         lock[s] = t <=> run[t].step \in Critical /\ SessionOf[run[t].order] = s

\* The pass never works on nothing, delivers only the order it claimed, and
\* finishes an order only once its result is durable.
PassMatchesJob ==
    /\ mpc \in {"claimed", "inline", "apply", "move", "park", "clear", "done"} => job.order \in Orders
    /\ run["main"].step # "idle" => mpc = "inline" /\ run["main"].order = job.order
    /\ mpc \in {"move", "clear"} => result[job.order] # "none"
    /\ \A o \in Orders : place[o] = "processed" => result[o] # "none"

\* An outcome speaks the truth about an order: "sent" of text the lane's transcript
\* has shown, "existing-result" of a result that is on disk.
Supported(o, out) ==
    /\ out = "sent" => o \in consumed
    /\ out = "existing-result" => result[o] # "none"

\* Every outcome, in a delivery's memory, in a worker's record or in the pass, is
\* supported, and a published "sent" has its ledger row as well.
OutcomeHasEvidence ==
    /\ \A t \in Threads : run[t].step # "idle" => Supported(run[t].order, run[t].out)
    /\ \A o \in Orders : Supported(o, record[o])
    /\ Supported(job.order, job.out)
    /\ \A o \in Orders : result[o] = "sent" => o \in ledger /\ o \in consumed

\* Between the gates and the paste the lane is not held by the guard.
ClearedIsNotHeld ==
    \A t \in Threads :
      run[t].step \in Cleared =>
        Kind[run[t].order] = "bypass" \/ goal[SessionOf[run[t].order]] # "guard-held"

\* The inductive invariant of a pass and its workers: types, the lane lock belongs
\* to the delivery inside it, results precede moves, outcomes are supported, and a
\* delivery past the gates is in a lane the guard does not hold.
DeliveryInv ==
    TypeOK /\ LockMatchesRun /\ PassMatchesJob /\ OutcomeHasEvidence /\ ClearedIsNotHeld

\* What makes a paste unrepeatable when the pass delivers by itself: no worker
\* exists, text that was pasted leaves its nonce until the result replaces it, and
\* a delivery that got to the paste minted its nonce for text not pasted before.
InlinePasteInv ==
    /\ \A s \in Sessions : ~InFlight(s)
    /\ \A o \in Orders : pasted[o] <= 1
    /\ \A o \in Orders : pasted[o] > 0 => o \in nonce \/ result[o] # "none"
    /\ run["main"].step \in {"gates", "nonce", "paste"} => result[run["main"].order] = "none"
    /\ run["main"].step = "paste" => pasted[run["main"].order] = 0 /\ run["main"].order \in nonce

\* No order's text is pasted into a pane twice, whatever crashes, retries and
\* recoveries happen (dispatchd.py, module docstring: a nonce makes a retry
\* verify-only, a result ends it).
AtMostOnePaste == \A o \in Orders : pasted[o] <= 1

\* A published SENT result has a signed ledger row and a transcript that shows the
\* consumption (_ensure_delivery_ledger, _apply_delivery_outcome), and an order file is
\* in processed/ only with a durable result, also after a crash in the middle of
\* TerminalFinalization.apply.
ResultsAreProven ==
    \A o \in Orders :
       /\ result[o] = "sent" => o \in ledger /\ o \in consumed
       /\ place[o] = "processed" => result[o] # "none"

PastesInto(o) == pasted'[o] # pasted[o]

\* A guard hold placed on a lane at any moment keeps ordinary orders out of the
\* pane from then on: _compute_delivery_outcome rechecks it under the lane lock
\* that goals.hold_goal also takes.
NoPasteWhileHeld ==
    [][\A o \in Orders : PastesInto(o) =>
         \/ Kind[o] = "bypass"
         \/ goal[SessionOf[o]] # "guard-held"]_vars

\* Parked for a hold: without sidecar and lifecycle marker no pass takes it up.
ParkedForHold(o) == place[o] = "deferred" /\ o \notin sidecar /\ o \notin lmark

\* An order is settled when it has ended, when its text may be in the pane and only
\* the transcript can still prove it, when it is parked for a hold, or when it
\* waits for a paused lane.
Settled(o) ==
    \/ place[o] = "processed"
    \/ o \in nonce
    \/ ParkedForHold(o)
    \/ place[o] = "deferred" /\ life[SessionOf[o]] = "paused"

\* "requeue_deferred_for_session once the hold actually clears, which atomically
\* returns every deferred order for that session" (dispatchd.py, module docstring):
\* an order parked for a hold does not stay parked on a lane that works again.
ResumedOrdersReturn ==
    \A o \in Orders :
       LET s == SessionOf[o] IN
       ParkedForHold(o) /\ goal[s] = "working" /\ life[s] = "active"
          ~> ~ParkedForHold(o) \/ goal[s] # "working" \/ life[s] # "active"
=============================================================================
