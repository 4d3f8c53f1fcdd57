------------------------- MODULE Dispatchd_proofs ---------------------------
(***************************************************************************)
(* Theorems about the dispatch daemon (Dispatchd) for any number of        *)
(* candidates, faults and restarts: the steps of a pass preserve           *)
(* DeliveryInv as well, and DeliveryInv implies the properties.            *)
(***************************************************************************)
EXTENDS Dispatchd_step_proofs

\* A delivery starts on an idle thread, outside any critical section.
LEMMA StartRun ==
    ASSUME DeliveryInv, NEW t \in Threads, NEW o \in Orders, run[t].step = "idle",
           t \in Sessions => SessionOf[o] = t,
           run' = [run EXCEPT ![t] = [step |-> "lock", order |-> o, out |-> "none"]],
           UNCHANGED <<lock, goal, result, record, ledger, consumed>>
    PROVE  /\ run' \in [Threads -> Run]
           /\ LockMatchesRun' /\ ClearedIsNotHeld'
           /\ job' = job => OutcomeHasEvidence'
<1>0. run \in [Threads -> Run] /\ [step |-> "lock", order |-> o, out |-> "none"] \in Run
  BY Zenon DEF DeliveryInv, TypeOK, Run, RunSteps
<1>1. \A u \in Threads : run'[u] = IF u = t THEN [step |-> "lock", order |-> o, out |-> "none"] ELSE run[u]
  BY Zenon, <1>0
<1>2. {"lock", "idle"} \cap Critical = {} /\ "lock" \notin Cleared
  BY Zenon DEF Critical, Cleared
<1>3. \A u \in Threads : run'[u].step # "idle" => run'[u].order \in Orders
  BY <1>1 DEF DeliveryInv, LockMatchesRun
<1>4. \A s \in Sessions : InFlight(s)' => SessionOf[run'[s].order] = s
  BY <1>1 DEF DeliveryInv, LockMatchesRun, InFlight, Threads
<1>5. ASSUME NEW s \in Sessions, NEW u \in Threads
      PROVE  lock'[s] = u <=> run'[u].step \in Critical /\ SessionOf[run'[u].order] = s
  <2>1. lock[s] = u <=> run[u].step \in Critical /\ SessionOf[run[u].order] = s
    BY Zenon DEF DeliveryInv, LockMatchesRun
  <2>2. CASE u = t
    BY <1>1, <1>2, <2>1, <2>2
  <2>3. CASE u # t
    BY Zenon, <1>1, <2>1, <2>3
  <2> QED
    BY Zenon, <2>2, <2>3
<1>6. LockMatchesRun'
  BY Zenon, <1>3, <1>4, <1>5 DEF LockMatchesRun
<1>7. ClearedIsNotHeld'
  BY <1>1, <1>2 DEF DeliveryInv, ClearedIsNotHeld
<1>8. job' = job => OutcomeHasEvidence'
  BY <1>1 DEF DeliveryInv, OutcomeHasEvidence, Supported
<1> QED
  BY Zenon, <1>0, <1>6, <1>7, <1>8

\* A claimed order is settled at once, handed to its session's worker, or
\* delivered by the pass.
LEMMA ProcessClaimedInv == ASSUME DeliveryInv, ProcessClaimed PROVE DeliveryInv'
<1> DEFINE o == job.order
<1>0. /\ o \in Orders /\ SessionOf[o] \in Sessions /\ mpc = "claimed" /\ "main" \in Threads
      /\ SessionOf[o] \in Threads /\ "main" \notin Sessions
      /\ run["main"].step = "idle"
      /\ UNCHANGED <<queue, world, lock, todo, pending, retries, bounds>>
  BY Zenon, OrdersAssumption DEF ProcessClaimed, DeliveryInv, PassMatchesJob, Threads
<1>1. PICK out \in PreCheck(o) :
        \/ out # "none" /\ Apply(o, out)
        \/ Submit(o)
        \/ DeliverInline(o)
  BY Zenon DEF ProcessClaimed
<1>2. CASE out # "none" /\ Apply(o, out)
  <2>1. out \in Outcomes /\ Supported(o, out)
    BY Zenon, <1>1, <1>2 DEF PreCheck, Outcomes, Statuses, Supported
  <2>2. job' = [order |-> o, out |-> out, from |-> job.from] /\ mpc' = "apply" /\ UNCHANGED <<run, attempts>>
    BY Zenon, <1>2 DEF Apply, DeliveryInv, TypeOK
  <2>3. TypeOK'
    BY Zenon, <1>0, <2>1, <2>2 DEF DeliveryInv, TypeOK, PassSteps, queue, world, bounds
  <2>4. LockMatchesRun' /\ ClearedIsNotHeld'
    BY Zenon, <1>0, <2>2, PassFrame DEF world
  <2>5. PassMatchesJob' /\ OutcomeHasEvidence'
    BY Zenon, <1>0, <2>1, <2>2 DEF DeliveryInv, PassMatchesJob, OutcomeHasEvidence, Supported, queue, world
  <2> QED
    BY Zenon, <2>3, <2>4, <2>5 DEF DeliveryInv
<1>3. CASE Submit(o)
  <2>1. CASE InFlight(SessionOf[o])
    <3>1. UNCHANGED <<run, attempts, job>> /\ mpc' = "process"
      BY Zenon, <1>3, <2>1 DEF Submit
    <3>2. TypeOK'
      BY Zenon, <1>0, <3>1 DEF DeliveryInv, TypeOK, PassSteps, queue, world, bounds
    <3>3. LockMatchesRun' /\ ClearedIsNotHeld'
      BY Zenon, <1>0, <3>1, PassFrame DEF world
    <3>4. PassMatchesJob' /\ OutcomeHasEvidence'
      BY Zenon, <1>0, <3>1 DEF DeliveryInv, PassMatchesJob, OutcomeHasEvidence, Supported, queue, world
    <3> QED
      BY Zenon, <3>2, <3>3, <3>4 DEF DeliveryInv
  <2>2. CASE ~InFlight(SessionOf[o])
    <3>1. /\ run' = [run EXCEPT ![SessionOf[o]] = [step |-> "lock", order |-> o, out |-> "none"]]
          /\ attempts' = [attempts EXCEPT ![SessionOf[o]] = @ + 1]
          /\ job' = job /\ mpc' = "process" /\ run[SessionOf[o]].step = "idle"
      BY Zenon, <1>3, <2>2 DEF Submit, InFlight
    <3>2. run' \in [Threads -> Run] /\ LockMatchesRun' /\ ClearedIsNotHeld' /\ OutcomeHasEvidence'
      BY Zenon, <1>0, <3>1, StartRun DEF queue, world
    <3>3. attempts' \in [Sessions -> Nat]
      <4>1. attempts \in [Sessions -> Nat]
        BY Zenon DEF DeliveryInv, TypeOK
      <4> QED
        BY <1>0, <3>1, <4>1
    <3>4. TypeOK'
      BY Zenon, <1>0, <3>1, <3>2, <3>3 DEF DeliveryInv, TypeOK, Run, PassSteps, queue, world, bounds
    <3>5. run'["main"] = run["main"]
      BY <1>0, <3>1 DEF DeliveryInv, TypeOK
    <3>6. PassMatchesJob'
      BY Zenon, <1>0, <3>1, <3>5 DEF DeliveryInv, PassMatchesJob, queue
    <3> QED
      BY Zenon, <3>2, <3>4, <3>6 DEF DeliveryInv
  <2> QED
    BY Zenon, <2>1, <2>2
<1>4. CASE DeliverInline(o)
  <2>1. /\ run' = [run EXCEPT !["main"] = [step |-> "lock", order |-> o, out |-> "none"]]
        /\ attempts' = [attempts EXCEPT ![SessionOf[o]] = 0]
        /\ job' = job /\ mpc' = "inline"
    BY Zenon, <1>4 DEF DeliverInline
  <2>2. run' \in [Threads -> Run] /\ LockMatchesRun' /\ ClearedIsNotHeld' /\ OutcomeHasEvidence'
    BY Zenon, <1>0, <2>1, StartRun DEF queue, world
  <2>3. attempts' \in [Sessions -> Nat]
    BY Zenon, <2>1 DEF DeliveryInv, TypeOK
  <2>4. TypeOK'
    BY Zenon, <1>0, <2>1, <2>2, <2>3 DEF DeliveryInv, TypeOK, Run, PassSteps, queue, world, bounds
  <2>5. run'["main"].order = o
    BY <1>0, <2>1 DEF DeliveryInv, TypeOK
  <2>6. PassMatchesJob'
    BY Zenon, <1>0, <2>1, <2>5 DEF DeliveryInv, PassMatchesJob, queue
  <2> QED
    BY Zenon, <2>2, <2>4, <2>6 DEF DeliveryInv
<1> QED
  BY Zenon, <1>1, <1>2, <1>3, <1>4

\* The first durable effect of an outcome; a SENT result only with its ledger row.
LEMMA ApplyOutcomeInv == ASSUME DeliveryInv, ApplyOutcome PROVE DeliveryInv'
<1> DEFINE o == job.order
           out == job.out
<1>0. /\ o \in Orders /\ mpc = "apply" /\ UNCHANGED <<place, nonce, record, world, bounds>>
      /\ result \in [Orders -> Statuses \cup {"none"}] /\ run["main"].step = "idle"
  BY Zenon DEF ApplyOutcome, DeliveryInv, PassMatchesJob, TypeOK
<1>1. CASE /\ out = "sent" /\ result[o] # "none" /\ Proven(o)
           /\ Restart(IF job.from = "process" THEN {o} ELSE {})
           /\ UNCHANGED <<sidecar, lmark, result>>
  <2>1. faults' \in Nat
    BY Zenon, <1>0 DEF DeliveryInv, TypeOK, bounds
  <2> QED
    BY Zenon, <1>0, <1>1, <2>1, RestartInv DEF bounds
<1>2. ASSUME LeavePending(o, out) \/ ScheduleRetry(o, out) \/ ParkUntilResume(o, out)
               \/ KeepResult(o, out) \/ FirstResult(o, out),
             UNCHANGED <<marker, lock, todo, pending, retries, job, run, attempts>>
      PROVE  DeliveryInv'
  <2>1. LockMatchesRun' /\ ClearedIsNotHeld'
    BY Zenon, <1>0, <1>2, PassFrame DEF world
  <2>2. /\ sidecar' \subseteq Orders /\ lmark' \subseteq Orders
        /\ mpc' \in {"done", "park", "move"}
    BY Zenon, <1>0, <1>2 DEF LeavePending, ScheduleRetry, ParkUntilResume, KeepResult, FirstResult, DeliveryInv, TypeOK
  <2>3. \/ result' = result
        \/ out \in Statuses /\ (out = "sent" => Proven(o)) /\ result' = [result EXCEPT ![o] = out]
    BY Zenon, <1>2 DEF LeavePending, ScheduleRetry, ParkUntilResume, KeepResult, FirstResult, PublishResult
  <2>4. \A q \in Orders : result[q] # "none" => result'[q] # "none"
    BY Zenon, <1>0, <2>3 DEF Statuses
  <2>5. TypeOK'
    <3>1. result' \in [Orders -> Statuses \cup {"none"}]
      BY Zenon, <1>0, <2>3
    <3> QED
      BY Zenon, <1>0, <1>2, <2>2, <3>1 DEF DeliveryInv, TypeOK, PassSteps, world, bounds
  <2>6. OutcomeHasEvidence'
    <3>1. \A q \in Orders : result'[q] = "sent" => q \in ledger /\ q \in consumed
      BY Zenon, <1>0, <2>3 DEF DeliveryInv, OutcomeHasEvidence, Supported, Proven
    <3>2. \A t \in Threads : run[t].step # "idle" => run[t].order \in Orders
      BY Zenon DEF DeliveryInv, LockMatchesRun
    <3> QED
      BY Zenon, <1>0, <1>2, <2>4, <3>1, <3>2 DEF DeliveryInv, OutcomeHasEvidence, Supported, world
  <2>7. mpc' = "move" => result'[o] # "none"
    <3>1. CASE KeepResult(o, out)
      BY Zenon, <1>0, <3>1 DEF KeepResult, DeliveryInv, OutcomeHasEvidence, Supported
    <3>2. CASE FirstResult(o, out)
      BY Zenon, <1>0, <3>2 DEF FirstResult, PublishResult, Statuses
    <3>3. CASE LeavePending(o, out) \/ ScheduleRetry(o, out) \/ ParkUntilResume(o, out)
      BY Zenon, <3>3 DEF LeavePending, ScheduleRetry, ParkUntilResume
    <3> QED
      BY Zenon, <1>2, <3>1, <3>2, <3>3
  <2>8. PassMatchesJob'
    BY Zenon, <1>0, <1>2, <2>2, <2>4, <2>7 DEF DeliveryInv, PassMatchesJob
  <2> QED
    BY Zenon, <2>1, <2>5, <2>6, <2>8 DEF DeliveryInv
<1> QED
  BY Zenon, <1>1, <1>2 DEF ApplyOutcome

\* Parking and finishing move the claimed file; it is finished only with a result.
LEMMA MoveInv == ASSUME DeliveryInv, ParkOrder \/ FinishMove PROVE DeliveryInv'
<1>0. job.order \in Orders /\ mpc \in {"park", "move"} /\ (FinishMove => result[job.order] # "none")
  BY Zenon DEF ParkOrder, FinishMove, DeliveryInv, PassMatchesJob
<1>1. /\ place' \in [Orders -> {"orders", "in_flight", "deferred", "processed"}]
      /\ \A q \in Orders : place'[q] = "processed" => place[q] = "processed" \/ result[q] # "none"
  <2>1. place \in [Orders -> {"orders", "in_flight", "deferred", "processed"}]
    BY Zenon DEF DeliveryInv, TypeOK
  <2>2. CASE ParkOrder
    BY Zenon, <1>0, <2>1, <2>2 DEF ParkOrder
  <2>3. CASE FinishMove
    BY Zenon, <1>0, <2>1, <2>3 DEF FinishMove
  <2> QED
    BY Zenon, <2>2, <2>3
<1>2. /\ mpc' \in {"done", "clear"} /\ (mpc' = "clear" => result[job.order] # "none")
      /\ UNCHANGED <<marker, result, nonce, sidecar, lmark, record, world, lock, todo, pending, retries,
                     job, run, attempts, bounds>>
  BY Zenon, <1>0 DEF ParkOrder, FinishMove
<1>3. TypeOK'
  BY Zenon, <1>1, <1>2 DEF DeliveryInv, TypeOK, PassSteps, world, bounds
<1>4. LockMatchesRun' /\ ClearedIsNotHeld'
  BY Zenon, <1>2, PassFrame DEF world
<1>5. PassMatchesJob' /\ OutcomeHasEvidence'
  BY Zenon, <1>0, <1>1, <1>2 DEF DeliveryInv, PassMatchesJob, OutcomeHasEvidence, Supported, world
<1> QED
  BY Zenon, <1>3, <1>4, <1>5 DEF DeliveryInv

\* Control files are removed once the order is in processed/.
LEMMA ClearControlsInv == ASSUME DeliveryInv, ClearControls PROVE DeliveryInv'
<1>1. TypeOK'
  BY Zenon DEF DeliveryInv, TypeOK, ClearControls, PassSteps, world, bounds
<1>2. LockMatchesRun' /\ ClearedIsNotHeld'
  BY Zenon, PassFrame DEF ClearControls, world
<1>3. PassMatchesJob' /\ OutcomeHasEvidence'
  BY Zenon DEF DeliveryInv, PassMatchesJob, OutcomeHasEvidence, Supported, ClearControls, world
<1> QED
  BY Zenon, <1>1, <1>2, <1>3 DEF DeliveryInv

\* Releasing the claim forgets the outcome, and the record it came from.
LEMMA ResolveClaimInv == ASSUME DeliveryInv, ResolveClaim PROVE DeliveryInv'
<1>0. /\ job.order \in Orders /\ job.from \in {"drain", "process"} /\ mpc = "done"
      /\ mpc' = job.from /\ job' = NoJob
      /\ UNCHANGED <<place, result, nonce, sidecar, lmark, world, lock, todo, pending, retries, run, bounds>>
  BY Zenon DEF ResolveClaim, DeliveryInv, TypeOK, PassMatchesJob
<1>1. marker' \in [Orders -> {"none", "live", "dead"}]
  BY Zenon, <1>0 DEF ResolveClaim, DeliveryInv, TypeOK
<1>2. /\ record' \in [Orders -> Outcomes \cup {"none"}]
      /\ \A q \in Orders : record'[q] = record[q] \/ record'[q] = "none"
  <2>1. record \in [Orders -> Outcomes \cup {"none"}]
    BY Zenon DEF DeliveryInv, TypeOK
  <2>2. record' = [record EXCEPT ![job.order] = "none"] \/ record' = record
    BY Zenon DEF ResolveClaim
  <2> QED
    BY Zenon, <2>1, <2>2
<1>3. attempts' \in [Sessions -> Nat]
  <2>1. attempts \in [Sessions -> Nat]
    BY Zenon DEF DeliveryInv, TypeOK
  <2>2. attempts' = [attempts EXCEPT ![SessionOf[job.order]] = 0] \/ attempts' = attempts
    BY Zenon DEF ResolveClaim
  <2> QED
    BY <2>1, <2>2
<1>4. TypeOK'
  BY Zenon, <1>0, <1>1, <1>2, <1>3 DEF DeliveryInv, TypeOK, PassSteps, NoJob, world, bounds
<1>5. LockMatchesRun' /\ ClearedIsNotHeld'
  BY Zenon, <1>0, PassFrame DEF world
<1>6. PassMatchesJob'
  BY Zenon, <1>0 DEF DeliveryInv, PassMatchesJob
<1>7. OutcomeHasEvidence'
  BY Zenon, <1>0, <1>2 DEF DeliveryInv, OutcomeHasEvidence, Supported, NoJob, world
<1> QED
  BY Zenon, <1>4, <1>5, <1>6, <1>7 DEF DeliveryInv

-----------------------------------------------------------------------------
\* A goal changes only while its lane's lock is free, so no delivery is then past
\* the gates of that lane.
LEMMA WriteGoalInv == ASSUME DeliveryInv, NEW s \in Sessions, WriteGoal(s) PROVE DeliveryInv'
<1>0. UNCHANGED <<queue, ledger, pasted, consumed, life, lock, pass, run, attempts, faults>>
  BY Zenon DEF WriteGoal
<1>1. /\ goal' \in [Sessions -> {"working", "guard-held", "held"}] /\ stale' \subseteq Sessions
      /\ owed' \subseteq Sessions /\ changes' \in Nat
      /\ \A r \in Sessions : r # s => goal'[r] = goal[r]
  BY DEF WriteGoal, DeliveryInv, TypeOK
<1>2. TypeOK'
  BY Zenon, <1>0, <1>1 DEF DeliveryInv, TypeOK, queue, pass
<1>3. LockMatchesRun' /\ PassMatchesJob' /\ OutcomeHasEvidence'
  <2>1. LockMatchesRun'
    BY Zenon, <1>0 DEF DeliveryInv, LockMatchesRun, InFlight
  <2>2. PassMatchesJob'
    BY Zenon, <1>0 DEF DeliveryInv, PassMatchesJob, queue, pass
  <2>3. OutcomeHasEvidence'
    BY Zenon, <1>0, EvidenceFrame DEF DeliveryInv, queue, pass
  <2> QED
    BY Zenon, <2>1, <2>2, <2>3
<1>4. ClearedIsNotHeld'
  <2> SUFFICES ASSUME NEW t \in Threads, run[t].step \in Cleared
               PROVE  Kind[run[t].order] = "bypass" \/ goal'[SessionOf[run[t].order]] # "guard-held"
    BY Zenon, <1>0 DEF ClearedIsNotHeld
  <2>1. run[t].order \in Orders /\ SessionOf[run[t].order] \in Sessions /\ run[t].step \in Critical
    BY OrdersAssumption DEF DeliveryInv, LockMatchesRun, Cleared, Critical
  <2>2. lock[SessionOf[run[t].order]] = t /\ t # "free"
    <3>1. t # "free"
      BY Zenon, OrdersAssumption DEF Threads
    <3>2. \A r \in Sessions, u \in Threads :
            lock[r] = u <=> run[u].step \in Critical /\ SessionOf[run[u].order] = r
      BY Zenon DEF DeliveryInv, LockMatchesRun
    <3> QED
      BY <2>1, <3>1, <3>2
  <2>3. SessionOf[run[t].order] # s
    BY Zenon, <2>2 DEF WriteGoal
  <2> QED
    BY Zenon, <1>1, <2>1, <2>3 DEF DeliveryInv, ClearedIsNotHeld
<1> QED
  BY Zenon, <1>2, <1>3, <1>4 DEF DeliveryInv

\* No conjunct speaks of the lifecycle: its transitions take no lane lock.
LEMMA ChangeLifecycleInv ==
    ASSUME DeliveryInv, NEW s \in Sessions, ChangeLifecycle(s) PROVE DeliveryInv'
<1>1. life' \in [Sessions -> {"active", "paused", "closed"}] /\ changes' \in Nat
  BY DEF ChangeLifecycle, DeliveryInv, TypeOK
<1>2. TypeOK'
  BY Zenon, <1>1 DEF DeliveryInv, TypeOK, ChangeLifecycle, queue, pass
<1>3. LockMatchesRun' /\ ClearedIsNotHeld'
  BY Zenon, PassFrame DEF ChangeLifecycle
<1>4. PassMatchesJob' /\ OutcomeHasEvidence'
  BY Zenon DEF DeliveryInv, PassMatchesJob, OutcomeHasEvidence, Supported, ChangeLifecycle, queue, pass
<1> QED
  BY Zenon, <1>2, <1>3, <1>4 DEF DeliveryInv

\* A resumed or answered session's parked orders go back to orders/.
LEMMA RequeueInv ==
    ASSUME DeliveryInv, NEW s \in Sessions, RequeueResumed(s) \/ RequeueAnswered(s) PROVE DeliveryInv'
<1>0. UNCHANGED <<marker, result, nonce, sidecar, record, ledger, pasted, consumed, goal, stale, life,
                  lock, pass, run, attempts, bounds>>
  BY Zenon DEF RequeueResumed, RequeueAnswered, world
<1>1. /\ place' \in [Orders -> {"orders", "in_flight", "deferred", "processed"}]
      /\ \A q \in Orders : place'[q] = "processed" => place[q] = "processed"
      /\ lmark' \subseteq Orders
  <2>1. CASE RequeueBacklog(s)
    BY ZenonT(60), <2>1 DEF RequeueBacklog, Set, DeliveryInv, TypeOK
  <2>2. CASE UNCHANGED <<place, lmark>>
    BY Zenon, <2>2 DEF DeliveryInv, TypeOK
  <2> QED
    BY Zenon, <2>1, <2>2 DEF RequeueResumed, RequeueAnswered
<1>2. TypeOK'
  <2>1. owed' \subseteq Sessions
    BY DEF RequeueResumed, RequeueAnswered, world, DeliveryInv, TypeOK
  <2> QED
    BY Zenon, <1>0, <1>1, <2>1 DEF DeliveryInv, TypeOK, pass, bounds
<1>3. LockMatchesRun' /\ ClearedIsNotHeld'
  BY Zenon, <1>0, PassFrame
<1>4. PassMatchesJob'
  BY Zenon, <1>0, <1>1 DEF DeliveryInv, PassMatchesJob, pass
<1>5. OutcomeHasEvidence'
  BY Zenon, <1>0, EvidenceFrame DEF DeliveryInv, pass
<1> QED
  BY Zenon, <1>2, <1>3, <1>4, <1>5 DEF DeliveryInv

\* Evidence only grows.
LEMMA ConsumeInv == ASSUME DeliveryInv, NEW o \in Orders, Consume(o) PROVE DeliveryInv'
<1>1. TypeOK'
  BY DEF DeliveryInv, TypeOK, Consume, queue, pass, bounds
<1>2. LockMatchesRun' /\ ClearedIsNotHeld'
  BY Zenon, PassFrame DEF Consume
<1>3. PassMatchesJob' /\ OutcomeHasEvidence'
  BY Zenon DEF DeliveryInv, PassMatchesJob, OutcomeHasEvidence, Supported, Consume, queue, pass
<1> QED
  BY Zenon, <1>1, <1>2, <1>3 DEF DeliveryInv

-----------------------------------------------------------------------------
\* A freshly started daemon with queued orders satisfies the invariant.
LEMMA InitDeliveryInv == Init => DeliveryInv
<1> SUFFICES ASSUME Init PROVE DeliveryInv
  BY Zenon
<1>1. \A t \in Threads : run[t].step = "idle" /\ run[t] = NoRun
  BY Zenon DEF Init, NoRun
<1>2. \A u \in Threads : u # "free"
  BY Zenon, OrdersAssumption DEF Threads
<1>3. NoRun \in Run /\ NoJob \in [order : Orders \cup {NoOrder}, out : Outcomes \cup {"none"}, from : {"drain", "process"}]
  BY Zenon DEF NoRun, NoJob, Run, RunSteps
<1>4. TypeOK
  <2>1. run \in [Threads -> Run]
    BY Zenon, <1>3 DEF Init
  <2> QED
    BY Zenon, <1>3, <2>1 DEF Init, TypeOK, Run, PassSteps
<1>5. LockMatchesRun
  BY Zenon, <1>1, <1>2 DEF LockMatchesRun, Init, InFlight, Threads, Critical
<1>6. PassMatchesJob /\ OutcomeHasEvidence /\ ClearedIsNotHeld
  BY Zenon, <1>1 DEF PassMatchesJob, OutcomeHasEvidence, Supported, ClearedIsNotHeld, Cleared, Init, NoJob, Threads
<1> QED
  BY Zenon, <1>4, <1>5, <1>6 DEF DeliveryInv

\* Every step of the daemon, its workers and the environment preserves it.
LEMMA NextDeliveryInv == DeliveryInv /\ [Next]_vars => DeliveryInv'
<1> SUFFICES ASSUME DeliveryInv, [Next]_vars PROVE DeliveryInv'
  BY Zenon
<1>1. CASE PassStep
  BY Zenon, <1>1, ScanInv, DrainRecordInv, RecoverAbandonedInv, ClaimOrderInv, ProcessClaimedInv, InlineOutcomeInv,
     ApplyOutcomeInv, MoveInv, ClearControlsInv, ResolveClaimInv DEF PassStep
<1>2. CASE \E t \in Threads : RunStep(t)
  BY Zenon, <1>2, AcquireLaneInv, CheckResultInv, CheckGatesInv, CheckNonceInv, PasteInv, ConfirmInv, ReleaseLaneInv,
     SignDeliveryInv, RecordOutcomeInv, WorkerReturnsInv DEF RunStep
<1>3. CASE Environment
  BY Zenon, <1>3, CrashInv, DeliveryRaisesInv, WriteGoalInv, ChangeLifecycleInv, RequeueInv, ConsumeInv
  DEF Environment
<1>4. CASE UNCHANGED vars
  <2>1. TypeOK'
    BY Zenon, <1>4 DEF vars, DeliveryInv, TypeOK
  <2>2. LockMatchesRun' /\ ClearedIsNotHeld'
    BY Zenon, <1>4, PassFrame DEF vars
  <2>3. PassMatchesJob'
    BY Zenon, <1>4 DEF vars, DeliveryInv, PassMatchesJob
  <2>4. OutcomeHasEvidence'
    BY Zenon, <1>4, EvidenceFrame DEF vars, DeliveryInv
  <2> QED
    BY Zenon, <2>1, <2>2, <2>3, <2>4 DEF DeliveryInv
<1> QED
  BY Zenon, <1>1, <1>2, <1>3, <1>4 DEF Next

\* DeliveryInv holds throughout: for any set of lanes and orders, any delivery mode
\* and any number of faults and goal changes.
THEOREM DeliveryInvariant == Spec => []DeliveryInv
BY InitDeliveryInv, NextDeliveryInv, PTL DEF Spec

\* A SENT result always has its signed ledger row and its transcript proof, and an order
\* in processed/ always has a durable result (_apply_delivery_outcome, TerminalFinalization).
THEOREM PublishedResultsAreProven == Spec => []ResultsAreProven
<1>1. DeliveryInv => ResultsAreProven
  BY Zenon DEF DeliveryInv, OutcomeHasEvidence, PassMatchesJob, ResultsAreProven
<1> QED
  BY <1>1, DeliveryInvariant, PTL

-----------------------------------------------------------------------------
\* Text reaches a pane only in the paste step of a delivery of that order.
LEMMA OnlyPastePastes ==
    ASSUME [Next]_vars, NEW o \in Orders, pasted'[o] # pasted[o], DeliveryInv
    PROVE  \E t \in Threads : Paste(t) /\ run[t].order = o
<1>1. \/ UNCHANGED pasted
      \/ \E t \in Threads : Paste(t)
  <2>1. CASE PassStep
    BY Zenon, <2>1 DEF PassStep, StartPass, RequeueLifecycle, StartAbandoned, Snapshot, EndPass, DrainRecord,
                RecoverAbandoned, ClaimOrder, ProcessClaimed, InlineOutcome, ApplyOutcome, ParkOrder,
                FinishMove, ClearControls, ResolveClaim, world
  <2>2. CASE \E t \in Threads : RunStep(t)
    BY Zenon, <2>2 DEF RunStep, AcquireLane, CheckResult, CheckGates, CheckNonce, Confirm, ReleaseLane,
                SignDelivery, RecordOutcome, WorkerReturns, world
  <2>3. CASE Environment
    BY Zenon, <2>3 DEF Environment, Crash, DeliveryRaises, WriteGoal, ChangeLifecycle, RequeueResumed,
                        RequeueAnswered, Consume, world
  <2> QED
    BY Zenon, <2>1, <2>2, <2>3 DEF Next, vars
<1>2. PICK t \in Threads : Paste(t)
  BY Zenon, <1>1
<1>3. pasted' = pasted \/ pasted' = [pasted EXCEPT ![run[t].order] = @ + 1]
  BY Zenon, <1>2 DEF Paste
<1> QED
  BY <1>2, <1>3 DEF DeliveryInv, TypeOK

\* No ordinary order is pasted into a lane the guard holds: goal writers take the
\* lane lock, so the gate checked under it still holds at the paste.
THEOREM HeldLanesAreNotPastedInto == Spec => NoPasteWhileHeld
<1>1. DeliveryInv /\ [Next]_vars =>
        [\A o \in Orders : PastesInto(o) =>
           \/ Kind[o] = "bypass"
           \/ goal[SessionOf[o]] # "guard-held"]_vars
  <2> SUFFICES ASSUME DeliveryInv, [Next]_vars, NEW o \in Orders, PastesInto(o)
               PROVE  Kind[o] = "bypass" \/ goal[SessionOf[o]] # "guard-held"
    BY Zenon
  <2>1. PICK t \in Threads : Paste(t) /\ run[t].order = o
    BY Zenon, OnlyPastePastes DEF PastesInto
  <2> QED
    BY Zenon, <2>1 DEF Paste, DeliveryInv, ClearedIsNotHeld, Cleared
<1> QED
  BY <1>1, DeliveryInvariant, PTL DEF Spec, NoPasteWhileHeld

-----------------------------------------------------------------------------
(* Deliveries computed by the pass itself *)

\* A step that pastes nothing, drops no nonce and no result, starts no worker and
\* does not bring the pass's delivery past its result check.
LEMMA InlineFrame ==
    ASSUME InlinePasteInv, UNCHANGED pasted,
           \A s \in Sessions : run'[s].step = "idle",
           run["main"].step # "idle" => run["main"].order \in Orders,
           \A o \in Orders : o \in nonce => o \in nonce' \/ result'[o] # "none",
           \A o \in Orders : result[o] # "none" => result'[o] # "none",
           \/ run'["main"] = run["main"] /\ result' = result
           \/ run'["main"].step \notin {"gates", "nonce", "paste"}
    PROVE  InlinePasteInv'
BY Zenon DEF InlinePasteInv, InFlight

\* What a pass does outside its own deliveries.
LEMMA InlinePassStep ==
    ASSUME DeliveryInv, InlinePasteInv, DeferDelivery = FALSE, PassStep PROVE InlinePasteInv'
<1>0. /\ \A s \in Sessions : run[s].step = "idle"
      /\ "main" \in Threads /\ "main" \notin Sessions
      /\ run["main"].step # "idle" => run["main"].order \in Orders
  BY Zenon, OrdersAssumption DEF InlinePasteInv, InFlight, Threads, DeliveryInv, LockMatchesRun
<1>1. CASE StartPass \/ RequeueLifecycle \/ StartAbandoned \/ Snapshot \/ EndPass \/ ParkOrder
           \/ FinishMove \/ ResolveClaim
           \/ \E o \in Orders : DrainRecord(o) \/ RecoverAbandoned(o) \/ ClaimOrder(o)
  <2>1. UNCHANGED <<run, pasted, nonce, result>>
    BY Zenon, <1>1 DEF StartPass, RequeueLifecycle, StartAbandoned, Snapshot, EndPass, ParkOrder, FinishMove,
                ResolveClaim, DrainRecord, RecoverAbandoned, ClaimOrder, queue, world
  <2> QED
    BY Zenon, <1>0, <2>1, InlineFrame
<1>2. CASE ProcessClaimed
  <2>1. /\ UNCHANGED <<pasted, nonce, result>>
        /\ \/ UNCHANGED run
           \/ run' = [run EXCEPT !["main"] = [step |-> "lock", order |-> job.order, out |-> "none"]]
    BY Zenon, <1>2 DEF ProcessClaimed, Apply, DeliverInline, queue, world
  <2>2. /\ \A s \in Sessions : run'[s] = run[s]
        /\ run'["main"] = run["main"] \/ run'["main"].step = "lock"
    <3>1. run \in [Threads -> Run]
      BY Zenon DEF DeliveryInv, TypeOK, Run
    <3>2. \A t \in Threads : t # "main" => run'[t] = run[t]
      BY Zenon, <2>1, <3>1
    <3>3. \A s \in Sessions : s \in Threads /\ s # "main"
      BY Zenon, <1>0 DEF Threads
    <3>4. run'["main"] = run["main"] \/ run'["main"].step = "lock"
      BY <1>0, <2>1, <3>1
    <3> QED
      BY Zenon, <3>2, <3>3, <3>4
  <2> QED
    BY Zenon, <1>0, <2>1, <2>2, InlineFrame
<1>3. CASE InlineOutcome
  <2>1. /\ UNCHANGED <<pasted, nonce, result>>
        /\ run' = [run EXCEPT !["main"] = NoRun]
    BY Zenon, <1>3 DEF InlineOutcome, queue, world
  <2>2. \A t \in Threads : run'[t] = IF t = "main" THEN NoRun ELSE run[t]
    <3>1. run \in [Threads -> Run]
      BY Zenon DEF DeliveryInv, TypeOK, Run
    <3> QED
      BY Zenon, <2>1, <3>1
  <2>3. /\ \A s \in Sessions : run'[s].step = "idle"
        /\ run'["main"].step = "idle"
    <3>1. \A s \in Sessions : s \in Threads /\ s # "main"
      BY Zenon, <1>0 DEF Threads
    <3>2. run'["main"] = NoRun
      BY Zenon, <1>0, <2>2
    <3> QED
      BY <1>0, <2>2, <3>1, <3>2 DEF NoRun
  <2> QED
    BY Zenon, <1>0, <2>1, <2>3, InlineFrame
<1>4. CASE ApplyOutcome
  <2>1. mpc = "apply" /\ job.order \in Orders /\ run["main"].step = "idle"
    BY Zenon, <1>4 DEF ApplyOutcome, DeliveryInv, PassMatchesJob
  <2>2. /\ UNCHANGED <<pasted, nonce>>
        /\ \/ UNCHANGED run
           \/ run' = [t \in Threads |-> NoRun]
        /\ \/ UNCHANGED result
           \/ job.out \in Statuses /\ result' = [result EXCEPT ![job.order] = job.out]
    BY Zenon, <1>4 DEF ApplyOutcome, LeavePending, ScheduleRetry, ParkUntilResume, KeepResult, FirstResult,
                PublishResult, Restart, world
  <2>3. \A t \in Threads : run[t].step = "idle" => run'[t].step = "idle"
    BY <2>2 DEF NoRun
  <2>4. \A o \in Orders : result[o] # "none" => result'[o] # "none"
    BY <2>1, <2>2 DEF DeliveryInv, TypeOK, Statuses
  <2> QED
    BY Zenon, <1>0, <2>1, <2>2, <2>3, <2>4, InlineFrame DEF Threads
<1>5. CASE ClearControls
  <2>1. /\ UNCHANGED <<run, pasted, result>>
        /\ nonce' = nonce \ {job.order} /\ result[job.order] # "none"
    BY Zenon, <1>5 DEF ClearControls, DeliveryInv, PassMatchesJob, world
  <2> QED
    BY Zenon, <1>0, <2>1, InlineFrame
<1> QED
  BY Zenon, <1>1, <1>2, <1>3, <1>4, <1>5 DEF PassStep

\* The pass's own delivery: the result check and the nonce check before the paste.
LEMMA InlineRunStep ==
    ASSUME DeliveryInv, InlinePasteInv, NEW t \in Threads, RunStep(t) PROVE InlinePasteInv'
<1>0. /\ t = "main" /\ run[t].step # "idle" /\ run[t].order \in Orders
      /\ "main" \in Threads /\ "main" \notin Sessions
  <2>1. run[t].step # "idle"
    BY Zenon DEF RunStep, AcquireLane, CheckResult, CheckGates, CheckNonce, Paste, Confirm, ReleaseLane,
           SignDelivery, RecordOutcome, WorkerReturns
  <2> QED
    BY Zenon, <2>1, OrdersAssumption DEF InlinePasteInv, InFlight, Threads, DeliveryInv, LockMatchesRun
<1>1. \A s \in Sessions : run[s].step = "idle"
  BY Zenon DEF InlinePasteInv, InFlight
<1>2. ASSUME NEW step \in RunSteps, NEW out \in Outcomes \cup {"none"}, Conclude(t, step, out)
      PROVE  /\ run'["main"].step = step /\ run'["main"].order = run["main"].order
             /\ \A s \in Sessions : run'[s].step = "idle"
  BY ZenonT(60), <1>0, <1>1, <1>2, ConcludeRun DEF DeliveryInv, RunBecomes, Threads
<1>3. ASSUME NEW step \in RunSteps \ {"gates", "nonce", "paste"}, NEW out \in Outcomes \cup {"none"},
             Conclude(t, step, out), UNCHANGED <<pasted, nonce, result>>
      PROVE  InlinePasteInv'
  BY Zenon, <1>0, <1>2, <1>3, InlineFrame
<1>4. run[t].out \in Outcomes \cup {"none"} /\ result[run[t].order] \in Statuses \cup {"none"}
  BY Zenon, <1>0 DEF DeliveryInv, TypeOK
<1>5. CASE AcquireLane(t)
  <2>1. \E step \in {"check", "finish"}, out \in {run[t].out, "lock-timeout"} : Conclude(t, step, out)
    BY Zenon, <1>5 DEF AcquireLane, Advance
  <2> QED
    BY Zenon, <1>3, <1>4, <1>5, <2>1 DEF AcquireLane, RunSteps, Outcomes, queue, world
<1>6. CASE CheckResult(t)
  <2>1. CASE result[run[t].order] # "none"
    BY Zenon, <1>3, <1>6, <2>1 DEF CheckResult, RunSteps, Outcomes, queue, world
  <2>2. CASE result[run[t].order] = "none"
    <3>1. Conclude(t, "gates", run[t].out) /\ UNCHANGED <<pasted, nonce, result>>
      BY Zenon, <1>6, <2>2 DEF CheckResult, Advance, queue, world
    <3>2. /\ run'["main"].step = "gates" /\ run'["main"].order = run["main"].order
          /\ \A s \in Sessions : run'[s].step = "idle"
      BY Zenon, <1>2, <1>4, <3>1 DEF RunSteps
    <3> QED
      BY Zenon, <1>0, <2>2, <3>1, <3>2 DEF InlinePasteInv, InFlight
  <2> QED
    BY Zenon, <2>1, <2>2
<1>7. CASE CheckGates(t)
  <2>1. PICK out \in Gates(run[t].order) :
          IF out = "none" THEN Advance(t, "nonce") ELSE Conclude(t, "unlock", out)
    BY Zenon, <1>7 DEF CheckGates
  <2>2. out \in Outcomes \cup {"none"} /\ UNCHANGED <<pasted, nonce, result>>
    BY Zenon, <1>7, <2>1 DEF Gates, Outcomes, Statuses, CheckGates, queue, world
  <2>3. CASE out # "none"
    BY Zenon, <1>3, <2>1, <2>2, <2>3 DEF RunSteps
  <2>4. CASE out = "none"
    <3>1. /\ run'["main"].step = "nonce" /\ run'["main"].order = run["main"].order
          /\ \A s \in Sessions : run'[s].step = "idle"
      BY Zenon, <1>2, <1>4, <2>1, <2>4 DEF RunSteps, Advance
    <3> QED
      BY Zenon, <1>0, <1>7, <2>2, <3>1 DEF InlinePasteInv, InFlight, CheckGates
  <2> QED
    BY Zenon, <2>3, <2>4
<1>8. CASE CheckNonce(t)
  <2>1. CASE /\ \E out \in {"sent", "unconfirmed", "failed"} : Conclude(t, "unlock", out)
             /\ UNCHANGED nonce
    BY Zenon, <1>3, <1>8, <2>1 DEF CheckNonce, RunSteps, Outcomes, Statuses, world, queue
  <2>2. CASE run[t].order \notin nonce /\ nonce' = nonce \cup {run[t].order} /\ Advance(t, "paste")
    <3>1. /\ run'["main"].step = "paste" /\ run'["main"].order = run["main"].order
          /\ \A s \in Sessions : run'[s].step = "idle"
          /\ UNCHANGED <<pasted, result>>
      BY Zenon, <1>2, <1>4, <1>8, <2>2 DEF RunSteps, Advance, CheckNonce, world
    <3>2. result[run["main"].order] = "none" /\ pasted[run["main"].order] = 0
      <4>1. result[run["main"].order] = "none" /\ ~(pasted[run["main"].order] > 0)
        BY Zenon, <1>0, <1>8, <2>2 DEF InlinePasteInv, CheckNonce
      <4>2. pasted[run["main"].order] \in Nat
        BY Zenon, <1>0 DEF DeliveryInv, TypeOK
      <4> QED
        BY <4>1, <4>2
    <3> QED
      BY Zenon, <1>0, <2>2, <3>1, <3>2 DEF InlinePasteInv, InFlight
  <2> QED
    BY Zenon, <1>8, <2>1, <2>2 DEF CheckNonce
<1>9. CASE Paste(t)
  <2>1. CASE (\E out \in {"blocked", "failed"} : Conclude(t, "unlock", out)) /\ UNCHANGED pasted
    BY Zenon, <1>3, <1>9, <2>1 DEF Paste, RunSteps, Outcomes, Statuses, queue
  <2>2. CASE pasted' = [pasted EXCEPT ![run[t].order] = @ + 1] /\ Advance(t, "confirm")
    <3>1. /\ run'["main"].step = "confirm" /\ \A s \in Sessions : run'[s].step = "idle"
          /\ UNCHANGED <<nonce, result>>
      BY Zenon, <1>2, <1>4, <1>9, <2>2 DEF RunSteps, Advance, Paste, queue
    <3>2. \A o \in Orders : pasted'[o] = IF o = run[t].order THEN 1 ELSE pasted[o]
      <4>1. pasted \in [Orders -> Nat]
        BY Zenon DEF DeliveryInv, TypeOK
      <4>2. pasted[run[t].order] = 0
        BY Zenon, <1>0, <1>9 DEF InlinePasteInv, Paste
      <4> QED
        BY <2>2, <4>1, <4>2
    <3>3. run[t].order \in nonce
      BY Zenon, <1>0, <1>9 DEF InlinePasteInv, Paste
    <3> QED
      BY <3>1, <3>2, <3>3 DEF InlinePasteInv, InFlight
  <2> QED
    BY Zenon, <1>9, <2>1, <2>2 DEF Paste
<1>10. CASE Confirm(t) \/ ReleaseLane(t) \/ SignDelivery(t)
  <2>1. /\ \E step \in {"unlock", "ledger", "finish"},
             out \in {run[t].out, "failed", "sent", "unconfirmed", "ledger-pending"} : Conclude(t, step, out)
        /\ UNCHANGED <<pasted, nonce, result>>
    BY Zenon, <1>10 DEF Confirm, ReleaseLane, SignDelivery, Advance, queue, world
  <2> QED
    BY Zenon, <1>3, <1>4, <2>1 DEF RunSteps, Outcomes, Statuses
<1>11. ~RecordOutcome(t) /\ ~WorkerReturns(t)
  BY Zenon, <1>0 DEF RecordOutcome, WorkerReturns
<1> QED
  BY Zenon, <1>5, <1>6, <1>7, <1>8, <1>9, <1>10, <1>11 DEF RunStep

\* The environment neither starts a worker nor drops a nonce or a result.
LEMMA InlineEnvironment ==
    ASSUME DeliveryInv, InlinePasteInv, Environment PROVE InlinePasteInv'
<1>0. /\ \A s \in Sessions : run[s].step = "idle"
      /\ "main" \in Threads /\ "main" \notin Sessions
      /\ run["main"].step # "idle" => run["main"].order \in Orders
  BY Zenon, OrdersAssumption DEF InlinePasteInv, InFlight, Threads, DeliveryInv, LockMatchesRun
<1>1. UNCHANGED <<pasted, nonce, result>>
  BY Zenon DEF Environment, Crash, DeliveryRaises, WriteGoal, ChangeLifecycle, RequeueResumed,
                RequeueAnswered, Consume, queue, world
<1>2. UNCHANGED run \/ run' = [t \in Threads |-> NoRun]
  <2>1. \A t \in Sessions : ~DeliveryRaises(t)
    BY Zenon, <1>0 DEF DeliveryRaises
  <2> QED
    BY Zenon, <1>0, <2>1 DEF Environment, Crash, DeliveryRaises, WriteGoal, ChangeLifecycle, RequeueResumed,
                      RequeueAnswered, Consume,
                      Restart, Threads
<1>3. CASE UNCHANGED run
  BY Zenon, <1>0, <1>1, <1>3, InlineFrame
<1>4. CASE run' = [t \in Threads |-> NoRun]
  <2>1. \A t \in Threads : run'[t].step = "idle"
    BY Zenon, <1>4 DEF NoRun
  <2> QED
    BY Zenon, <1>0, <1>1, <2>1, InlineFrame DEF Threads
<1> QED
  BY Zenon, <1>2, <1>3, <1>4

\* With --once no order's text is pasted twice: a paste leaves a nonce, the nonce
\* is cleared only behind a result, and each of them stops the next delivery before
\* the paste.  (With worker threads this is false: run Dispatchd_repeated_paste.)
THEOREM InlineDeliveryPastesOnce == DeferDelivery = FALSE => (Spec => []AtMostOnePaste)
<1> SUFFICES ASSUME DeferDelivery = FALSE PROVE Spec => []AtMostOnePaste
  BY Zenon
<1>1. Init => InlinePasteInv
  BY DEF Init, InlinePasteInv, InFlight, NoRun, Threads
<1>2. DeliveryInv /\ InlinePasteInv /\ [Next]_vars => InlinePasteInv'
  <2>1. ASSUME UNCHANGED vars, InlinePasteInv PROVE InlinePasteInv'
    BY Zenon, <2>1 DEF vars, InlinePasteInv, InFlight
  <2> QED
    BY Zenon, <2>1, InlinePassStep, InlineRunStep, InlineEnvironment DEF Next
<1>3. InlinePasteInv => AtMostOnePaste
  BY Zenon DEF InlinePasteInv, AtMostOnePaste
<1> QED
  BY <1>1, <1>2, <1>3, DeliveryInvariant, PTL DEF Spec

=============================================================================
