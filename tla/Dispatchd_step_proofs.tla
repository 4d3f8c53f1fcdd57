----------------------- MODULE Dispatchd_step_proofs ------------------------
(***************************************************************************)
(* The steps of one delivery under the lane lock, the ends of deliveries   *)
(* and the restarts of the daemon preserve DeliveryInv, the inductive      *)
(* invariant of the dispatch daemon. Dispatchd_proofs adds the steps of a  *)
(* pass and states the theorems.                                           *)
(***************************************************************************)
EXTENDS Dispatchd, TLAPS

Run == [step : RunSteps, order : Orders \cup {NoOrder}, out : Outcomes \cup {"none"}]

\* What one step of thread t's delivery does to run: t moves to step with outcome
\* out, and nothing else changes.
RunBecomes(t, step, out) ==
    /\ run' \in [Threads -> Run]
    /\ run'[t].step = step /\ run'[t].order = run[t].order /\ run'[t].out = out
    /\ \A u \in Threads \ {t} : run'[u] = run[u]

\* Conclude keeps the order and sets the outcome.
LEMMA ConcludeRun ==
    ASSUME TypeOK, NEW t \in Threads, NEW step \in RunSteps, NEW out \in Outcomes \cup {"none"},
           Conclude(t, step, out)
    PROVE  RunBecomes(t, step, out)
BY DEF TypeOK, Conclude, RunBecomes, Run

\* Advance keeps the order and the outcome of the delivery.
LEMMA AdvanceRun ==
    ASSUME TypeOK, NEW t \in Threads, NEW step \in RunSteps, Advance(t, step)
    PROVE  RunBecomes(t, step, run[t].out)
<1>1. run[t].out \in Outcomes \cup {"none"}
  BY Zenon DEF TypeOK
<1> QED
  BY Zenon, <1>1, ConcludeRun DEF Advance

\* The outcome a running delivery carries is supported.
LEMMA RunSupported ==
    ASSUME DeliveryInv, NEW t \in Threads, run[t].step # "idle"
    PROVE  Supported(run[t].order, run[t].out)
BY Zenon DEF DeliveryInv, OutcomeHasEvidence

\* A step inside the critical section that touches only the delivery itself, the
\* nonce or the pane preserves what DeliveryInv says of locks, passes and evidence.
LEMMA CriticalStep ==
    ASSUME DeliveryInv, NEW t \in Threads, NEW step \in Critical, NEW out,
           run[t].step \in Critical, RunBecomes(t, step, out),
           Supported(run[t].order, out),
           step \in Cleared =>
             Kind[run[t].order] = "bypass" \/ goal[SessionOf[run[t].order]] # "guard-held",
           UNCHANGED <<place, result, record, ledger, consumed, goal, lock, mpc, job>>
    PROVE  LockMatchesRun' /\ PassMatchesJob' /\ OutcomeHasEvidence' /\ ClearedIsNotHeld'
<1>1. LockMatchesRun'
  <2>1. ASSUME NEW u \in Threads
        PROVE  /\ run'[u].order = run[u].order
               /\ run'[u].step # "idle" <=> run[u].step # "idle"
               /\ run'[u].step \in Critical <=> run[u].step \in Critical
    <3>1. CASE u = t
      BY Zenon, <3>1 DEF RunBecomes, Critical
    <3>2. CASE u # t
      BY Zenon, <3>2 DEF RunBecomes
    <3> QED
      BY Zenon, <3>1, <3>2
  <2>2. \A u \in Threads : run'[u].step # "idle" => run'[u].order \in Orders
    BY Zenon, <2>1 DEF DeliveryInv, LockMatchesRun
  <2>3. \A s \in Sessions : InFlight(s)' => SessionOf[run'[s].order] = s
    BY Zenon, <2>1 DEF DeliveryInv, LockMatchesRun, InFlight, Threads
  <2>4. ASSUME NEW s \in Sessions, NEW u \in Threads
        PROVE  lock'[s] = u <=> run'[u].step \in Critical /\ SessionOf[run'[u].order] = s
    BY <2>1 DEF DeliveryInv, LockMatchesRun
  <2> QED
    BY Zenon, <2>2, <2>3, <2>4 DEF LockMatchesRun
<1>2. PassMatchesJob'
  BY Zenon DEF DeliveryInv, PassMatchesJob, RunBecomes, Critical, Threads
<1>3. OutcomeHasEvidence'
  BY ZenonT(60) DEF DeliveryInv, OutcomeHasEvidence, Supported, RunBecomes, Critical, Threads
<1>4. ClearedIsNotHeld'
  BY Zenon DEF DeliveryInv, ClearedIsNotHeld, RunBecomes, Critical, Cleared, Threads
<1> QED
  BY Zenon, <1>1, <1>2, <1>3, <1>4

\* The recheck of the result under the lane lock.
LEMMA CheckResultInv ==
    ASSUME DeliveryInv, NEW t \in Threads, CheckResult(t) PROVE DeliveryInv'
<1>1. PICK step \in {"gates", "unlock"}, out \in Outcomes \cup {"none"} :
        RunBecomes(t, step, out) /\ Supported(run[t].order, out)
  <2>1. CASE result[run[t].order] # "none"
    BY Zenon, <2>1, ConcludeRun DEF DeliveryInv, CheckResult, RunSteps, Outcomes, Supported
  <2>2. CASE result[run[t].order] = "none"
    <3>1. run[t].out \in Outcomes \cup {"none"}
      BY Zenon DEF DeliveryInv, TypeOK
    <3> QED
      BY Zenon, <2>2, <3>1, AdvanceRun, RunSupported DEF DeliveryInv, CheckResult, RunSteps
  <2> QED
    BY Zenon, <2>1, <2>2
<1>2. TypeOK'
  BY Zenon, <1>1 DEF DeliveryInv, TypeOK, CheckResult, RunBecomes, Run, queue, world, pass, bounds
<1>3. LockMatchesRun' /\ PassMatchesJob' /\ OutcomeHasEvidence' /\ ClearedIsNotHeld'
  BY <1>1, CriticalStep
  DEF DeliveryInv, CheckResult, Critical, Cleared, queue, world, pass, bounds
<1> QED
  BY Zenon, <1>2, <1>3 DEF DeliveryInv

\* The gates let a delivery go on only in a lane the guard does not hold.
LEMMA CheckGatesInv ==
    ASSUME DeliveryInv, NEW t \in Threads, CheckGates(t) PROVE DeliveryInv'
<1> DEFINE o == run[t].order
<1>0. o \in Orders
  BY Zenon DEF DeliveryInv, LockMatchesRun, CheckGates
<1>1. PICK got \in Gates(o) : IF got = "none" THEN Advance(t, "nonce") ELSE Conclude(t, "unlock", got)
  BY Zenon DEF CheckGates
<1>2. got \in Outcomes \cup {"none"} /\ got \notin {"sent", "existing-result"}
  BY Zenon, <1>1 DEF Gates, Outcomes, Statuses
<1>3. got = "none" => Kind[o] = "bypass" \/ goal[SessionOf[o]] # "guard-held"
  <2>1. SessionOf[o] \in Sessions
    BY Zenon, <1>0, OrdersAssumption
  <2>2. life[SessionOf[o]] \in {"active", "paused", "closed"}
    BY Zenon, <2>1 DEF DeliveryInv, TypeOK
  <2> QED
    BY Zenon, <1>1, <2>2 DEF Gates, HeldRelay, ContractRejects
<1>4. PICK step \in {"nonce", "unlock"}, out \in Outcomes \cup {"none"} :
        /\ RunBecomes(t, step, out)
        /\ Supported(run[t].order, out)
        /\ step = "nonce" => got = "none"
  <2>1. CASE got = "none"
    <3>1. run[t].out \in Outcomes \cup {"none"}
      BY Zenon DEF DeliveryInv, TypeOK
    <3> QED
      BY Zenon, <1>1, <2>1, <3>1, AdvanceRun, RunSupported DEF DeliveryInv, RunSteps, CheckGates
  <2>2. CASE got # "none"
    BY Zenon, <1>1, <1>2, <2>2, ConcludeRun DEF DeliveryInv, RunSteps, Supported
  <2> QED
    BY Zenon, <2>1, <2>2
<1>5. TypeOK'
  BY Zenon, <1>4 DEF DeliveryInv, TypeOK, CheckGates, RunBecomes, Run, queue, world, pass, bounds
<1>6. LockMatchesRun' /\ PassMatchesJob' /\ OutcomeHasEvidence' /\ ClearedIsNotHeld'
  <2>1. step \in Critical /\ run[t].step \in Critical
    BY Zenon DEF Critical, CheckGates
  <2>2. Supported(run[t].order, out)
    BY Zenon, <1>4
  <2>3. step \in Cleared => Kind[run[t].order] = "bypass" \/ goal[SessionOf[run[t].order]] # "guard-held"
    BY Zenon, <1>3, <1>4 DEF Cleared
  <2>4. UNCHANGED <<place, result, record, ledger, consumed, goal, lock, mpc, job>>
    BY Zenon DEF CheckGates, queue, world, pass
  <2> QED
    BY Zenon, <1>4, <2>1, <2>2, <2>3, <2>4, CriticalStep
<1> QED
  BY Zenon, <1>5, <1>6 DEF DeliveryInv

\* The nonce is minted before the paste, or makes the delivery verify-only.
LEMMA CheckNonceInv ==
    ASSUME DeliveryInv, NEW t \in Threads, CheckNonce(t) PROVE DeliveryInv'
<1>1. PICK step \in {"paste", "unlock"}, out \in Outcomes \cup {"none"} :
        RunBecomes(t, step, out) /\ Supported(run[t].order, out)
  <2>1. run[t].out \in Outcomes \cup {"none"}
    BY Zenon DEF DeliveryInv, TypeOK
  <2>2. CASE Advance(t, "paste")
    BY Zenon, <2>1, <2>2, AdvanceRun, RunSupported DEF DeliveryInv, RunSteps, CheckNonce
  <2>3. CASE Conclude(t, "unlock", "sent") /\ run[t].order \in consumed
    BY <2>3, ConcludeRun DEF DeliveryInv, RunSteps, Outcomes, Statuses, Supported
  <2>4. CASE \E out \in {"unconfirmed", "failed"} : Conclude(t, "unlock", out)
    BY Zenon, <2>4, ConcludeRun DEF DeliveryInv, RunSteps, Outcomes, Statuses, Supported
  <2> QED
    BY Zenon, <2>2, <2>3, <2>4 DEF CheckNonce
<1>2. nonce' \subseteq Orders
  BY DEF CheckNonce, DeliveryInv, TypeOK, LockMatchesRun
<1>3. TypeOK'
  BY Zenon, <1>1, <1>2 DEF DeliveryInv, TypeOK, CheckNonce, RunBecomes, Run, world, pass, bounds
<1>4. LockMatchesRun' /\ PassMatchesJob' /\ OutcomeHasEvidence' /\ ClearedIsNotHeld'
  <2>1. step \in Critical /\ run[t].step \in Critical
    BY Zenon DEF Critical, CheckNonce
  <2>2. Supported(run[t].order, out)
    BY Zenon, <1>1
  <2>3. step \in Cleared => Kind[run[t].order] = "bypass" \/ goal[SessionOf[run[t].order]] # "guard-held"
    BY Zenon DEF Cleared, DeliveryInv, ClearedIsNotHeld, CheckNonce
  <2>4. UNCHANGED <<place, result, record, ledger, consumed, goal, lock, mpc, job>>
    BY Zenon DEF CheckNonce, world, pass
  <2> QED
    BY Zenon, <1>1, <2>1, <2>2, <2>3, <2>4, CriticalStep
<1> QED
  BY Zenon, <1>3, <1>4 DEF DeliveryInv

\* dispatch_to_tmux up to the paste.
LEMMA PasteInv ==
    ASSUME DeliveryInv, NEW t \in Threads, Paste(t) PROVE DeliveryInv'
<1>1. PICK step \in {"confirm", "unlock"}, out \in Outcomes \cup {"none"} :
        RunBecomes(t, step, out) /\ Supported(run[t].order, out)
  <2>1. run[t].out \in Outcomes \cup {"none"}
    BY Zenon DEF DeliveryInv, TypeOK
  <2>2. CASE Advance(t, "confirm")
    BY Zenon, <2>1, <2>2, AdvanceRun, RunSupported DEF DeliveryInv, RunSteps, Paste
  <2>3. CASE \E out \in {"blocked", "failed"} : Conclude(t, "unlock", out)
    BY Zenon, <2>3, ConcludeRun DEF DeliveryInv, RunSteps, Outcomes, Statuses, Supported
  <2> QED
    BY Zenon, <2>2, <2>3 DEF Paste
<1>2. pasted' \in [Orders -> Nat]
  BY DEF Paste, DeliveryInv, TypeOK
<1>3. TypeOK'
  BY Zenon, <1>1, <1>2 DEF DeliveryInv, TypeOK, Paste, RunBecomes, Run, queue, pass, bounds
<1>4. LockMatchesRun' /\ PassMatchesJob' /\ OutcomeHasEvidence' /\ ClearedIsNotHeld'
  <2>1. step \in Critical /\ run[t].step \in Critical
    BY Zenon DEF Critical, Paste
  <2>2. Supported(run[t].order, out)
    BY Zenon, <1>1
  <2>3. step \notin Cleared
    BY Zenon DEF Cleared
  <2>4. UNCHANGED <<place, result, record, ledger, consumed, goal, lock, mpc, job>>
    BY Zenon DEF Paste, queue, pass
  <2> QED
    BY Zenon, <1>1, <2>1, <2>2, <2>3, <2>4, CriticalStep
<1> QED
  BY Zenon, <1>3, <1>4 DEF DeliveryInv

\* dispatch_to_tmux after the paste: "sent" only with the transcript's proof.
LEMMA ConfirmInv ==
    ASSUME DeliveryInv, NEW t \in Threads, Confirm(t) PROVE DeliveryInv'
<1>1. PICK out \in Outcomes \cup {"none"} :
        RunBecomes(t, "unlock", out) /\ Supported(run[t].order, out)
  BY ConcludeRun DEF DeliveryInv, Confirm, RunSteps, Outcomes, Statuses, Supported
<1>2. TypeOK'
  BY Zenon, <1>1 DEF DeliveryInv, TypeOK, Confirm, RunBecomes, Run, queue, world, pass, bounds
<1>3. LockMatchesRun' /\ PassMatchesJob' /\ OutcomeHasEvidence' /\ ClearedIsNotHeld'
  <2>1. "unlock" \in Critical /\ "unlock" \notin Cleared /\ run[t].step \in Critical
    BY Zenon DEF Critical, Cleared, Confirm
  <2>2. UNCHANGED <<place, result, record, ledger, consumed, goal, lock, mpc, job>>
    BY Zenon DEF Confirm, queue, world, pass
  <2> QED
    BY Zenon, <1>1, <2>1, <2>2, CriticalStep
<1> QED
  BY Zenon, <1>2, <1>3 DEF DeliveryInv

\* What keeps the lock invariant: a thread enters or leaves its critical section
\* only together with the lock of the order's lane.
LEMMA LockStep ==
    ASSUME DeliveryInv, NEW t \in Threads, NEW step \in RunSteps \ {"idle"}, NEW out,
           run[t].step # "idle", RunBecomes(t, step, out),
           lock' = [lock EXCEPT ![LaneOf(t)] =
                      IF step \in Critical THEN t
                      ELSE IF run[t].step \in Critical THEN "free" ELSE lock[LaneOf(t)]],
           step \in Critical => run[t].step \in Critical \/ lock[LaneOf(t)] = "free"
    PROVE  LockMatchesRun'
<1>1. run[t].order \in Orders /\ LaneOf(t) \in Sessions
  BY OrdersAssumption DEF DeliveryInv, LockMatchesRun, LaneOf
<1>2. \A u \in Threads : u # "free"
  BY Zenon, OrdersAssumption DEF Threads
<1>3. ASSUME NEW u \in Threads
      PROVE  run'[u].order = run[u].order /\ (run'[u].step # "idle" <=> run[u].step # "idle")
  <2>1. CASE u = t
    BY Zenon, <2>1 DEF RunBecomes
  <2>2. CASE u # t
    BY Zenon, <2>2 DEF RunBecomes
  <2> QED
    BY Zenon, <2>1, <2>2
<1>4. \A u \in Threads : run'[u].step # "idle" => run'[u].order \in Orders
  BY Zenon, <1>3 DEF DeliveryInv, LockMatchesRun
<1>5. \A s \in Sessions : InFlight(s)' => SessionOf[run'[s].order] = s
  BY Zenon, <1>3 DEF DeliveryInv, LockMatchesRun, InFlight, Threads
<1>6. ASSUME NEW s \in Sessions, NEW u \in Threads
      PROVE  lock'[s] = u <=> run'[u].step \in Critical /\ SessionOf[run'[u].order] = s
  <2> lock \in [Sessions -> Threads \cup {"free"}]
    BY Zenon DEF DeliveryInv, TypeOK
  <2> /\ lock[s] = u <=> run[u].step \in Critical /\ SessionOf[run[u].order] = s
      /\ lock[s] = t <=> run[t].step \in Critical /\ SessionOf[run[t].order] = s
    BY Zenon DEF DeliveryInv, LockMatchesRun
  <2>1. CASE s # LaneOf(t)
    <3>1. lock'[s] = lock[s]
      BY Zenon, <2>1
    <3>2. CASE u = t
      BY Zenon, <2>1, <3>1, <3>2, <1>3 DEF LaneOf
    <3>3. CASE u # t
      BY Zenon, <3>1, <3>3 DEF RunBecomes
    <3> QED
      BY Zenon, <3>2, <3>3
  <2>2. CASE s = LaneOf(t) /\ step \in Critical
    <3>1. lock'[s] = t
      BY Zenon, <1>1, <2>2
    <3>2. CASE u = t
      BY Zenon, <2>2, <3>1, <3>2, <1>3 DEF RunBecomes, LaneOf
    <3>3. CASE u # t
      BY Zenon, <1>2, <2>2, <3>1, <3>3 DEF RunBecomes, LaneOf
    <3> QED
      BY Zenon, <3>2, <3>3
  <2>3. CASE s = LaneOf(t) /\ step \notin Critical
    <3>1. lock'[s] = IF run[t].step \in Critical THEN "free" ELSE lock[s]
      BY Zenon, <1>1, <2>3
    <3>2. CASE u = t
      BY Zenon, <1>2, <2>3, <3>1, <3>2 DEF RunBecomes, LaneOf
    <3>3. CASE u # t
      BY Zenon, <1>2, <2>3, <3>1, <3>3 DEF RunBecomes, LaneOf
    <3> QED
      BY Zenon, <3>2, <3>3
  <2> QED
    BY Zenon, <2>1, <2>2, <2>3
<1> QED
  BY Zenon, <1>4, <1>5, <1>6 DEF LockMatchesRun

\* A step of a running delivery that publishes nothing and is not past the gates.
LEMMA OuterStep ==
    ASSUME DeliveryInv, NEW t \in Threads, NEW step \in RunSteps \ (Cleared \cup {"idle"}), NEW out,
           run[t].step # "idle", RunBecomes(t, step, out),
           Supported(run[t].order, out),
           ledger \subseteq ledger',
           UNCHANGED <<place, result, record, consumed, goal, mpc, job>>
    PROVE  PassMatchesJob' /\ OutcomeHasEvidence' /\ ClearedIsNotHeld'
<1>1. PassMatchesJob'
  BY Zenon DEF DeliveryInv, PassMatchesJob, RunBecomes, Threads
<1>2. OutcomeHasEvidence'
  BY Zenon DEF DeliveryInv, OutcomeHasEvidence, Supported, RunBecomes, Threads
<1>3. ClearedIsNotHeld'
  BY Zenon DEF DeliveryInv, ClearedIsNotHeld, RunBecomes, Threads
<1> QED
  BY Zenon, <1>1, <1>2, <1>3

\* The lane lock is taken, or the wait for it times out.
LEMMA AcquireLaneInv ==
    ASSUME DeliveryInv, NEW t \in Threads, AcquireLane(t) PROVE DeliveryInv'
<1>0. run[t].out \in Outcomes \cup {"none"} /\ lock \in [Sessions -> Threads \cup {"free"}]
  BY Zenon DEF DeliveryInv, TypeOK
<1>1. LaneOf(t) \in Sessions
  BY Zenon, OrdersAssumption DEF DeliveryInv, LockMatchesRun, LaneOf, AcquireLane
<1>2. PICK step \in {"check", "finish"}, out \in Outcomes \cup {"none"} :
        /\ RunBecomes(t, step, out) /\ Supported(run[t].order, out)
        /\ step = "check" => lock[LaneOf(t)] = "free" /\ lock' = [lock EXCEPT ![LaneOf(t)] = t]
        /\ step = "finish" => lock' = lock
  <2>1. CASE lock[LaneOf(t)] = "free" /\ lock' = [lock EXCEPT ![LaneOf(t)] = t] /\ Advance(t, "check")
    BY Zenon, <1>0, <2>1, AdvanceRun, RunSupported DEF AcquireLane, DeliveryInv, RunSteps
  <2>2. CASE lock' = lock /\ Conclude(t, "finish", "lock-timeout")
    BY Zenon, <2>2, ConcludeRun DEF AcquireLane, DeliveryInv, RunSteps, Outcomes, Supported
  <2> QED
    BY Zenon, <2>1, <2>2 DEF AcquireLane
<1>3. TypeOK'
  <2>1. faults' \in Nat /\ lock' \in [Sessions -> Threads \cup {"free"}]
    BY <1>0, <1>1, <1>2 DEF DeliveryInv, TypeOK, AcquireLane
  <2> QED
    BY Zenon, <1>2, <2>1 DEF DeliveryInv, TypeOK, AcquireLane, RunBecomes, Run, queue, world, pass
<1>4. LockMatchesRun'
  <2>1. step \in RunSteps \ {"idle"} /\ run[t].step # "idle" /\ run[t].step \notin Critical
    BY Zenon DEF RunSteps, AcquireLane, Critical
  <2>2. step \in Critical <=> step = "check"
    BY Zenon DEF Critical
  <2>3. lock' = [lock EXCEPT ![LaneOf(t)] = IF step \in Critical THEN t
                   ELSE IF run[t].step \in Critical THEN "free" ELSE lock[LaneOf(t)]]
    BY Zenon, <1>0, <1>1, <1>2, <2>1, <2>2
  <2> QED
    BY Zenon, <1>2, <2>1, <2>2, <2>3, LockStep
<1>5. PassMatchesJob' /\ OutcomeHasEvidence' /\ ClearedIsNotHeld'
  <2>1. step \in RunSteps \ (Cleared \cup {"idle"}) /\ run[t].step # "idle"
    BY Zenon DEF RunSteps, AcquireLane, Cleared
  <2>2. UNCHANGED <<place, result, record, ledger, consumed, goal, mpc, job>>
    BY Zenon DEF AcquireLane, queue, world, pass
  <2> QED
    BY Zenon, <1>2, <2>1, <2>2, OuterStep
<1> QED
  BY Zenon, <1>3, <1>4, <1>5 DEF DeliveryInv

\* The lane lock is released after the outcome is known.
LEMMA ReleaseLaneInv ==
    ASSUME DeliveryInv, NEW t \in Threads, ReleaseLane(t) PROVE DeliveryInv'
<1>0. run[t].out \in Outcomes \cup {"none"} /\ lock \in [Sessions -> Threads \cup {"free"}]
  BY Zenon DEF DeliveryInv, TypeOK
<1>1. PICK step \in {"ledger", "finish"} : RunBecomes(t, step, run[t].out)
  BY Zenon, AdvanceRun DEF ReleaseLane, DeliveryInv, RunSteps
<1>2. TypeOK'
  BY Zenon, <1>0, <1>1 DEF DeliveryInv, TypeOK, ReleaseLane, RunBecomes, Run, queue, world, pass, bounds
<1>3. LockMatchesRun'
  <2>1. step \in RunSteps \ {"idle"} /\ run[t].step # "idle" /\ run[t].step \in Critical /\ step \notin Critical
    BY Zenon DEF RunSteps, ReleaseLane, Critical
  <2>2. lock' = [lock EXCEPT ![LaneOf(t)] = IF step \in Critical THEN t
                   ELSE IF run[t].step \in Critical THEN "free" ELSE lock[LaneOf(t)]]
    BY Zenon, <2>1 DEF ReleaseLane
  <2> QED
    BY Zenon, <1>1, <2>1, <2>2, LockStep
<1>4. PassMatchesJob' /\ OutcomeHasEvidence' /\ ClearedIsNotHeld'
  <2>1. /\ step \in RunSteps \ (Cleared \cup {"idle"}) /\ run[t].step # "idle"
        /\ Supported(run[t].order, run[t].out)
    BY Zenon, RunSupported DEF RunSteps, ReleaseLane, Cleared
  <2>2. UNCHANGED <<place, result, record, ledger, consumed, goal, mpc, job>>
    BY Zenon DEF ReleaseLane, queue, world, pass
  <2> QED
    BY Zenon, <1>1, <2>1, <2>2, OuterStep
<1> QED
  BY Zenon, <1>2, <1>3, <1>4 DEF DeliveryInv

-----------------------------------------------------------------------------
\* The signed row is appended, or the delivery stays pending.
LEMMA SignDeliveryInv ==
    ASSUME DeliveryInv, NEW t \in Threads, SignDelivery(t) PROVE DeliveryInv'
<1>0. run[t].out \in Outcomes \cup {"none"} /\ lock \in [Sessions -> Threads \cup {"free"}]
      /\ run[t].order \in Orders /\ LaneOf(t) \in Sessions
  BY OrdersAssumption DEF DeliveryInv, TypeOK, LockMatchesRun, SignDelivery, LaneOf
<1>1. PICK out \in Outcomes \cup {"none"} :
        RunBecomes(t, "finish", out) /\ Supported(run[t].order, out)
  <2>1. CASE Advance(t, "finish")
    BY Zenon, <1>0, <2>1, AdvanceRun, RunSupported DEF DeliveryInv, RunSteps, SignDelivery
  <2>2. CASE Conclude(t, "finish", "ledger-pending")
    BY <2>2, ConcludeRun DEF DeliveryInv, RunSteps, Outcomes, Supported
  <2> QED
    BY Zenon, <2>1, <2>2 DEF SignDelivery
<1>2. ledger \subseteq ledger' /\ ledger' \subseteq Orders /\ faults' \in Nat
  BY <1>0 DEF SignDelivery, DeliveryInv, TypeOK
<1>3. TypeOK'
  BY Zenon, <1>0, <1>1, <1>2 DEF DeliveryInv, TypeOK, SignDelivery, RunBecomes, Run, queue, pass
<1>4. LockMatchesRun'
  <2>1. "finish" \in RunSteps \ {"idle"} /\ run[t].step # "idle" /\ run[t].step \notin Critical
        /\ "finish" \notin Critical
    BY Zenon DEF RunSteps, SignDelivery, Critical
  <2>2. lock' = [lock EXCEPT ![LaneOf(t)] = IF "finish" \in Critical THEN t
                   ELSE IF run[t].step \in Critical THEN "free" ELSE lock[LaneOf(t)]]
    BY Zenon, <1>0, <2>1 DEF SignDelivery
  <2> QED
    BY Zenon, <1>1, <2>1, <2>2, LockStep
<1>5. PassMatchesJob' /\ OutcomeHasEvidence' /\ ClearedIsNotHeld'
  <2>1. "finish" \in RunSteps \ (Cleared \cup {"idle"}) /\ run[t].step # "idle"
    BY Zenon DEF RunSteps, SignDelivery, Cleared
  <2>2. UNCHANGED <<place, result, record, consumed, goal, mpc, job>>
    BY Zenon DEF SignDelivery, queue, pass
  <2> QED
    BY Zenon, <1>1, <1>2, <2>1, <2>2, OuterStep
<1> QED
  BY Zenon, <1>3, <1>4, <1>5 DEF DeliveryInv

\* A worker's durable record carries its outcome.
LEMMA RecordOutcomeInv ==
    ASSUME DeliveryInv, NEW t \in Threads, RecordOutcome(t) PROVE DeliveryInv'
<1>0. /\ run[t].out \in Outcomes \cup {"none"} /\ run[t].order \in Orders
      /\ lock \in [Sessions -> Threads \cup {"free"}] /\ LaneOf(t) \in Sessions
  <2>1. run[t].out \in Outcomes \cup {"none"} /\ lock \in [Sessions -> Threads \cup {"free"}]
    BY Zenon DEF DeliveryInv, TypeOK
  <2>2. run[t].order \in Orders
    BY Zenon DEF DeliveryInv, LockMatchesRun, RecordOutcome
  <2> QED
    BY Zenon, <2>1, <2>2, OrdersAssumption DEF LaneOf
<1>1. RunBecomes(t, "return", run[t].out)
  BY Zenon, AdvanceRun DEF RecordOutcome, DeliveryInv, RunSteps
<1>2. TypeOK'
  BY Zenon, <1>0, <1>1 DEF DeliveryInv, TypeOK, RecordOutcome, RunBecomes, Run, world, pass, bounds
<1>3. LockMatchesRun'
  <2>1. "return" \in RunSteps \ {"idle"} /\ run[t].step # "idle" /\ run[t].step \notin Critical
        /\ "return" \notin Critical
    BY Zenon DEF RunSteps, RecordOutcome, Critical
  <2>2. lock' = [lock EXCEPT ![LaneOf(t)] = IF "return" \in Critical THEN t
                   ELSE IF run[t].step \in Critical THEN "free" ELSE lock[LaneOf(t)]]
    BY Zenon, <1>0, <2>1 DEF RecordOutcome
  <2> QED
    BY Zenon, <1>1, <2>1, <2>2, LockStep
<1>4. PassMatchesJob' /\ ClearedIsNotHeld'
  BY Zenon, <1>1 DEF DeliveryInv, PassMatchesJob, ClearedIsNotHeld, RunBecomes, RecordOutcome, Cleared, Threads,
              world, pass
<1>5. OutcomeHasEvidence'
  <2>1. \A o \in Orders : Supported(o, record'[o])
    BY <1>0, RunSupported DEF DeliveryInv, TypeOK, OutcomeHasEvidence, RecordOutcome
  <2>2. \A u \in Threads : run'[u].step # "idle" => Supported(run'[u].order, run'[u].out)
    BY Zenon, <1>1, RunSupported DEF DeliveryInv, OutcomeHasEvidence, RunBecomes, RecordOutcome
  <2> QED
    BY Zenon, <2>1, <2>2 DEF DeliveryInv, OutcomeHasEvidence, Supported, RecordOutcome, world, pass
<1> QED
  BY Zenon, <1>2, <1>3, <1>4, <1>5 DEF DeliveryInv

\* What it takes to end the delivery of one thread: its lock goes with it.
LEMMA EndRun ==
    ASSUME DeliveryInv, NEW t \in Threads,
           run' = [run EXCEPT ![t] = NoRun],
           lock' = [s \in Sessions |-> IF lock[s] = t THEN "free" ELSE lock[s]]
    PROVE  /\ run' \in [Threads -> Run] /\ lock' \in [Sessions -> Threads \cup {"free"}]
           /\ LockMatchesRun'
           /\ goal' = goal => ClearedIsNotHeld'
           /\ UNCHANGED <<result, record, job, ledger, consumed>> => OutcomeHasEvidence'
<1>0. run \in [Threads -> Run] /\ lock \in [Sessions -> Threads \cup {"free"}] /\ NoRun \in Run
  BY Zenon DEF DeliveryInv, TypeOK, Run, NoRun, RunSteps
<1>1. \A u \in Threads : run'[u] = IF u = t THEN NoRun ELSE run[u]
  BY Zenon, <1>0
<1>2. NoRun.step = "idle" /\ "idle" \notin Critical /\ "idle" \notin Cleared
  BY Zenon DEF NoRun, Critical, Cleared
<1>3. \A u \in Threads : u # "free"
  BY Zenon, OrdersAssumption DEF Threads
<1>4. \A u \in Threads : run'[u].step # "idle" => run'[u].order \in Orders
  BY <1>1, <1>2 DEF DeliveryInv, LockMatchesRun
<1>5. \A s \in Sessions : InFlight(s)' => SessionOf[run'[s].order] = s
  BY <1>1, <1>2 DEF DeliveryInv, LockMatchesRun, InFlight, Threads
<1>6. ASSUME NEW s \in Sessions, NEW u \in Threads
      PROVE  lock'[s] = u <=> run'[u].step \in Critical /\ SessionOf[run'[u].order] = s
  <2>1. lock[s] = u <=> run[u].step \in Critical /\ SessionOf[run[u].order] = s
    BY Zenon DEF DeliveryInv, LockMatchesRun
  <2>2. CASE u = t
    BY <1>1, <1>2, <1>3, <2>2
  <2>3. CASE u # t
    BY Zenon, <1>1, <1>3, <2>1, <2>3
  <2> QED
    BY Zenon, <2>2, <2>3
<1>7. LockMatchesRun'
  BY Zenon, <1>4, <1>5, <1>6 DEF LockMatchesRun
<1>8. goal' = goal => ClearedIsNotHeld'
  BY <1>1, <1>2 DEF DeliveryInv, ClearedIsNotHeld
<1>9. UNCHANGED <<result, record, job, ledger, consumed>> => OutcomeHasEvidence'
  BY <1>1, <1>2 DEF DeliveryInv, OutcomeHasEvidence, Supported
<1> QED
  BY Zenon, <1>0, <1>7, <1>8, <1>9

\* A run that is over has released its lock long before.
LEMMA WorkerReturnsInv ==
    ASSUME DeliveryInv, NEW t \in Threads, WorkerReturns(t) PROVE DeliveryInv'
<1>1. lock' = [s \in Sessions |-> IF lock[s] = t THEN "free" ELSE lock[s]]
  <2>1. \A s \in Sessions : lock[s] # t
    BY Zenon DEF DeliveryInv, LockMatchesRun, WorkerReturns, Critical
  <2> QED
    BY Zenon, <2>1 DEF DeliveryInv, TypeOK, WorkerReturns
<1>2. TypeOK'
  BY ZenonT(60), <1>1, EndRun DEF DeliveryInv, TypeOK, Run, WorkerReturns, queue, world, pass, bounds
<1>3. LockMatchesRun' /\ ClearedIsNotHeld' /\ OutcomeHasEvidence'
  BY Zenon, <1>1, EndRun DEF WorkerReturns, queue, world, pass
<1>4. PassMatchesJob'
  BY Zenon, OrdersAssumption
  DEF DeliveryInv, TypeOK, PassMatchesJob, WorkerReturns, queue, pass, Threads
<1> QED
  BY Zenon, <1>2, <1>3, <1>4 DEF DeliveryInv

\* The inline delivery hands its outcome to the pass.
LEMMA InlineOutcomeInv ==
    ASSUME DeliveryInv, InlineOutcome PROVE DeliveryInv'
<1>0. "main" \in Threads
  BY Zenon DEF Threads
<1>1. lock' = [s \in Sessions |-> IF lock[s] = "main" THEN "free" ELSE lock[s]]
  <2>1. \A s \in Sessions : lock[s] # "main"
    BY Zenon, <1>0 DEF DeliveryInv, LockMatchesRun, InlineOutcome, Critical
  <2> QED
    BY Zenon, <2>1 DEF DeliveryInv, TypeOK, InlineOutcome
<1>2. /\ job' = [order |-> job.order, out |-> run["main"].out, from |-> job.from]
      /\ job.order \in Orders /\ job.from \in {"drain", "process"} /\ run["main"].order = job.order
      /\ run["main"].out \in Outcomes \cup {"none"}
      /\ Supported(job.order, run["main"].out)
  BY Zenon, <1>0, RunSupported DEF DeliveryInv, TypeOK, PassMatchesJob, InlineOutcome
<1>3. run' = [run EXCEPT !["main"] = NoRun]
  BY Zenon DEF InlineOutcome
<1>4. /\ run' \in [Threads -> Run] /\ lock' \in [Sessions -> Threads \cup {"free"}]
      /\ LockMatchesRun' /\ ClearedIsNotHeld'
  BY Zenon, <1>0, <1>1, <1>3, EndRun DEF InlineOutcome, world
<1>5. TypeOK'
  BY Zenon, <1>2, <1>4 DEF DeliveryInv, TypeOK, Run, InlineOutcome, queue, world, bounds, PassSteps
<1>6. \A u \in Threads : run'[u] = IF u = "main" THEN NoRun ELSE run[u]
  BY <1>3 DEF DeliveryInv, TypeOK
<1>7. PassMatchesJob'
  BY <1>0, <1>2, <1>6 DEF DeliveryInv, PassMatchesJob, InlineOutcome, queue, NoRun
<1>8. OutcomeHasEvidence'
  BY <1>2, <1>6 DEF DeliveryInv, OutcomeHasEvidence, Supported, InlineOutcome, queue, world, NoRun
<1> QED
  BY Zenon, <1>4, <1>5, <1>7, <1>8 DEF DeliveryInv

\* A restart clears the daemon's memory and its locks and keeps the disk.
LEMMA RestartInv ==
    ASSUME DeliveryInv, NEW lost, Restart(lost), faults' \in Nat,
           UNCHANGED <<place, result, nonce, sidecar, lmark, record, world, changes>>
    PROVE  DeliveryInv'
<1>1. \A t \in Threads : run'[t] = NoRun
  BY Zenon DEF Restart
<1>2. NoRun.step = "idle" /\ NoRun \in Run /\ "idle" \notin Critical /\ "idle" \notin Cleared
  BY Zenon DEF NoRun, Run, RunSteps, Critical, Cleared
<1>3. \A u \in Threads : u # "free"
  BY Zenon, OrdersAssumption DEF Threads
<1>4. TypeOK'
  <2>1. run' \in [Threads -> Run] /\ lock' \in [Sessions -> Threads \cup {"free"}]
        /\ attempts' \in [Sessions -> Nat]
    BY Zenon, <1>2 DEF Restart
  <2>2. marker' \in [Orders -> {"none", "live", "dead"}]
    BY Zenon DEF Restart, DeliveryInv, TypeOK
  <2> QED
    BY Zenon, <2>1, <2>2 DEF Restart, DeliveryInv, TypeOK, Run, NoJob, PassSteps, world
<1>5. LockMatchesRun'
  BY Zenon, <1>1, <1>2, <1>3 DEF LockMatchesRun, Restart, InFlight, Threads
<1>6. PassMatchesJob'
  BY Zenon, <1>1, <1>2 DEF PassMatchesJob, Restart, DeliveryInv, Threads
<1>7. OutcomeHasEvidence'
  BY Zenon, <1>1, <1>2 DEF OutcomeHasEvidence, Supported, Restart, DeliveryInv, NoJob, world
<1>8. ClearedIsNotHeld'
  BY Zenon, <1>1, <1>2 DEF ClearedIsNotHeld
<1> QED
  BY Zenon, <1>4, <1>5, <1>6, <1>7, <1>8 DEF DeliveryInv

\* A crash between any two steps.
LEMMA CrashInv == ASSUME DeliveryInv, Crash PROVE DeliveryInv'
<1>1. faults' \in Nat
  BY DEF Crash, DeliveryInv, TypeOK
<1> QED
  BY Zenon, <1>1, RestartInv DEF Crash

\* A worker that dies frees the lane; an inline delivery takes the daemon with it.
LEMMA DeliveryRaisesInv ==
    ASSUME DeliveryInv, NEW t \in Threads, DeliveryRaises(t) PROVE DeliveryInv'
<1>0. faults' \in Nat /\ UNCHANGED <<place, result, nonce, sidecar, lmark, record, world, changes>>
  BY DEF DeliveryRaises, DeliveryInv, TypeOK
<1>1. CASE Restart({job.order})
  BY Zenon, <1>0, <1>1, RestartInv
<1>2. CASE /\ t \in Sessions
           /\ run' = [run EXCEPT ![t] = NoRun]
           /\ lock' = [s \in Sessions |-> IF lock[s] = t THEN "free" ELSE lock[s]]
           /\ UNCHANGED <<marker, pass, attempts>>
  <2>1. TypeOK'
    BY ZenonT(60), <1>0, <1>2, EndRun DEF DeliveryInv, TypeOK, Run, world, pass
  <2>2. LockMatchesRun' /\ ClearedIsNotHeld' /\ OutcomeHasEvidence'
    BY Zenon, <1>0, <1>2, EndRun DEF world, pass
  <2>3. PassMatchesJob'
    BY Zenon, <1>0, <1>2, OrdersAssumption DEF DeliveryInv, TypeOK, PassMatchesJob, pass, Threads
  <2> QED
    BY Zenon, <2>1, <2>2, <2>3 DEF DeliveryInv
<1> QED
  BY Zenon, <1>1, <1>2 DEF DeliveryRaises

-----------------------------------------------------------------------------
\* A step of the pass that touches neither deliveries nor the lane.
LEMMA PassFrame ==
    ASSUME DeliveryInv, UNCHANGED <<run, lock, goal>>
    PROVE  LockMatchesRun' /\ ClearedIsNotHeld'
BY Zenon DEF DeliveryInv, LockMatchesRun, ClearedIsNotHeld, InFlight

\* A step that leaves deliveries, records, results and the evidence alone.
LEMMA EvidenceFrame ==
    ASSUME OutcomeHasEvidence, UNCHANGED <<run, record, result, ledger, consumed>>,
           job' = job \/ job'.out = "none"
    PROVE  OutcomeHasEvidence'
<1>1. \A o, out : Supported(o, out)' <=> Supported(o, out)
  BY Zenon DEF Supported
<1>2. Supported(job.order, job.out)'
  BY Zenon DEF OutcomeHasEvidence, Supported
<1> QED
  BY Zenon, <1>2 DEF OutcomeHasEvidence, Supported

\* The start of a pass, the requeues and the scans move files back to orders/ and
\* never into processed/.
LEMMA ScanInv ==
    ASSUME DeliveryInv, StartPass \/ RequeueLifecycle \/ StartAbandoned \/ Snapshot \/ EndPass
    PROVE  DeliveryInv'
<1>0. TypeOK /\ PassMatchesJob /\ OutcomeHasEvidence
  BY Zenon DEF DeliveryInv
<1>1. CASE StartPass
  <2>1. TypeOK'
    BY Zenon, <1>0, <1>1 DEF TypeOK, StartPass, PassSteps, Set, world, bounds
  <2>2. PassMatchesJob'
    BY <1>0, <1>1 DEF TypeOK, PassMatchesJob, StartPass, Set
  <2>3. LockMatchesRun' /\ ClearedIsNotHeld'
    BY Zenon, <1>1, PassFrame DEF StartPass, world
  <2>4. OutcomeHasEvidence'
    BY Zenon, <1>0, <1>1, EvidenceFrame DEF StartPass, world
  <2> QED
    BY Zenon, <2>1, <2>2, <2>3, <2>4 DEF DeliveryInv
<1>2. CASE RequeueLifecycle
  <2>1. TypeOK'
    BY Zenon, <1>0, <1>2 DEF TypeOK, RequeueLifecycle, PassSteps, Set, world, bounds
  <2>2. PassMatchesJob'
    BY <1>0, <1>2 DEF TypeOK, PassMatchesJob, RequeueLifecycle, Set
  <2>3. LockMatchesRun' /\ ClearedIsNotHeld'
    BY Zenon, <1>2, PassFrame DEF RequeueLifecycle, world
  <2>4. OutcomeHasEvidence'
    BY Zenon, <1>0, <1>2, EvidenceFrame DEF RequeueLifecycle, world
  <2> QED
    BY Zenon, <2>1, <2>2, <2>3, <2>4 DEF DeliveryInv
<1>3. CASE StartAbandoned
  <2>1. TypeOK'
    BY Zenon, <1>0, <1>3 DEF TypeOK, StartAbandoned, PassSteps, queue, world, bounds
  <2>2. PassMatchesJob'
    BY Zenon, <1>0, <1>3 DEF TypeOK, PassMatchesJob, StartAbandoned, queue
  <2>3. LockMatchesRun' /\ ClearedIsNotHeld'
    BY Zenon, <1>3, PassFrame DEF StartAbandoned, world
  <2>4. OutcomeHasEvidence'
    BY Zenon, <1>0, <1>3, EvidenceFrame DEF StartAbandoned, queue, world
  <2> QED
    BY Zenon, <2>1, <2>2, <2>3, <2>4 DEF DeliveryInv
<1>4. CASE Snapshot
  <2>1. TypeOK'
    BY Zenon, <1>0, <1>4 DEF TypeOK, Snapshot, PassSteps, Set, world, bounds
  <2>2. PassMatchesJob'
    BY <1>0, <1>4 DEF TypeOK, PassMatchesJob, Snapshot, Set
  <2>3. LockMatchesRun' /\ ClearedIsNotHeld'
    BY Zenon, <1>4, PassFrame DEF Snapshot, world
  <2>4. OutcomeHasEvidence'
    BY Zenon, <1>0, <1>4, EvidenceFrame DEF Snapshot, world
  <2> QED
    BY Zenon, <2>1, <2>2, <2>3, <2>4 DEF DeliveryInv
<1>5. CASE EndPass
  <2>1. TypeOK'
    BY Zenon, <1>0, <1>5 DEF TypeOK, EndPass, PassSteps, NoJob, queue, world, bounds
  <2>2. PassMatchesJob'
    BY Zenon, <1>0, <1>5 DEF TypeOK, PassMatchesJob, EndPass, NoJob, queue
  <2>3. LockMatchesRun' /\ ClearedIsNotHeld'
    BY Zenon, <1>5, PassFrame DEF EndPass, world
  <2>4. OutcomeHasEvidence'
    BY Zenon, <1>0, <1>5, EvidenceFrame DEF EndPass, NoJob, queue, world
  <2> QED
    BY Zenon, <2>1, <2>2, <2>3, <2>4 DEF DeliveryInv
<1> QED
  BY Zenon, <1>1, <1>2, <1>3, <1>4, <1>5

\* The drain takes a record up, or drops a stale one.
LEMMA DrainRecordInv ==
    ASSUME DeliveryInv, NEW o \in Orders, DrainRecord(o) PROVE DeliveryInv'
<1>1. TypeOK'
  BY DEF DeliveryInv, TypeOK, DrainRecord, PassSteps, world, bounds
<1>2. LockMatchesRun' /\ ClearedIsNotHeld'
  BY Zenon, PassFrame DEF DrainRecord, world
<1>3. PassMatchesJob'
  BY DEF DeliveryInv, PassMatchesJob, DrainRecord
<1>4. OutcomeHasEvidence'
  BY DEF DeliveryInv, TypeOK, OutcomeHasEvidence, Supported, DrainRecord, world
<1> QED
  BY Zenon, <1>1, <1>2, <1>3, <1>4 DEF DeliveryInv

\* An abandoned claim goes back to orders/.
LEMMA RecoverAbandonedInv ==
    ASSUME DeliveryInv, NEW o \in Orders, RecoverAbandoned(o) PROVE DeliveryInv'
<1>1. /\ place' \in [Orders -> {"orders", "in_flight", "deferred", "processed"}]
      /\ marker' \in [Orders -> {"none", "live", "dead"}]
      /\ \A q \in Orders : place'[q] = "processed" => place[q] = "processed"
  BY DEF DeliveryInv, TypeOK, RecoverAbandoned
<1>2. TypeOK'
  BY Zenon, <1>1 DEF DeliveryInv, TypeOK, RecoverAbandoned, world, bounds
<1>3. LockMatchesRun' /\ ClearedIsNotHeld'
  BY Zenon, PassFrame DEF RecoverAbandoned, world
<1>4. PassMatchesJob' /\ OutcomeHasEvidence'
  BY Zenon, <1>1 DEF DeliveryInv, PassMatchesJob, OutcomeHasEvidence, Supported, RecoverAbandoned, world
<1> QED
  BY Zenon, <1>2, <1>3, <1>4 DEF DeliveryInv

\* Claiming moves an order into in_flight/ under a live marker.
LEMMA ClaimOrderInv ==
    ASSUME DeliveryInv, NEW o \in Orders, ClaimOrder(o) PROVE DeliveryInv'
<1>1. /\ place' \in [Orders -> {"orders", "in_flight", "deferred", "processed"}]
      /\ marker' \in [Orders -> {"none", "live", "dead"}]
      /\ \A q \in Orders : place'[q] = "processed" => place[q] = "processed"
  BY DEF DeliveryInv, TypeOK, ClaimOrder
<1>2. /\ pending' \subseteq Orders /\ retries' \subseteq Orders /\ mpc' \in PassSteps
      /\ job' = job \/ job' = [order |-> o, out |-> "none", from |-> "process"]
      /\ mpc' = "claimed" => job'.order = o
      /\ mpc' \in {"process", "claimed"}
  BY DEF DeliveryInv, TypeOK, ClaimOrder, PassSteps
<1>3. TypeOK'
  BY <1>1, <1>2 DEF DeliveryInv, TypeOK, ClaimOrder, world, bounds
<1>4. LockMatchesRun' /\ ClearedIsNotHeld'
  BY Zenon, PassFrame DEF ClaimOrder, world
<1>5. PassMatchesJob'
  BY Zenon, <1>1, <1>2 DEF DeliveryInv, PassMatchesJob, ClaimOrder
<1>6. OutcomeHasEvidence'
  BY <1>2 DEF DeliveryInv, OutcomeHasEvidence, Supported, ClaimOrder, world
<1> QED
  BY Zenon, <1>3, <1>4, <1>5, <1>6 DEF DeliveryInv

=============================================================================
