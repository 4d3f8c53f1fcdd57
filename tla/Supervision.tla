------------------------------- MODULE Supervision -------------------------------
(***************************************************************************)
(* The corrective loop of monitord for one lane: a monitor pass feeds each *)
(* finding to the response ladder (detect/ladder.py), the supervisor       *)
(* persists, publishes and reconciles the correction that the ladder's     *)
(* stage calls for (supervisor.py, supervision.py), and a rescue stage is  *)
(* sealed with a checkpoint receipt (detect/rescue.py) before relaunch.    *)
(*                                                                         *)
(* A pressure track is (goal digest, unmet item), so a redirected goal     *)
(* starts with fresh tracks.  An order identity is (track, stage,          *)
(* attempt); "order", "turn" and "publications" are about the identity the *)
(* track is at.  The ledger of the lane is kept as the state of its newest *)
(* row and, for each track, the newest row of its present stage, which is  *)
(* all the code reads of it.                                               *)
(***************************************************************************)
EXTENDS Naturals, Sequences, Functions

CONSTANTS
    UnmetItems,     \* the unmet items, in detector order
    MaxStage,       \* how far up the ladder each track is followed
    MaxAttempts,    \* transport failures before the lane is held (code: 8)
    MaxVersion,     \* goal versions
    MaxMishaps      \* crashes, lost queue files, and bundles that go stale

ASSUME CapIsNatural == MaxAttempts \in Nat

VARIABLES
    goal,           \* "active", "held" or "done"
    version,        \* the goal version
    alerts,         \* the foreground tasks the supervisor added to it: (track, kind)
    lane,           \* newest ledger row: its state, track and turn boundary
    inc,            \* incident record of each track
    act,            \* newest ledger row of each track's stage
    order,          \* where the order of the present identity is
    turn,           \* has the lane completed a turn on it
    publications,   \* how often that identity was published
    pass,           \* the monitor pass
    worker,         \* the bundle capture of each track on the run pool
    bundle,         \* does a verifiable rescue bundle exist
    ckpt,           \* the checkpoint receipt of the track's rescue stage
    mishaps         \* crashes, losses and drifts so far

supervisionVars == <<goal, version, alerts, lane, inc, act, order, turn, publications, pass, worker,
          bundle, ckpt, mishaps>>

Tracks == Range(UnmetItems)

\* nudge, redirect, rescue, relaunch; 0 before the first finding
Rescue == 3
Relaunch == 4

NoIncident == [stage |-> 0, consumed |-> FALSE, sealed |-> FALSE]
NoRow == [state |-> "none", attempt |-> 0, obstacle |-> "", wait |-> FALSE, boundary |-> FALSE]
NoLane == [state |-> "none", of |-> "none", boundary |-> FALSE]
NoReceipt == [binds |-> "none", spent |-> FALSE]
NoSupervision == [at |-> "idle", left |-> <<>>, says |-> "", holds |-> "live"]

\* The transitions the lane ledger accepts from its newest row.
Allowed ==
    [none |-> {"observing", "pending", "blocked", "verified"},
     observing |-> {"observing", "pending", "queued", "awaiting", "blocked", "verified"},
     pending |-> {"pending", "queued", "blocked", "verified"},
     queued |-> {"queued", "awaiting", "pending", "blocked", "verified"},
     awaiting |-> {"awaiting", "observing", "pending", "blocked", "verified"},
     blocked |-> {"blocked", "observing", "pending", "queued", "awaiting", "verified"},
     verified |-> {"verified"}]

SupervisionInit ==
    /\ goal = "active" /\ version = 1 /\ alerts = {} /\ lane = NoLane
    /\ inc = [t \in Tracks |-> NoIncident]
    /\ act = [t \in Tracks |-> NoRow]
    /\ order = [t \in Tracks |-> "none"]
    /\ turn = [t \in Tracks |-> FALSE]
    /\ publications = [t \in Tracks |-> 0]
    /\ pass = NoSupervision
    /\ worker = [t \in Tracks |-> "idle"]
    /\ bundle = [t \in Tracks |-> FALSE]
    /\ ckpt = [t \in Tracks |-> NoReceipt]
    /\ mishaps = 0

---------------------------------------------------------------------------
(* The pass, one finding after another *)

Cur == Head(pass.left)
At(step) == pass.at = step

\* The next finding of the pass, or its end.
Following ==
    IF Len(pass.left) = 1 THEN NoSupervision
    ELSE [NoSupervision EXCEPT !.at = "evaluate", !.left = Tail(pass.left)]

\* After reconciling the correction the pass looks at the rescue stage.
ToRescue == IF inc[Cur].stage = Rescue /\ ~inc[Cur].sealed
            THEN [pass EXCEPT !.at = "rescue"] ELSE Following

\* A row for the current track; one the ledger refuses ends the lane's pass.
Row(row, then) ==
    IF row.state \in Allowed[lane.state]
    THEN /\ lane' = [state |-> row.state, of |-> Cur, boundary |-> row.boundary]
         /\ act' = [act EXCEPT ![Cur] = row]
         /\ order' = IF row.attempt = act[Cur].attempt THEN order
                     ELSE [order EXCEPT ![Cur] = "none"]
         /\ publications' = IF row.attempt = act[Cur].attempt THEN publications
                            ELSE [publications EXCEPT ![Cur] = 0]
         /\ pass' = then
    ELSE /\ pass' = NoSupervision
         /\ UNCHANGED <<lane, act, order, publications>>

\* A row that is due, unless the action's newest row already says it.
RowOnce(row, then) ==
    IF act[Cur] = row THEN pass' = then /\ UNCHANGED <<lane, act, order, publications>>
    ELSE Row(row, then)

\* record_observing: the first row, or the row after a consumed correction,
\* which keeps the action fields of the newest row.
Observe ==
    IF lane.state = "none" \/ (lane.state = "awaiting" /\ lane.boundary)
    THEN /\ lane' = [lane EXCEPT !.state = "observing"]
         /\ act' = IF lane.of = "none" THEN act
                   ELSE [act EXCEPT ![lane.of].state = "observing"]
    ELSE UNCHANGED <<lane, act>>

\* The findings of a pass, in detector order.
InOrder(found) == SelectSeq(UnmetItems, LAMBDA t : t \in found)

\* A pass over an active goal takes the findings of the detectors; a held
\* goal has none, and a done one is recorded as verified.
PassBegin(found) ==
    /\ At("idle")
    /\ goal = "active" \/ found = {}
    /\ IF goal = "done"
       THEN /\ lane' = [NoLane EXCEPT !.state = "verified"]
            /\ UNCHANGED <<act, pass>>
       ELSE IF found = {}
            THEN Observe /\ UNCHANGED pass
            ELSE /\ pass' = [NoSupervision EXCEPT !.at = "evaluate", !.left = InOrder(found)]
                 /\ UNCHANGED <<lane, act>>
    /\ UNCHANGED <<goal, version, alerts, inc, order, turn, publications, worker, bundle, ckpt, mishaps>>

\* ResponseLadder.evaluate; "recent" says that the finding cites an event at
\* or after the turn that consumed the stage's order.
Proven(t, recent) == inc[t].consumed /\ turn[t] /\ recent

DecisionUnsealed(t, recent) ==
    IF inc[t].stage = 0 THEN "open"
    ELSE IF inc[t].stage = Relaunch \/ ~Proven(t, recent) THEN "hold"
    ELSE "advance"
Decision(t, recent) ==
    IF inc[t].stage = 0 THEN "open"
    ELSE IF inc[t].stage = Relaunch \/ ~Proven(t, recent) THEN "hold"
    ELSE IF inc[t].stage = Rescue /\ ~inc[t].sealed THEN "hold"
    ELSE "advance"

\* open_incident and advance_to_next_stage
Opened(t) == [NoIncident EXCEPT !.stage = inc[t].stage + 1]

Evaluate(recent) ==
    LET t == Cur  says == Decision(t, recent) IN
    /\ At("evaluate")
    /\ says = "advance" => inc[t].stage < MaxStage[t]
    /\ pass' = [pass EXCEPT !.at = "reconcile", !.says = says]
    /\ IF says = "hold"
       THEN UNCHANGED <<inc, act, order, turn, publications, bundle, ckpt>>
       ELSE /\ inc' = [inc EXCEPT ![t] = Opened(t)]
            /\ act' = [act EXCEPT ![t] = NoRow]
            /\ order' = [order EXCEPT ![t] = "none"]
            /\ turn' = [turn EXCEPT ![t] = FALSE]
            /\ publications' = [publications EXCEPT ![t] = 0]
            /\ bundle' = [bundle EXCEPT ![t] = FALSE]
            /\ ckpt' = [ckpt EXCEPT ![t] = NoReceipt]
    /\ lane' = IF says # "hold" /\ lane.of = t THEN [lane EXCEPT !.of = "none"] ELSE lane
    /\ UNCHANGED <<goal, version, alerts, worker, mishaps>>

---------------------------------------------------------------------------
(* reconcile_corrective_action *)

\* locate_order: the order of the present identity, wherever in the queue.
LocatedUnlessPending(t) == IF act[t].state = "pending" THEN "none" ELSE order[t]
Located(t) == order[t]

\* discover_consumption_proof: a signed delivery and a completed turn on it.
Consumed(t) == order[t] = "sent" /\ turn[t]

\* classify_delivery_failure: what is not worth another try.  A closed lane
\* stays closed; a deferred order waits for the lane.
Refusals == {"deferred", "closed", "replan"}

\* What an action's row says at the attempt it is at.
At_(state) == [NoRow EXCEPT !.state = state, !.attempt = act[Cur].attempt]

\* locate_order found a result: delivered, refused for good, or failed.
Delivered ==
    IF Consumed(Cur)
    THEN RowOnce([At_("awaiting") EXCEPT !.boundary = TRUE], ToRescue)
    ELSE RowOnce(At_("awaiting"), ToRescue)

\* A rejection that is no transport failure is recorded once per obstacle.
Rejected == RowOnce([At_("blocked") EXCEPT !.obstacle = order[Cur]], ToRescue)

\* A transport failure backs off under a new identity; at the cap the goal
\* is held.
Failed ==
    LET next == act[Cur].attempt + 1 IN
    Row([At_("blocked") EXCEPT !.attempt = next, !.wait = next < MaxAttempts,
            !.obstacle = IF next < MaxAttempts THEN "transport" ELSE "cap"], ToRescue)

\* No trace of the order: a held incident is published only from a recorded
\* intent, and a queued one whose file is gone is blocked.
Untraced ==
    IF pass.says = "hold" /\ act[Cur].state = "queued"
    THEN Row([At_("blocked") EXCEPT !.obstacle = "missing"], ToRescue)
    ELSE IF pass.says = "hold" /\ act[Cur].state \notin {"pending", "blocked"}
    THEN pass' = ToRescue /\ UNCHANGED <<lane, act, order, publications>>
    ELSE RowOnce(At_("pending"), [pass EXCEPT !.at = "publish"])

\* The two writes that precede a row: the consumption bound to the incident,
\* and the hold of a goal whose correction keeps failing.
Attach ==
    /\ At("reconcile")
    /\ Consumed(Cur) /\ ~inc[Cur].consumed
    /\ inc' = [inc EXCEPT ![Cur].consumed = TRUE]
    /\ UNCHANGED <<goal, version, alerts, lane, act, order, turn, publications, pass, worker, bundle,
                   ckpt, mishaps>>

AtCap == order[Cur] = "failed" /\ act[Cur].attempt + 1 >= MaxAttempts

HoldAtCap ==
    /\ At("reconcile")
    /\ AtCap /\ goal = "active"
    /\ goal' = "held"
    /\ UNCHANGED <<version, alerts, lane, inc, act, order, turn, publications, pass, worker, bundle,
                   ckpt, mishaps>>

\* What the foreground has to see: an order rejected on its words, and a lane
\* that no order can reach; a lane that will take orders again stays silent.
Raised ==
    CASE order[Cur] = "replan" -> {<<Cur, "replan">>}
      [] order[Cur] = "closed" \/ AtCap -> {<<Cur, "terminal">>}
      [] OTHER -> {}

Reconcile ==
    /\ At("reconcile")
    /\ Consumed(Cur) => inc[Cur].consumed
    /\ AtCap => goal # "active"
    /\ IF act[Cur].state = "blocked" /\ act[Cur].wait
       THEN pass' = ToRescue /\ UNCHANGED <<lane, act, order, publications>>
       ELSE CASE Located(Cur) = "sent" -> Delivered
              [] Located(Cur) \in Refusals -> Rejected
              [] Located(Cur) = "failed" -> Failed
              [] Located(Cur) = "queued" ->
                    IF act[Cur].state = "awaiting"
                    THEN pass' = ToRescue /\ UNCHANGED <<lane, act, order, publications>>
                    ELSE RowOnce(At_("queued"), ToRescue)
              [] OTHER -> Untraced
    /\ alerts' = alerts \cup (IF act[Cur].state = "blocked" /\ act[Cur].wait THEN {} ELSE Raised)
    /\ UNCHANGED <<goal, version, inc, turn, worker, bundle, ckpt, mishaps>>

\* enqueue_dispatch_order, then the row that says so.
Publish ==
    /\ At("publish")
    /\ order' = [order EXCEPT ![Cur] = "queued"]
    /\ publications' = [publications EXCEPT ![Cur] = @ + 1]
    /\ pass' = [pass EXCEPT !.at = "published"]
    /\ UNCHANGED <<goal, version, alerts, lane, inc, act, turn, worker, bundle, ckpt, mishaps>>

Published ==
    /\ At("published")
    /\ Row(At_("queued"), ToRescue)
    /\ UNCHANGED <<goal, version, alerts, inc, turn, worker, bundle, ckpt, mishaps>>

---------------------------------------------------------------------------
(* reconcile_rescue_checkpoint *)

\* find_rescue_bundle: one of this incident, with the transcript as it is now.
Verified(t) == bundle[t]
\* _observe_process_identity, while the pass holds the bundle.
Observable == pass.holds # "dead"
Spent(t) == ckpt[t].spent

\* Without a bundle that verifies now, a capture is submitted to the pool;
\* with one, the receipt waits for the consumption of the rescue order.
RescueStage ==
    /\ At("rescue")
    /\ worker' = IF ~Verified(Cur) /\ worker[Cur] = "idle"
                 THEN [worker EXCEPT ![Cur] = "reading"] ELSE worker
    /\ pass' = IF ~Verified(Cur) \/ ~inc[Cur].consumed THEN Following
               ELSE [pass EXCEPT !.at = IF ckpt[Cur].binds = "none" THEN "receipt" ELSE "seal"]
    /\ UNCHANGED <<goal, version, alerts, lane, inc, act, order, turn, publications, bundle, ckpt, mishaps>>

\* write_checkpoint_receipt re-observes the process the bundle was taken of.
WriteReceipt ==
    /\ At("receipt")
    /\ IF ~Observable THEN pass' = Following /\ UNCHANGED ckpt
       ELSE /\ pass' = [pass EXCEPT !.at = "seal"]
            /\ ckpt' = [ckpt EXCEPT ![Cur].binds = IF pass.holds = "live" THEN "bundle" ELSE "other"]
    /\ UNCHANGED <<goal, version, alerts, lane, inc, act, order, turn, publications, worker, bundle, mishaps>>

\* seal_rescue_checkpoint spends the receipt before it appends the seal.
Sealable(t) == Verified(t) /\ ckpt[t].binds = "bundle" /\ ~Spent(t)

SpendReceipt ==
    /\ At("seal")
    /\ IF Sealable(Cur) /\ pass.holds = "live"
       THEN /\ ckpt' = [ckpt EXCEPT ![Cur].spent = TRUE]
            /\ pass' = [pass EXCEPT !.at = "sealing"]
       ELSE pass' = Following /\ UNCHANGED ckpt
    /\ UNCHANGED <<goal, version, alerts, lane, inc, act, order, turn, publications, worker, bundle, mishaps>>

AppendSeal ==
    /\ At("sealing")
    /\ inc' = [inc EXCEPT ![Cur].sealed = TRUE]
    /\ pass' = Following
    /\ UNCHANGED <<goal, version, alerts, lane, act, order, turn, publications, worker, bundle, ckpt, mishaps>>

\* The capture covers every incident that is in the store by then, and dates
\* the transcript it read.
Covers(t, u) == worker[t] = "reading" /\ inc[u].stage = Rescue

Captured(t) ==
    /\ worker[t] \in {"reading", "overtaken"}
    /\ worker' = [worker EXCEPT ![t] = "idle"]
    /\ bundle' = [u \in Tracks |-> bundle[u] \/ Covers(t, u)]
    /\ UNCHANGED <<goal, version, alerts, lane, inc, act, order, turn, publications, pass, ckpt, mishaps>>

---------------------------------------------------------------------------
(* The lane, dispatchd, the operator, and faults *)

\* dispatchd settles a queued order; a delivered one is taken by the agent.
\* A transport that failed once may go on failing to the cap.
Settle(t, how) ==
    /\ order[t] = "queued" /\ how \in {"sent", "failed"} \cup Refusals
    /\ IF how = "sent" \/ (how = "failed" /\ act[t].attempt \in 1 .. MaxAttempts - 1) THEN UNCHANGED mishaps
       ELSE mishaps < MaxMishaps /\ mishaps' = mishaps + 1
    /\ order' = [order EXCEPT ![t] = how]
    /\ UNCHANGED <<goal, version, alerts, lane, inc, act, turn, publications, pass, worker, bundle, ckpt>>

\* The turn is written to the transcript, so bundles taken before it no
\* longer verify.
Moved(how) ==
    /\ bundle' = [t \in Tracks |-> FALSE]
    /\ ckpt' = [t \in Tracks |-> IF ckpt[t].binds = "bundle" THEN [ckpt[t] EXCEPT !.binds = "other"]
                                 ELSE ckpt[t]]
    /\ worker' = [t \in Tracks |-> IF worker[t] = "reading" THEN "overtaken" ELSE worker[t]]
    /\ pass' = IF pass.at \in {"receipt", "seal", "sealing"}
               THEN [pass EXCEPT !.holds = IF @ = "dead" THEN @ ELSE how] ELSE pass

TakeTurn(t) ==
    /\ order[t] = "sent" /\ ~turn[t]
    /\ turn' = [turn EXCEPT ![t] = TRUE]
    /\ Moved("moved")
    /\ UNCHANGED <<goal, version, alerts, lane, inc, act, order, publications, mishaps>>

\* The lane goes on working, or its process is replaced.
Drift(how) ==
    /\ mishaps < MaxMishaps
    /\ \E t \in Tracks : bundle[t] \/ worker[t] = "reading"
    /\ mishaps' = mishaps + 1
    /\ Moved(how)
    /\ UNCHANGED <<goal, version, alerts, lane, inc, act, order, turn, publications>>

RetryDue(t) ==
    /\ act[t].wait
    /\ act' = [act EXCEPT ![t].wait = FALSE]
    /\ UNCHANGED <<goal, version, alerts, lane, inc, order, turn, publications, pass, worker, bundle, ckpt,
                   mishaps>>

LoseOrder(t) ==
    /\ mishaps < MaxMishaps
    /\ order[t] = "queued"
    /\ order' = [order EXCEPT ![t] = "none"]
    /\ mishaps' = mishaps + 1
    /\ UNCHANGED <<goal, version, alerts, lane, inc, act, turn, publications, pass, worker, bundle, ckpt>>

\* monitord dies; so do the threads of its pool.
MonitorDies ==
    /\ mishaps < MaxMishaps
    /\ pass # NoSupervision \/ \E t \in Tracks : worker[t] # "idle"
    /\ pass' = NoSupervision
    /\ worker' = [t \in Tracks |-> "idle"]
    /\ mishaps' = mishaps + 1
    /\ UNCHANGED <<goal, version, alerts, lane, inc, act, order, turn, publications, bundle, ckpt>>

SetGoal ==
    /\ goal' \in {"active", "held", "done"} \ {goal}
    /\ goal' = "active" => goal = "held"
    /\ UNCHANGED <<version, alerts, lane, inc, act, order, turn, publications, pass, worker, bundle, ckpt,
                   mishaps>>

\* redirect_goal reopens the goal under a new version, hence new tracks.
Redirect ==
    /\ version < MaxVersion /\ At("idle")
    /\ version' = version + 1
    /\ goal' = "active" /\ alerts' = {}
    /\ lane' = [lane EXCEPT !.of = "none"]
    /\ inc' = [t \in Tracks |-> NoIncident]
    /\ act' = [t \in Tracks |-> NoRow]
    /\ order' = [t \in Tracks |-> "none"]
    /\ turn' = [t \in Tracks |-> FALSE]
    /\ publications' = [t \in Tracks |-> 0]
    /\ worker' = [t \in Tracks |-> "idle"]
    /\ bundle' = [t \in Tracks |-> FALSE]
    /\ ckpt' = [t \in Tracks |-> NoReceipt]
    /\ UNCHANGED <<pass, mishaps>>

Monitor ==
    \/ \E found \in SUBSET Tracks : PassBegin(found)
    \/ \E recent \in BOOLEAN : Evaluate(recent)
    \/ Attach \/ HoldAtCap \/ Reconcile \/ Publish \/ Published
    \/ RescueStage \/ WriteReceipt \/ SpendReceipt \/ AppendSeal

SupervisionNext ==
    \/ Monitor
    \/ \E t \in Tracks : Captured(t) \/ TakeTurn(t) \/ RetryDue(t) \/ LoseOrder(t)
                        \/ \E how \in {"sent", "failed"} \cup Refusals : Settle(t, how)
    \/ \E how \in {"moved", "dead"} : Drift(how)
    \/ MonitorDies \/ SetGoal \/ Redirect

SupervisionSpec == SupervisionInit /\ [][SupervisionNext]_supervisionVars

\* monitord takes pass after pass (a restarted one included), a finding that
\* stands is found by each, and a pass that began goes on.
FairSpec ==
    /\ SupervisionSpec
    /\ SF_supervisionVars(PassBegin(Tracks))
    /\ WF_supervisionVars(~At("idle") /\ Monitor)

---------------------------------------------------------------------------
(* Properties *)

\* A track climbs the ladder one stage at a time, and leaves a stage only
\* when the lane has completed a turn on that stage's delivered order; it
\* reaches relaunch only from a rescue sealed by a spent receipt.
EscalationIsEarned ==
    [][\A t \in Tracks : (inc'[t].stage > inc[t].stage) =>
            /\ inc'[t].stage = inc[t].stage + 1
            /\ inc[t].stage > 0 => order[t] = "sent" /\ turn[t]
            /\ inc[t].stage = Rescue => inc[t].sealed /\ ckpt[t].spent]_supervisionVars

\* A correction that was delivered, or is on its way, is not published again,
\* whatever the monitor forgot in a crash; and one that is given up, because
\* it was rejected for good or its transport kept failing, is in front of the
\* foreground before its row says so ("every other lifecycle rejection means
\* the lane cannot receive the corrective order at all, which the foreground
\* must see", supervisor.py).
NoRepublication ==
    [][\A t \in Tracks :
          /\ (publications'[t] > publications[t]) => (order[t] = "none")
          /\ (act'[t] # act[t] /\ act'[t].obstacle \in {"closed", "cap"}) => <<t, "terminal">> \in alerts'
          /\ (act'[t] # act[t] /\ act'[t].obstacle = "replan") => <<t, "replan">> \in alerts']_supervisionVars
=============================================================================
