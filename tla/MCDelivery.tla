----------------------------- MODULE MCDelivery -----------------------------
(***************************************************************************)
(* Instances of Dispatchd.  A behavior is either one of deliveries by the  *)
(* pass itself, with the constants of the configuration, or one of         *)
(* deliveries on worker threads, with those of Workers; the variables of   *)
(* the other instance keep their initial values.                           *)
(***************************************************************************)
EXTENDS Dispatchd, TLC
CONSTANTS o1, o2, s1

VARIABLES
    threaded,       \* deliveries run on worker threads (never changes)
    w_place, w_marker, w_result, w_nonce, w_sidecar, w_lmark, w_record, w_ledger, w_pasted,
    w_consumed, w_goal, w_stale, w_life, w_owed, w_lock, w_mpc, w_todo, w_pending,
    w_retries, w_job, w_run, w_attempts, w_faults, w_changes

OneLane == [o \in Orders |-> s1]
FirstComesO1 == [o \in Orders |-> IF o = o1 THEN 1 ELSE 2]
RelayAndPlain == [o \in Orders |-> IF o = o1 THEN "relay" ELSE "plain"]

OneChange == 1
OneOrder == {o1}
ThatLane == [o \in OneOrder |-> s1]
ThatArrival == [o \in OneOrder |-> 1]
ThatKind == [o \in OneOrder |-> "plain"]

Workers == INSTANCE Dispatchd WITH
    Orders <- OneOrder, SessionOf <- ThatLane, Arrival <- ThatArrival, Kind <- ThatKind,
    UriBound <- {}, DeferDelivery <- TRUE, MaxChanges <- OneChange,
    place <- w_place, marker <- w_marker, result <- w_result, nonce <- w_nonce,
    sidecar <- w_sidecar, lmark <- w_lmark, record <- w_record, ledger <- w_ledger,
    pasted <- w_pasted, consumed <- w_consumed, goal <- w_goal, stale <- w_stale,
    life <- w_life, owed <- w_owed, lock <- w_lock, mpc <- w_mpc, todo <- w_todo,
    pending <- w_pending, retries <- w_retries, job <- w_job, run <- w_run,
    attempts <- w_attempts, faults <- w_faults, changes <- w_changes

workerVars == <<
    w_place, w_marker, w_result, w_nonce, w_sidecar, w_lmark, w_record, w_ledger, w_pasted,
    w_consumed, w_goal, w_stale, w_life, w_owed, w_lock, w_mpc, w_todo, w_pending,
    w_retries, w_job, w_run, w_attempts, w_faults, w_changes>>
allVars == <<threaded, vars, workerVars>>

MCInit == threaded \in BOOLEAN /\ Init /\ Workers!Init

InPass == ~threaded /\ UNCHANGED <<threaded, workerVars>>
OnThreads == threaded /\ UNCHANGED <<threaded, vars>>

\* The fairness is FairSpec's, of either instance.
MCSpec ==
    /\ MCInit
    /\ [][(InPass /\ Next) \/ (OnThreads /\ Workers!Next)]_allVars
    /\ WF_allVars((InPass /\ PassStep) \/ (OnThreads /\ Workers!PassStep))
    /\ \A t \in Threads : WF_allVars((InPass /\ RunStep(t)) \/ (OnThreads /\ Workers!RunStep(t)))
    /\ \A s \in Sessions :
         WF_allVars((InPass /\ RequeueResumed(s)) \/ (OnThreads /\ Workers!RequeueResumed(s)))

-----------------------------------------------------------------------------
\* Delivered by the pass, an order always comes to rest again: ended, its text sent and waiting
\* for the transcript, parked for a hold, or waiting for a paused lane.  Delivered on a thread, it
\* does not stay claimed: the worker's record is applied, or the claim is given up when the
\* worker is gone (_drain_delivery_runs, and the reclaim at the start of a pass).
OrdersComeToRest ==
    \A o \in Orders : []<>(IF threaded THEN o \in OneOrder => w_place[o] # "in_flight" ELSE Settled(o))
=============================================================================
