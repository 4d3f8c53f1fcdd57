------------------------- MODULE CompletionPipeline -------------------------
(***************************************************************************)
(* How monitord decides a completion claim (monitord.py,                   *)
(* validation_receipts.py): it runs the enrolled validators, stores a      *)
(* receipt for each, verifies the receipts, has the claim reviewed and     *)
(* closes the gate of the goal, which verifies the receipts once more      *)
(* under the goal's lock.  For a lane of another OS user the slow parts    *)
(* run on the worker pool and leave records for a later pass.              *)
(*                                                                         *)
(* "tree" is the content of the lane's worktree: the agent changes it at   *)
(* any time and its content never returns to an earlier one.  A validator  *)
(* looks at it at one moment of its run.                                   *)
(***************************************************************************)
EXTENDS Naturals, FiniteSets

CONSTANTS
    Items,          \* enrolled done items, each with its validator and receipt
    Good,           \* [Items -> SUBSET trees]: where an item's validator passes
    Texts,          \* texts of completion claims
    MaxTree,        \* bound: edits of the worktree
    MaxClaims,      \* bound: completion claims
    MaxAttempts,    \* _VALIDATOR_RUN_MAX_ATTEMPTS
    MaxFaults       \* bound: restarts of monitord, failed reviews, changes of the goal

ASSUME PipelineAssumption == Items # {} /\ Good \in [Items -> SUBSET Nat]

VARIABLES
    separate,       \* the lane runs as another OS user (never changes)
    tree,           \* worktree content now
    claim,          \* the lane's latest completion claim
    goal,           \* status and version of the goal
    receipt,        \* stored receipt per item: "none", "pass" or "fail"
    record,         \* validation-runs/: run record per item
    verdicts,       \* verification-runs/: recorded verification
    pool,           \* the workers: validators, verify, close, review
    tries,          \* attempts of the pool: evidence, close
    review,         \* review log and review-run record
    rejection,      \* gate-close-runs/: recorded rejection
    check,          \* validation-runs/: claim-check marker, the last outcome with what it depends on
    pass,           \* the monitor's pass
    mark,           \* mark_completion_gate_passed under the goal's lock; history: what it was
                    \* shown, and whether a worker recorded no run meanwhile ("alone")
    proof,          \* history: what the goal was last marked done on
    decided,        \* history: latest claim with an outcome
    faults

lane == <<separate, tree, claim>>
evidence == <<receipt, record, verdicts, check>>
pipelineVars == <<lane, goal, evidence, pool, tries, review, rejection, pass, mark, proof, decided, faults>>

Off == [pc |-> "off", left |-> Items, item |-> "none", before |-> 0, ok |-> {}]
NoMark == [by |-> "none", left |-> Items, shown |-> {}, alone |-> TRUE]
NoPass == [pc |-> "idle", key |-> 0, version |-> 0, ok |-> {}, left |-> {}, recorded |-> FALSE]
NoClose == [pc |-> "off", claim |-> 0, text |-> "none", version |-> 0]
Actionable == {"working", "disputed"}

PipelineInit ==
    /\ separate \in BOOLEAN /\ tree = 0 /\ claim = [n |-> 0, text |-> "none"]
    /\ goal = [status |-> "working", version |-> 1]
    /\ receipt = [i \in Items |-> "none"]
    /\ record = [i \in Items |-> [made |-> FALSE, bound |-> FALSE, ok |-> FALSE, before |-> 0, after |-> 0]]
    /\ verdicts = [made |-> FALSE, bound |-> FALSE, tree |-> 0, ok |-> {}]
    /\ pool = [validators |-> Off, verify |-> Off, close |-> NoClose, review |-> NoClose]
    /\ tries = [evidence |-> 0, close |-> [t \in Texts |-> 0]]
    /\ review = [accepted |-> {}, rejected |-> {}, failed |-> FALSE]
    /\ rejection = [claim |-> 0, text |-> "none", version |-> 0]
    /\ check = [bound |-> FALSE, claim |-> 0, key |-> 0, version |-> 0, disputed |-> FALSE]
    /\ pass = NoPass /\ mark = NoMark
    /\ proof = [claim |-> 0, text |-> "none", version |-> 0, shown |-> {}, alone |-> TRUE]
    /\ decided = 0 /\ faults = 0

-----------------------------------------------------------------------------
(* Receipts (validation_receipts.py) *)

\* run_registered_validator in the worktree as it is now.
Passes(i) == tree \in Good[i]

\* Mutant: a record counts whatever became of the tree.
ResultOfRecord(i) ==
    IF separate /\ record[i].bound
    THEN record[i].ok ELSE Passes(i)

\* _trusted_validator_result: the worker's record stands in for a run when it belongs to the
\* stored receipt, and fails when the tree moved during or since the run; otherwise the
\* validator runs again.
Result(i) ==
    IF separate /\ record[i].bound
    THEN record[i].before = record[i].after /\ record[i].after = tree /\ record[i].ok
    ELSE Passes(i)

\* verify_receipt_file: completion_eligible.
Eligible(i) == receipt[i] = "pass" /\ Result(i)

\* record_registered_run: runs the validator and replaces the receipt.  Records name receipts by
\* their digest: "bound" says that a record names the stored ones.
Record(i) ==
    /\ receipt' = [receipt EXCEPT ![i] = IF Passes(i) THEN "pass" ELSE "fail"]
    /\ record' = [record EXCEPT ![i].bound = FALSE]
    /\ verdicts' = [verdicts EXCEPT !.bound = FALSE]
    /\ check' = [check EXCEPT !.bound = FALSE]

\* Items are taken in enrolled order.
First(left) == CHOOSE i \in left : TRUE

Worker(kind, pc) == pool' = [pool EXCEPT ![kind].pc = pc]

\* run_enrolled_validators_on_worker, item by item: digest, run, digest and record.
WorkerDigest ==
    /\ pool.validators.pc = "digest"
    /\ pool' = [pool EXCEPT !.validators = [@ EXCEPT !.pc = "run", !.item = First(pool.validators.left), !.before = tree]]
    /\ UNCHANGED <<lane, goal, evidence, tries, review, rejection, pass, mark, proof, decided, faults>>

WorkerRun ==
    /\ pool.validators.pc = "run"
    /\ Record(pool.validators.item)
    /\ Worker("validators", "record")
    /\ UNCHANGED <<lane, goal, tries, review, rejection, pass, mark, proof, decided, faults>>

WorkerRecord ==
    /\ pool.validators.pc = "record"
    /\ LET i == pool.validators.item
           left == pool.validators.left \ {i}
       IN /\ record' = [record EXCEPT ![i] = [made |-> TRUE, bound |-> TRUE, ok |-> receipt[i] = "pass",
                                              before |-> pool.validators.before, after |-> tree]]
          /\ pool' = [pool EXCEPT !.validators = IF left = {} THEN Off ELSE [Off EXCEPT !.pc = "digest", !.left = left]]
    /\ mark' = IF mark.by = "none" THEN mark ELSE [mark EXCEPT !.alone = FALSE]
    /\ UNCHANGED <<lane, goal, receipt, verdicts, check, tries, review, rejection, pass, proof, decided, faults>>

\* run_receipt_verification_on_worker: verified_disk_results item by item ...
VerifyItem ==
    /\ pool.verify.pc = "items" /\ pool.verify.left # {}
    /\ LET i == First(pool.verify.left)
           ok == IF Eligible(i) THEN {i} ELSE {}
       IN pool' = [pool EXCEPT !.verify = [@ EXCEPT !.left = pool.verify.left \ {i}, !.ok = pool.verify.ok \cup ok]]
    /\ UNCHANGED <<lane, goal, evidence, tries, review, rejection, pass, mark, proof, decided, faults>>

\* ... then the digests of tree and receipts and the record.
VerifyRecord ==
    /\ pool.verify.pc = "items" /\ pool.verify.left = {}
    /\ verdicts' = [made |-> TRUE, bound |-> TRUE, tree |-> tree, ok |-> pool.verify.ok]
    /\ pool' = [pool EXCEPT !.verify = Off]
    /\ UNCHANGED <<lane, goal, receipt, record, check, tries, review, rejection, pass, mark, proof, decided, faults>>

-----------------------------------------------------------------------------
(* The pass (monitord.py) *)

GotoPass(pc) == pass' = [pass EXCEPT !.pc = pc]
EndPass == pass' = NoPass

\* _claim_check_key: the worktree digest is part of it for a lane of another user.
Key == IF separate THEN tree ELSE 0

\* Mutant: the outcome of an earlier claim is replayed.
StoredForAnyClaim == check.key = Key /\ check.version = goal.version /\ check.bound

\* _stored_claim_outcome
Stored ==
    check.claim = claim.n /\ check.key = Key /\ check.version = goal.version /\ check.bound

\* check_enrollment_and_receipts and the start of _evaluate_completion_claim: a stored outcome
\* of the same check is replayed.
PassBegin ==
    /\ pass = NoPass /\ claim.n # 0 /\ goal.status \in Actionable
    /\ IF Stored
       THEN /\ check.disputed => mark.by = "none"
            /\ goal' = IF check.disputed THEN [goal EXCEPT !.status = "disputed"] ELSE goal
            /\ UNCHANGED pass
       ELSE pass' = [NoPass EXCEPT !.pc = "evidence", !.key = Key, !.version = goal.version] /\ UNCHANGED goal
    /\ UNCHANGED <<lane, evidence, pool, tries, review, rejection, mark, proof, decided, faults>>

\* _verify_evidence_state
EvidenceState ==
    IF \/ \E i \in Items : ~record[i].made \/ record[i].before # record[i].after
       \/ Cardinality({record[i].after : i \in Items}) # 1
    THEN "runs"
    ELSE IF ~verdicts.made THEN "verify"
    ELSE IF \E i \in Items : verdicts.tree # record[i].after THEN "runs"
    ELSE IF ~verdicts.bound THEN "verify" ELSE "fresh"

\* RunPool.in_flight of the two evidence keys.
Busy == pool.validators.pc # "off" \/ pool.verify.pc # "off"

\* _claimed_run_evidence
PassEvidence ==
    /\ pass.pc = "evidence"
    /\ IF ~separate
       THEN pass' = [pass EXCEPT !.pc = "sync", !.left = Items] /\ UNCHANGED <<pool, tries>>
       ELSE IF Busy
       THEN EndPass /\ UNCHANGED <<pool, tries>>
       ELSE IF EvidenceState = "fresh"
       THEN /\ pass' = [pass EXCEPT !.pc = "judge", !.ok = verdicts.ok, !.recorded = TRUE]
            /\ tries' = [tries EXCEPT !.evidence = 0]
            /\ UNCHANGED pool
       ELSE IF tries.evidence >= MaxAttempts
       THEN /\ pass' = [pass EXCEPT !.pc = "sync", !.left = Items]
            /\ tries' = [tries EXCEPT !.evidence = 0]
            /\ UNCHANGED pool
       ELSE /\ EndPass
            /\ tries' = [tries EXCEPT !.evidence = @ + 1]
            /\ pool' = IF EvidenceState = "verify" THEN [pool EXCEPT !.verify.pc = "items"]
                       ELSE [pool EXCEPT !.validators.pc = "digest"]
    /\ UNCHANGED <<lane, goal, evidence, review, rejection, mark, proof, decided, faults>>

\* record_enrolled_validator_runs in the pass, then detect_false_done verifies the receipts.
PassRun ==
    /\ pass.pc = "sync"
    /\ IF pass.left # {}
       THEN LET i == First(pass.left) IN Record(i) /\ pass' = [pass EXCEPT !.left = @ \ {i}]
       ELSE pass' = [pass EXCEPT !.pc = "judge", !.ok = {i \in Items : Eligible(i)}] /\ UNCHANGED evidence
    /\ UNCHANGED <<lane, goal, pool, tries, review, rejection, mark, proof, decided, faults>>

Claimed == <<claim.text, pass.version>>

\* _completion_review: the review log's signal for this behavior and contract.
Accepted == Claimed \in review.accepted

\* detect_false_done, then _completion_review.
PassJudge ==
    /\ pass.pc = "judge"
    /\ \/ pass.ok # Items /\ GotoPass("dispute") /\ UNCHANGED <<pool, review>>
       \/ pass.ok = Items /\ Accepted /\ GotoPass("close") /\ UNCHANGED <<pool, review>>
       \/ pass.ok = Items /\ ~Accepted /\ Claimed \in review.rejected /\ GotoPass("dispute") /\ UNCHANGED <<pool, review>>
       \/ /\ pass.ok = Items /\ ~Accepted /\ Claimed \notin review.rejected
          /\ \/ pool.review.pc # "off" /\ EndPass /\ UNCHANGED <<pool, review>>
             \/ pool.review.pc = "off" /\ review.failed /\ GotoPass("dispute uncached") /\ UNCHANGED <<pool, review>>
             \/ /\ pool.review.pc = "off" /\ ~review.failed /\ EndPass /\ UNCHANGED review
                /\ pool' = [pool EXCEPT !.review = [pc |-> "run", claim |-> claim.n, text |-> claim.text,
                                                    version |-> pass.version]]
    /\ UNCHANGED <<lane, goal, evidence, tries, rejection, mark, proof, decided, faults>>

\* _close_rejection_detail: the worker's rejection is about this claim under this contract.
ClosedOff == rejection.text = claim.text /\ rejection.version = pass.version

\* The gate close: on the pool for a lane of another user, in the pass otherwise and when the
\* attempts are used up.
PassClose ==
    /\ pass.pc = "close"
    /\ IF ~separate
       THEN GotoPass("mark") /\ UNCHANGED <<pool, tries>>
       ELSE IF ClosedOff
       THEN GotoPass("dispute") /\ UNCHANGED <<pool, tries>>
       ELSE IF pool.close.pc # "off"
       THEN EndPass /\ UNCHANGED <<pool, tries>>
       ELSE IF tries.close[claim.text] >= MaxAttempts
       THEN GotoPass("mark") /\ tries' = [tries EXCEPT !.close[claim.text] = 0] /\ UNCHANGED pool
       ELSE /\ EndPass
            /\ tries' = [tries EXCEPT !.close[claim.text] = @ + 1]
            /\ pool' = [pool EXCEPT !.close = [pc |-> "mark", claim |-> claim.n, text |-> claim.text,
                                               version |-> pass.version]]
    /\ UNCHANGED <<lane, goal, evidence, review, rejection, mark, proof, decided, faults>>

\* _store_claim_check
Outcome(disputed) ==
    [bound |-> TRUE, claim |-> claim.n, key |-> pass.key, version |-> pass.version, disputed |-> disputed]

\* update_now with completion-disputed, and _store_claim_check.
PassDispute ==
    /\ pass.pc \in {"dispute", "dispute uncached"} /\ mark.by = "none"
    /\ goal' = [goal EXCEPT !.status = "disputed"]
    /\ check' = IF pass.pc = "dispute"
                THEN Outcome(TRUE) ELSE check
    /\ decided' = claim.n
    /\ EndPass
    /\ UNCHANGED <<lane, receipt, record, verdicts, pool, tries, review, rejection, mark, proof, faults>>

\* mark_completion_gate_passed takes the goal's lock ...
MarkBegin ==
    /\ mark.by = "none"
    /\ \/ pass.pc = "mark" /\ mark' = [NoMark EXCEPT !.by = "pass"]
       \/ pool.close.pc = "mark" /\ mark' = [NoMark EXCEPT !.by = "worker"]
    /\ UNCHANGED <<lane, goal, evidence, pool, tries, review, rejection, pass, proof, decided, faults>>

\* ... require_verified_completion_receipts checks item by item; a receipt that does not verify
\* ends it: the pass disputes, the worker records the rejection ...
MarkItem ==
    /\ mark.by # "none" /\ mark.left # {}
    /\ LET i == First(mark.left) IN
          IF Eligible(i)
          THEN /\ mark' = [mark EXCEPT !.left = @ \ {i}, !.shown = @ \cup {<<i, tree, separate /\ record[i].bound>>}]
               /\ UNCHANGED <<pool, pass, rejection>>
          ELSE /\ mark' = NoMark
               /\ IF mark.by = "pass"
                  THEN GotoPass("dispute") /\ UNCHANGED <<pool, rejection>>
                  ELSE /\ rejection' = [claim |-> pool.close.claim, text |-> pool.close.text,
                                        version |-> pool.close.version]
                       /\ pool' = [pool EXCEPT !.close = NoClose]
                       /\ UNCHANGED pass
    /\ UNCHANGED <<lane, goal, evidence, tries, review, proof, decided, faults>>

\* ... and the goal is written.
MarkWrite ==
    /\ mark.by # "none" /\ mark.left = {}
    /\ goal' = [goal EXCEPT !.status = "done"]
    /\ LET of == IF mark.by = "pass" THEN [claim |-> claim.n, text |-> claim.text, version |-> pass.version]
                 ELSE [claim |-> pool.close.claim, text |-> pool.close.text, version |-> pool.close.version]
       IN /\ proof' = [claim |-> of.claim, text |-> of.text, version |-> of.version, shown |-> mark.shown,
                      alone |-> mark.alone]
          /\ decided' = of.claim
    /\ IF mark.by = "pass"
       THEN EndPass /\ check' = Outcome(FALSE) /\ UNCHANGED pool
       ELSE pool' = [pool EXCEPT !.close = NoClose] /\ UNCHANGED <<pass, check>>
    /\ mark' = NoMark
    /\ UNCHANGED <<lane, receipt, record, verdicts, tries, review, rejection, faults>>

-----------------------------------------------------------------------------
(* The reviewers, the lane, the operator, restarts *)

\* _run_review_on_worker: a signal in the review log, or a failure with a time to retry.
ReviewWorker ==
    /\ pool.review.pc = "run"
    /\ LET of == <<pool.review.text, pool.review.version>>
       IN \/ review' = [review EXCEPT !.accepted = @ \cup {of}] /\ UNCHANGED faults
          \/ review' = [review EXCEPT !.rejected = @ \cup {of}] /\ UNCHANGED faults
          \/ faults < MaxFaults /\ faults' = faults + 1 /\ review' = [review EXCEPT !.failed = TRUE]
    /\ pool' = [pool EXCEPT !.review = NoClose]
    /\ UNCHANGED <<lane, goal, evidence, tries, rejection, pass, mark, proof, decided>>

RetryDue ==
    /\ review.failed
    /\ review' = [review EXCEPT !.failed = FALSE]
    /\ UNCHANGED <<lane, goal, evidence, pool, tries, rejection, pass, mark, proof, decided, faults>>

Edit ==
    /\ tree < MaxTree /\ tree' = tree + 1
    /\ UNCHANGED <<separate, claim, goal, evidence, pool, tries, review, rejection, pass, mark, proof, decided, faults>>

Claim ==
    /\ claim.n < MaxClaims /\ pass = NoPass
    /\ \E t \in Texts : claim' = [n |-> claim.n + 1, text |-> t]
    /\ UNCHANGED <<separate, tree, goal, evidence, pool, tries, review, rejection, pass, mark, proof, decided, faults>>

\* hold_goal, or resume_goal of a held goal.
Hold ==
    /\ faults < MaxFaults /\ faults' = faults + 1 /\ mark.by = "none"
    /\ goal' = [goal EXCEPT !.status = IF goal.status = "held" THEN "working" ELSE "held"]
    /\ UNCHANGED <<lane, evidence, pool, tries, review, rejection, pass, mark, proof, decided>>

\* redirect_goal
Redirect ==
    /\ faults < MaxFaults /\ faults' = faults + 1 /\ mark.by = "none"
    /\ goal' = [status |-> IF goal.status = "done" THEN "working" ELSE goal.status, version |-> goal.version + 1]
    /\ UNCHANGED <<lane, evidence, pool, tries, review, rejection, pass, mark, proof, decided>>

\* A worker ends by an exception of its own: RunPool logs it and frees the key.
WorkerFails ==
    /\ faults < MaxFaults /\ faults' = faults + 1
    /\ \/ pool.validators.pc # "off" /\ pool' = [pool EXCEPT !.validators = Off] /\ UNCHANGED mark
       \/ pool.verify.pc # "off" /\ pool' = [pool EXCEPT !.verify = Off] /\ UNCHANGED mark
       \/ pool.close.pc # "off" /\ mark.by # "pass" /\ pool' = [pool EXCEPT !.close = NoClose] /\ mark' = NoMark
    /\ UNCHANGED <<lane, goal, evidence, tries, review, rejection, pass, proof, decided>>

\* monitord restarts: the pass, the workers and the attempts are gone.
Restart ==
    /\ faults < MaxFaults /\ faults' = faults + 1
    /\ pass' = NoPass /\ mark' = NoMark /\ tries' = [evidence |-> 0, close |-> [t \in Texts |-> 0]]
    /\ pool' = [validators |-> Off, verify |-> Off, close |-> NoClose, review |-> NoClose]
    /\ UNCHANGED <<lane, goal, evidence, review, rejection, proof, decided>>

PassStep == PassBegin \/ PassEvidence \/ PassRun \/ PassJudge \/ PassClose \/ PassDispute
WorkerStep == WorkerDigest \/ WorkerRun \/ WorkerRecord \/ VerifyItem \/ VerifyRecord
MarkStep == MarkBegin \/ MarkItem \/ MarkWrite

PipelineNext == PassStep \/ WorkerStep \/ MarkStep \/ ReviewWorker \/ RetryDue \/ Edit \/ Claim \/ Hold \/ Redirect
        \/ WorkerFails \/ Restart

PipelineSpec == PipelineInit /\ [][PipelineNext]_pipelineVars

FairPipelineSpec ==
    /\ PipelineSpec
    /\ WF_pipelineVars(PassStep) /\ WF_pipelineVars(WorkerStep) /\ WF_pipelineVars(MarkStep) /\ WF_pipelineVars(ReviewWorker) /\ WF_pipelineVars(RetryDue)

-----------------------------------------------------------------------------
(* Properties *)

\* A goal is marked done only when every enrolled validator passed on the tree its receipt was
\* verified on; where the records of the workers stand in for a run, and no worker recorded
\* another run during the close, it is one and the same tree for all items, although the
\* validators ran at different times and the agent may edit the tree at any moment
\* (_trusted_validator_result compares the recorded digests with the tree).
\* And it is marked done only for a claim whose exact text the reviewers accepted under the
\* contract the pass read, through restarts, failed reviews and redirects of the goal
\* (_completion_review matches behavior and contract).
DoneIsEarned ==
    proof.claim # 0 =>
        /\ \A i \in Items : \E x \in proof.shown : x[1] = i
        /\ \A x \in proof.shown : x[2] \in Good[x[1]]
        /\ proof.alone => \A x, y \in proof.shown : x[3] /\ y[3] => x[2] = y[2]
        /\ <<proof.text, proof.version>> \in review.accepted

\* A completion claim on a goal that stays actionable gets an outcome: it is disputed or the goal
\* is done, whatever edits, failures and restarts come between (the attempt bound of
\* _claimed_run_evidence and of the close, the retry time of a review).
ClaimsAreDecided ==
    \A k \in 1..MaxClaims :
        claim.n = k ~> (decided = k \/ claim.n > k \/ goal.status \notin Actionable)
=============================================================================
