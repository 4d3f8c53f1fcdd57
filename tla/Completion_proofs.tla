------------------------- MODULE Completion_proofs --------------------------
(***************************************************************************)
(* Theorems about the lane lock (LaneLock) and the completion pipeline     *)
(* (CompletionPipeline), for every value of their constants. PipelineInv,  *)
(* the inductive invariant of the pipeline, says what the records, the     *)
(* workers between their digests, the reviews and a close under way know   *)
(* of the tree.                                                            *)
(***************************************************************************)
EXTENDS LaneLock, CompletionPipeline, TLAPS

\* In the initial state nobody has touched the lock file.
LEMMA InitLockInv == Init => LockInv
BY NoFileAssumption DEF Init, LockInv, TypeOK, Steps, Owning

\* Every system call of acquire() and release(), and a crash between any two of
\* them, preserves LockInv.
LEMMA NextLockInv == LockInv /\ [Next]_vars => LockInv'
<1> SUFFICES ASSUME LockInv, [Next]_vars PROVE LockInv'
  OBVIOUS
<1> USE NoFileAssumption DEF LockInv, TypeOK, Steps, Owning, Dead, Goto
<1>1. ASSUME NEW p \in Procs, BeginAcquire(p) PROVE LockInv'
  BY <1>1 DEF BeginAcquire
<1>2. ASSUME NEW p \in Procs, ReadLockFile(p) PROVE LockInv'
  BY <1>2 DEF ReadLockFile, StaleLockSeen
<1>3. ASSUME NEW p \in Procs, UnlinkStale(p) PROVE LockInv'
  BY <1>3 DEF UnlinkStale
<1>4. ASSUME NEW p \in Procs, RecreateFile(p) PROVE LockInv'
  BY <1>4 DEF RecreateFile, CreateFile
<1>5. ASSUME NEW p \in Procs, TryCreate(p) PROVE LockInv'
  BY <1>5 DEF TryCreate, CreateFile
<1>6. ASSUME NEW p \in Procs, WritePid(p) PROVE LockInv'
  BY <1>6 DEF WritePid
<1>7. ASSUME NEW p \in Procs, Release(p) PROVE LockInv'
  BY <1>7 DEF Release
<1>8. ASSUME NEW p \in Procs, Crash(p) PROVE LockInv'
  BY <1>8 DEF Crash
<1>9. CASE UNCHANGED vars
  BY <1>9 DEF vars
<1> QED
  BY <1>1, <1>2, <1>3, <1>4, <1>5, <1>6, <1>7, <1>8, <1>9 DEF Next, Step

\* LockInv holds in every reachable state.
THEOREM LockInvariant == Spec => []LockInv
BY InitLockInv, NextLockInv, PTL DEF Spec

\* Until a process dies while it owns the lock, no two processes own it at once
\* (LaneLock.acquire and release, any number of processes).
THEOREM MutualExclusion == Spec => []SingleWriter
<1>1. LockInv => SingleWriter
  BY DEF LockInv, SingleWriter
<1> QED
  BY <1>1, LockInvariant, PTL

\* The processes that hold the lock, as LaneMutex sees them.
Holders == {p \in Procs : pc[p] = "held"}

\* Each step of the file lock is a step of the mutex or leaves it unchanged.
LEMMA StepRefinesMutex == LockInv /\ [Next]_vars => [Mutex!Next]_(Mutex!mvars)
<1> SUFFICES ASSUME LockInv, [Next]_vars PROVE [Mutex!Next]_(Mutex!mvars)
  OBVIOUS
<1> USE NoFileAssumption DEF LockInv, TypeOK, Steps, Owning, Dead, Goto
<1>1. CASE UNCHANGED vars
  BY <1>1 DEF vars, Mutex!mvars
<1>2. ASSUME orphaned # {}, Next PROVE [Mutex!Next]_(Mutex!mvars)
  <2>1. orphaned' # {}
    BY <1>2 DEF Next, Step, BeginAcquire, ReadLockFile, UnlinkStale, RecreateFile, TryCreate,
                CreateFile, WritePid, Release, Crash
  <2> QED
    BY <1>2, <2>1 DEF Mutex!Next, Mutex!Void
<1>3. ASSUME orphaned = {}, NEW p \in Procs, Step(p) PROVE [Mutex!Next]_(Mutex!mvars)
  <2>1. CASE WritePid(p)
    <3>1. Holders = {} /\ Holders' = {p}
      BY <1>3, <2>1 DEF WritePid, Holders
    <3>2. orphaned' = orphaned
      BY <2>1 DEF WritePid
    <3> QED
      BY <3>1, <3>2 DEF Mutex!Next, Mutex!Acquire, Holders
  <2>2. CASE Release(p)
    <3>1. p \in Holders /\ Holders' = Holders \ {p}
      BY <2>2 DEF Release, Holders
    <3>2. orphaned' = orphaned
      BY <2>2 DEF Release
    <3> QED
      BY <3>1, <3>2 DEF Mutex!Next, Mutex!Release, Holders
  <2>3. CASE BeginAcquire(p) \/ ReadLockFile(p) \/ UnlinkStale(p) \/ RecreateFile(p) \/ TryCreate(p)
    <3>1. Holders' = Holders /\ orphaned' = orphaned
      BY <2>3 DEF BeginAcquire, ReadLockFile, UnlinkStale, RecreateFile, TryCreate, CreateFile, Holders
    <3> QED
      BY <3>1 DEF Mutex!mvars, Holders
  <2> QED
    BY <1>3, <2>1, <2>2, <2>3 DEF Step
<1>4. ASSUME orphaned = {}, NEW p \in Procs, Crash(p) PROVE [Mutex!Next]_(Mutex!mvars)
  <2>1. CASE Owning(p)
    <3>1. orphaned' # {}
      BY <1>4, <2>1 DEF Crash
    <3> QED
      BY <3>1 DEF Mutex!Next, Mutex!Void
  <2>2. CASE ~Owning(p)
    <3>1. Holders' = Holders /\ orphaned' = orphaned
      BY <1>4, <2>2 DEF Crash, Holders
    <3> QED
      BY <3>1 DEF Mutex!mvars, Holders
  <2> QED
    BY <2>1, <2>2
<1> QED
  BY <1>1, <1>2, <1>3, <1>4 DEF Next

\* The file lock implements the abstract mutex for any number of processes: what
\* dispatchd and the goal writers rely on when they enter a lane.
THEOREM LockRefinesMutex == Spec => ImplementsMutex
<1>1. Init => Mutex!Init
  BY DEF Init, Mutex!Init
<1> QED
  BY <1>1, StepRefinesMutex, LockInvariant, PTL DEF Spec, ImplementsMutex, Mutex!Spec

-----------------------------------------------------------------------------
\* The completion pipeline (CompletionPipeline).

ClaimTexts == Texts \cup {"none"}
Verdicts == [made : BOOLEAN, bound : BOOLEAN, tree : Nat, ok : SUBSET Items]
RunRecords == [made : BOOLEAN, bound : BOOLEAN, ok : BOOLEAN, before : Nat, after : Nat]
Workers == [pc : {"off", "digest", "run", "record", "items"}, left : SUBSET Items, item : Items \cup {"none"},
            before : Nat, ok : SUBSET Items]
Jobs == [pc : {"off", "mark", "run"}, claim : Nat, text : ClaimTexts, version : Nat]
Pools == [validators : Workers, verify : Workers, close : Jobs, review : Jobs]
PassStates ==
    [pc : {"idle", "evidence", "sync", "judge", "close", "mark", "dispute", "dispute uncached"},
     key : Nat, version : Nat, ok : SUBSET Items, left : SUBSET Items, recorded : BOOLEAN]
Shown == Items \X Nat \X BOOLEAN
Marks == [by : {"none", "pass", "worker"}, left : SUBSET Items, shown : SUBSET Shown, alone : BOOLEAN]
Reviews == [accepted : SUBSET (ClaimTexts \X Nat), rejected : SUBSET (ClaimTexts \X Nat), failed : BOOLEAN]

PipelineTyped ==
    /\ separate \in BOOLEAN /\ tree \in Nat /\ claim \in [n : Nat, text : ClaimTexts]
    /\ goal \in [status : {"working", "disputed", "done", "held"}, version : Nat]
    /\ receipt \in [Items -> {"none", "pass", "fail"}] /\ record \in [Items -> RunRecords]
    /\ verdicts \in Verdicts /\ pool \in Pools /\ pass \in PassStates /\ mark \in Marks /\ review \in Reviews

\* A record of a run that saw one tree throughout tells the truth about that tree.
RecordInv ==
    \A i \in Items :
        /\ record[i].after <= tree
        /\ record[i].ok /\ record[i].before = record[i].after => record[i].after \in Good[i]

\* While a worker is between its digests, a receipt that says "pass" was made in between.
WorkerInv ==
    LET w == pool.validators IN
    /\ w.pc \in {"off", "digest"} => w.left # {}
    /\ w.pc \in {"run", "record"} => w.item \in Items /\ w.before <= tree
    /\ w.pc = "record" /\ receipt[w.item] = "pass" => \E t \in Good[w.item] : w.before <= t /\ t <= tree

\* Who is about to close has an accepted claim.
ReviewInv ==
    /\ pass.pc \in {"close", "mark"} => <<claim.text, pass.version>> \in review.accepted
    /\ pool.close.pc = "mark" => <<pool.close.text, pool.close.version>> \in review.accepted

\* What the close under way has been shown so far.
MarkInv ==
    /\ mark.by = "pass" => pass.pc = "mark"
    /\ mark.by = "worker" => pool.close.pc = "mark"
    /\ mark.by = "none" => mark = NoMark
    /\ \A i \in Items \ mark.left : \E x \in mark.shown : x[1] = i
    /\ \A x \in mark.shown : x[2] \in Good[x[1]] /\ x[2] <= tree
    /\ mark.alone => \A x \in mark.shown : x[3] => \A i \in Items : record[i].after <= x[2]
    /\ mark.alone => \A x, y \in mark.shown : x[3] /\ y[3] => x[2] = y[2]

PipelineInv == PipelineTyped /\ RecordInv /\ WorkerInv /\ ReviewInv /\ MarkInv /\ DoneIsEarned

\* The values of workers, closes and passes with nothing to do.
LEMMA RestTyped ==
    /\ Off \in Workers /\ Off.pc = "off" /\ Off.left = Items /\ NoClose \in Jobs /\ NoClose.pc = "off"
    /\ NoMark \in Marks /\ NoMark.by = "none" /\ NoMark.left = Items /\ NoMark.shown = {} /\ NoMark.alone
    /\ NoPass \in PassStates /\ NoPass.pc = "idle" /\ NoPass.version = 0
  BY Zenon DEF Off, Workers, NoClose, Jobs, ClaimTexts, NoMark, Marks, NoPass, PassStates

\* Before the first claim the invariant holds.
LEMMA PipelineInitHolds == PipelineInit => PipelineInv
<1> SUFFICES ASSUME PipelineInit PROVE PipelineInv
  BY Zenon
<1> DEFINE r == [made |-> FALSE, bound |-> FALSE, ok |-> FALSE, before |-> 0, after |-> 0]
<1>1. r \in RunRecords /\ r.after = 0 /\ ~r.ok
  BY Zenon DEF RunRecords
<1>2. record = [i \in Items |-> r]
  BY Zenon DEF PipelineInit
<1> HIDE DEF r
<1>3. /\ pool \in Pools /\ pool.validators.pc = "off" /\ pool.close.pc = "off"
      /\ verdicts \in Verdicts /\ review \in Reviews
  BY Zenon, RestTyped DEF PipelineInit, Pools, Verdicts, Reviews
<1>4. PipelineTyped
  BY Zenon, <1>1, <1>2, <1>3, RestTyped DEF PipelineInit, PipelineTyped, ClaimTexts
<1>5. RecordInv
  BY <1>1, <1>2 DEF PipelineInit, RecordInv
<1>6. WorkerInv /\ ReviewInv
  BY Zenon, <1>3, RestTyped, PipelineAssumption DEF PipelineInit, WorkerInv, ReviewInv
<1>7. MarkInv
  BY Zenon, RestTyped DEF PipelineInit, MarkInv
<1>8. DoneIsEarned
  BY Zenon DEF PipelineInit, DoneIsEarned
<1> QED
  BY Zenon, <1>4, <1>5, <1>6, <1>7, <1>8 DEF PipelineInv

\* A verified receipt passes on the tree of that moment.
LEMMA EligibleIsGood ==
    ASSUME PipelineInv, NEW i \in Items, Eligible(i)
    PROVE  tree \in Good[i] /\ (separate /\ record[i].bound => record[i].after = tree)
<1>1. Result(i)
  BY Zenon DEF Eligible
<1>2. CASE separate /\ record[i].bound
  <2>1. record[i].before = record[i].after /\ record[i].after = tree /\ record[i].ok
    BY Zenon, <1>1, <1>2 DEF Result
  <2> QED
    BY Zenon, <2>1 DEF PipelineInv, RecordInv
<1>3. CASE ~(separate /\ record[i].bound)
  BY Zenon, <1>1, <1>3 DEF Result, Passes
<1> QED
  BY Zenon, <1>2, <1>3

\* The next item is one of those left.
LEMMA FirstIsOne == ASSUME NEW left \in (SUBSET Items) \ {{}} PROVE First(left) \in left
  BY Zenon DEF First

\* A step that runs no validator and shows nothing to the close.
LEMMA QuietStep ==
    ASSUME PipelineInv, PipelineTyped', UNCHANGED <<tree, proof, receipt, record>>,
           review.accepted \subseteq review'.accepted,
           mark'.left = mark.left, mark'.shown = mark.shown, mark'.alone = mark.alone,
           mark'.by = "none" => mark' = NoMark,
           mark'.by = "pass" => pass'.pc = "mark", mark'.by = "worker" => pool'.close.pc = "mark",
           pass'.pc \in {"close", "mark"} => <<claim'.text, pass'.version>> \in review'.accepted,
           \/ pool'.close = pool.close
           \/ pool'.close.pc = "off"
           \/ <<pool'.close.text, pool'.close.version>> \in review'.accepted,
           \/ pool'.validators = pool.validators
           \/ pool'.validators.pc \notin {"run", "record"} /\ pool'.validators.left # {}
    PROVE  PipelineInv'
<1>1. RecordInv'
  BY Zenon DEF PipelineInv, RecordInv
<1>2. WorkerInv'
  BY Zenon DEF PipelineInv, WorkerInv
<1>3. ReviewInv'
  BY Zenon DEF PipelineInv, ReviewInv
<1>4. MarkInv'
  BY Zenon DEF PipelineInv, MarkInv
<1>5. DoneIsEarned'
  BY Zenon DEF PipelineInv, DoneIsEarned
<1> QED
  BY Zenon, <1>1, <1>2, <1>3, <1>4, <1>5 DEF PipelineInv

\* The pool with one of its four keys replaced.
LEMMA PoolWith ==
    ASSUME pool \in Pools, NEW w \in Workers
    PROVE  /\ LET p == [pool EXCEPT !.validators = w]
              IN  p \in Pools /\ p.validators = w /\ p.close = pool.close
           /\ LET p == [pool EXCEPT !.verify = w]
              IN  p \in Pools /\ p.validators = pool.validators /\ p.close = pool.close
  BY Zenon DEF Pools

\* Another close or review job leaves the workers alone.
LEMMA PoolWithJob ==
    ASSUME pool \in Pools, NEW j \in Jobs
    PROVE  /\ LET p == [pool EXCEPT !.close = j]
              IN  p \in Pools /\ p.validators = pool.validators /\ p.close = j
           /\ LET p == [pool EXCEPT !.review = j]
              IN  p \in Pools /\ p.validators = pool.validators /\ p.close = pool.close
  BY Zenon DEF Pools

\* A pass moves to its next point.
LEMMA PassWith ==
    ASSUME pass \in PassStates,
           NEW goto \in {"idle", "evidence", "sync", "judge", "close", "mark", "dispute", "dispute uncached"},
           pass' = [pass EXCEPT !.pc = goto]
    PROVE  pass' \in PassStates /\ pass'.pc = goto /\ pass'.version = pass.version
  BY Zenon DEF PassStates

\* A pass begins and takes the claim and the version it judges.
LEMMA PassBeginKeeps == ASSUME PipelineInv, PassBegin PROVE PipelineInv'
<1>1. /\ pass = NoPass /\ UNCHANGED <<lane, evidence, pool, tries, review, rejection, mark, proof, decided, faults>>
  BY Zenon DEF PassBegin
<1>2. PipelineTyped /\ mark.by # "pass"
  BY Zenon, <1>1, RestTyped DEF PipelineInv, MarkInv
<1>3. Key \in Nat
  BY Zenon, <1>2 DEF Key, PipelineTyped
<1> DEFINE p == [NoPass EXCEPT !.pc = "evidence", !.key = Key, !.version = goal.version]
<1>4. p \in PassStates /\ p.pc = "evidence"
  BY Zenon, <1>2, <1>3, RestTyped DEF PipelineTyped, PassStates
<1>5. pass' = pass \/ pass' = p
  BY Zenon DEF PassBegin
<1> HIDE DEF p
<1>6. goal' = goal \/ goal' = [goal EXCEPT !.status = "disputed"]
  BY Zenon DEF PassBegin
<1>7. PipelineTyped'
  BY Zenon, <1>1, <1>2, <1>4, <1>5, <1>6 DEF PipelineTyped, lane, evidence
<1>8. pass'.pc \in {"idle", "evidence"}
  BY Zenon, <1>1, <1>4, <1>5, RestTyped
<1> QED
  BY Zenon, <1>1, <1>2, <1>7, <1>8, QuietStep DEF lane, evidence, PipelineInv, MarkInv

\* The cached verdicts are taken, or workers are started.
LEMMA PassEvidenceKeeps == ASSUME PipelineInv, PassEvidence PROVE PipelineInv'
<1>1. /\ pass.pc = "evidence"
      /\ UNCHANGED <<lane, goal, evidence, review, rejection, mark, proof, decided, faults>>
  BY Zenon DEF PassEvidence
<1>2. PipelineTyped /\ mark.by # "pass"
  BY Zenon, <1>1 DEF PipelineInv, MarkInv
<1>3. pass' \in PassStates /\ pass'.pc \in {"idle", "sync", "judge"}
  <2>1. verdicts.ok \in SUBSET Items /\ pass \in PassStates
    BY Zenon, <1>2 DEF PipelineTyped, Verdicts
  <2>2. \/ pass' = [pass EXCEPT !.pc = "sync", !.left = Items] \/ pass' = NoPass
        \/ pass' = [pass EXCEPT !.pc = "judge", !.ok = verdicts.ok, !.recorded = TRUE]
    BY Zenon DEF PassEvidence, EndPass
  <2>3. \/ pass' = NoPass
        \/ pass' \in PassStates /\ pass'.pc \in {"sync", "judge"}
    BY ZenonT(60), <2>1, <2>2 DEF PassStates
  <2> QED
    BY Zenon, <2>3, RestTyped
<1>4. /\ pool' \in Pools /\ pool'.close = pool.close
      /\ \/ pool'.validators = pool.validators
         \/ pool'.validators.pc \notin {"run", "record"} /\ pool'.validators.left # {}
  <2>1. pool \in Pools /\ pool.validators \in Workers /\ pool.verify \in Workers
    BY Zenon, <1>2 DEF PipelineTyped, Pools
  <2>2. CASE pool' = pool
    BY Zenon, <2>1, <2>2
  <2>3. CASE pool' = [pool EXCEPT !.verify.pc = "items"]
    <3> DEFINE w == [pool.verify EXCEPT !.pc = "items"]
    <3>1. w \in Workers
      BY Zenon, <2>1 DEF Workers
    <3>2. pool' = [pool EXCEPT !.verify = w]
      BY Zenon, <2>1, <2>3 DEF Pools
    <3> HIDE DEF w
    <3> QED
      BY Zenon, <2>1, <3>1, <3>2, RestTyped, PoolWith
  <2>4. CASE pool' = [pool EXCEPT !.validators.pc = "digest"] /\ pool.validators.pc = "off"
    <3> DEFINE w == [pool.validators EXCEPT !.pc = "digest"]
    <3>1. w \in Workers /\ w.pc = "digest" /\ w.left = pool.validators.left
      BY Zenon, <2>1 DEF Workers
    <3>2. pool' = [pool EXCEPT !.validators = w]
      BY Zenon, <2>1, <2>4 DEF Pools
    <3> HIDE DEF w
    <3>3. pool.validators.left # {}
      BY Zenon, <2>4 DEF PipelineInv, WorkerInv
    <3> QED
      BY Zenon, <2>1, <3>1, <3>2, <3>3, RestTyped, PoolWith
  <2> QED
    BY Zenon, <2>2, <2>3, <2>4 DEF PassEvidence, Busy
<1>5. PipelineTyped'
  BY Zenon, <1>1, <1>2, <1>3, <1>4 DEF PipelineTyped, lane, evidence
<1> QED
  BY Zenon, <1>1, <1>2, <1>3, <1>4, <1>5, QuietStep DEF lane, evidence, PipelineInv, MarkInv

\* The claim is judged on its evidence.
LEMMA PassJudgeKeeps == ASSUME PipelineInv, PassJudge PROVE PipelineInv'
<1>1. /\ pass.pc = "judge"
      /\ UNCHANGED <<lane, goal, evidence, tries, rejection, mark, proof, decided, faults, review>>
  BY Zenon DEF PassJudge
<1>2. PipelineTyped /\ mark.by # "pass"
  BY Zenon, <1>1 DEF PipelineInv, MarkInv
<1>3. /\ pass' \in PassStates
      /\ pass'.pc \notin {"close", "mark"} \/ (<<claim.text, pass'.version>> \in review.accepted)
  <2>1. \/ pass' = NoPass
        \/ \E goto \in {"dispute", "dispute uncached"} : pass' = [pass EXCEPT !.pc = goto]
        \/ pass' = [pass EXCEPT !.pc = "close"] /\ <<claim.text, pass.version>> \in review.accepted
    BY Zenon DEF PassJudge, GotoPass, EndPass, Accepted, Claimed
  <2>2. pass \in PassStates
    BY Zenon, <1>2 DEF PipelineTyped
  <2> QED
    BY Zenon, <2>1, <2>2, PassWith, RestTyped
<1>4. pool' \in Pools /\ pool'.close = pool.close /\ pool'.validators = pool.validators
  <2> DEFINE j == [pc |-> "run", claim |-> claim.n, text |-> claim.text, version |-> pass.version]
  <2>1. j \in Jobs /\ pool \in Pools
    BY Zenon, <1>2 DEF PipelineTyped, Jobs, PassStates
  <2>2. pool' = pool \/ pool' = [pool EXCEPT !.review = j]
    BY Zenon DEF PassJudge
  <2> HIDE DEF j
  <2> QED
    BY Zenon, <2>1, <2>2, RestTyped, PoolWithJob
<1>5. PipelineTyped'
  BY Zenon, <1>1, <1>2, <1>3, <1>4 DEF PipelineTyped, lane, evidence
<1> QED
  BY Zenon, <1>1, <1>2, <1>3, <1>4, <1>5, QuietStep DEF lane, evidence, PipelineInv, MarkInv

\* The pass closes by itself or hands the close to a worker.
LEMMA PassCloseKeeps == ASSUME PipelineInv, PassClose PROVE PipelineInv'
<1>1. /\ pass.pc = "close"
      /\ UNCHANGED <<lane, goal, evidence, review, rejection, mark, proof, decided, faults>>
  BY Zenon DEF PassClose
<1>2. PipelineTyped /\ mark.by # "pass" /\ <<claim.text, pass.version>> \in review.accepted
  BY Zenon, <1>1 DEF PipelineInv, MarkInv, ReviewInv
<1>3. pass' \in PassStates /\ (pass'.pc \in {"close", "mark"} => pass'.version = pass.version)
  <2>1. \/ pass' = NoPass \/ \E goto \in {"mark", "dispute"} : pass' = [pass EXCEPT !.pc = goto]
    BY Zenon DEF PassClose, GotoPass, EndPass
  <2>2. pass \in PassStates
    BY Zenon, <1>2 DEF PipelineTyped
  <2> QED
    BY Zenon, <2>1, <2>2, PassWith, RestTyped
<1>4. /\ pool' \in Pools /\ pool'.validators = pool.validators
      /\ \/ pool'.close = pool.close
         \/ pool.close.pc = "off" /\ pool'.close.pc = "mark" /\ pool'.close.text = claim.text
            /\ pool'.close.version = pass.version
  <2> DEFINE j == [pc |-> "mark", claim |-> claim.n, text |-> claim.text, version |-> pass.version]
  <2>1. j \in Jobs /\ pool \in Pools /\ j.pc = "mark" /\ j.text = claim.text /\ j.version = pass.version
    BY Zenon, <1>2 DEF PipelineTyped, Jobs, PassStates
  <2>2. pool' = pool \/ (pool.close.pc = "off" /\ pool' = [pool EXCEPT !.close = j])
    BY Zenon DEF PassClose
  <2> HIDE DEF j
  <2> QED
    BY ZenonT(60), <2>1, <2>2, RestTyped, PoolWithJob
<1>5. PipelineTyped'
  BY Zenon, <1>1, <1>2, <1>3, <1>4 DEF PipelineTyped, lane, evidence
<1>6. mark'.by = "worker" => pool'.close.pc = "mark"
  BY Zenon, <1>1, <1>4 DEF PipelineInv, MarkInv
<1> QED
  BY Zenon, <1>1, <1>2, <1>3, <1>4, <1>5, <1>6, QuietStep DEF lane, evidence, PipelineInv, MarkInv

\* The claim is disputed.
LEMMA PassDisputeKeeps == ASSUME PipelineInv, PassDispute PROVE PipelineInv'
<1>1. /\ mark.by = "none" /\ pass' = NoPass /\ goal' = [goal EXCEPT !.status = "disputed"]
      /\ UNCHANGED <<lane, receipt, record, verdicts, pool, tries, review, rejection, mark, proof, faults>>
  BY Zenon DEF PassDispute, EndPass
<1>2. PipelineTyped'
  BY Zenon, <1>1, RestTyped DEF PipelineInv, PipelineTyped, lane
<1> QED
  BY Zenon, <1>1, <1>2, RestTyped, QuietStep DEF lane, PipelineInv, MarkInv

\* A validator's run replaces the receipt by what it found on the tree of that moment.
LEMMA RecordIs ==
    ASSUME PipelineInv, NEW i \in Items, Record(i)
    PROVE  /\ receipt' \in [Items -> {"none", "pass", "fail"}] /\ record' \in [Items -> RunRecords]
           /\ verdicts' \in Verdicts
           /\ \A k \in Items : /\ record'[k].ok = record[k].ok /\ record'[k].before = record[k].before
                               /\ record'[k].after = record[k].after
           /\ \A k \in Items : receipt'[k] = "pass" => receipt[k] = "pass" \/ tree \in Good[k]
<1> DEFINE a == IF Passes(i) THEN "pass" ELSE "fail"
           r == [record[i] EXCEPT !.bound = FALSE]
<1>1. /\ receipt \in [Items -> {"none", "pass", "fail"}] /\ record \in [Items -> RunRecords] /\ record[i] \in RunRecords
      /\ verdicts \in Verdicts
  BY Zenon DEF PipelineInv, PipelineTyped
<1>2. a \in {"pass", "fail"} /\ (a = "pass" => tree \in Good[i])
  BY Zenon DEF Passes
<1>3. r \in RunRecords /\ r.ok = record[i].ok /\ r.before = record[i].before /\ r.after = record[i].after
  BY Zenon, <1>1 DEF RunRecords
<1>4. receipt' = [receipt EXCEPT ![i] = a] /\ record' = [record EXCEPT ![i] = r]
  BY Zenon, <1>1 DEF Record
<1>5. verdicts' \in Verdicts
  BY Zenon, <1>1 DEF Record, Verdicts
<1> HIDE DEF a, r
<1> QED
  BY Zenon, <1>1, <1>2, <1>3, <1>4, <1>5

\* A run keeps the invariant whoever it is made by.
LEMMA RunStep ==
    ASSUME PipelineInv, PipelineTyped', NEW i \in Items, Record(i), UNCHANGED <<tree, separate, claim, review, mark, proof>>,
           pass'.pc = pass.pc, pass'.version = pass.version, pool'.close = pool.close,
           \/ pool'.validators = pool.validators
           \/ /\ pool.validators.pc = "run" /\ pool'.validators.pc = "record"
              /\ i = pool.validators.item /\ pool'.validators.item = i
              /\ pool'.validators.before = pool.validators.before,
           pool'.validators.pc = "record" /\ pool.validators.pc # "record" => (receipt'[i] = "pass" => tree \in Good[i])
    PROVE  PipelineInv'
<1>1. /\ \A k \in Items : /\ record'[k].ok = record[k].ok /\ record'[k].before = record[k].before
                          /\ record'[k].after = record[k].after
      /\ \A k \in Items : receipt'[k] = "pass" => receipt[k] = "pass" \/ tree \in Good[k]
  BY Zenon, RecordIs
<1>2. RecordInv'
  BY Zenon, <1>1 DEF PipelineInv, RecordInv
<1>3. ReviewInv' /\ DoneIsEarned'
  BY Zenon DEF PipelineInv, ReviewInv, DoneIsEarned
<1>4. MarkInv'
  BY Zenon, <1>1 DEF PipelineInv, MarkInv
<1>5. WorkerInv'
  <2>0. tree \in Nat /\ tree <= tree
    BY DEF PipelineInv, PipelineTyped
  <2>1. CASE pool'.validators = pool.validators
    BY Zenon, <1>1, <2>0, <2>1 DEF PipelineInv, WorkerInv
  <2>2. CASE /\ pool.validators.pc = "run" /\ pool'.validators.pc = "record"
             /\ i = pool.validators.item /\ pool'.validators.item = i
             /\ pool'.validators.before = pool.validators.before
    BY Zenon, <2>0, <2>2 DEF PipelineInv, WorkerInv
  <2> QED
    BY Zenon, <2>1, <2>2
<1> QED
  BY Zenon, <1>2, <1>3, <1>4, <1>5 DEF PipelineInv

\* A pass without workers runs the validators itself.
LEMMA PassRunKeeps == ASSUME PipelineInv, PassRun PROVE PipelineInv'
<1>1. /\ pass.pc = "sync"
      /\ UNCHANGED <<lane, goal, pool, tries, review, rejection, mark, proof, decided, faults>>
  BY Zenon DEF PassRun
<1>2. PipelineTyped /\ pass \in PassStates /\ pass.left \in SUBSET Items /\ mark.by # "pass"
  BY Zenon, <1>1 DEF PipelineInv, PipelineTyped, PassStates, MarkInv
<1>3. CASE pass.left # {}
  <2> DEFINE i == First(pass.left)
             left == pass.left \ {i}
  <2>1. Record(i) /\ pass' = [pass EXCEPT !.left = left] /\ left \in SUBSET Items /\ i \in Items
    BY Zenon, <1>2, <1>3, FirstIsOne DEF PassRun
  <2> HIDE DEF i, left
  <2>2. pass' \in PassStates /\ pass'.pc = pass.pc /\ pass'.version = pass.version
    BY Zenon, <1>2, <2>1 DEF PassStates
  <2>3. PipelineTyped'
    BY Zenon, <1>1, <1>2, <2>1, <2>2, RecordIs DEF PipelineTyped, lane
  <2> QED
    BY Zenon, <1>1, <2>1, <2>2, <2>3, RunStep DEF lane
<1>4. CASE pass.left = {}
  <2> DEFINE ok == {i \in Items : Eligible(i)}
  <2>1. pass' = [pass EXCEPT !.pc = "judge", !.ok = ok] /\ UNCHANGED evidence /\ ok \in SUBSET Items
    BY Zenon, <1>4 DEF PassRun
  <2> HIDE DEF ok
  <2>2. pass' \in PassStates /\ pass'.pc = "judge"
    BY Zenon, <1>2, <2>1 DEF PassStates
  <2>3. PipelineTyped'
    BY Zenon, <1>1, <1>2, <2>1, <2>2 DEF PipelineTyped, lane, evidence
  <2> QED
    BY Zenon, <1>1, <1>2, <2>1, <2>2, <2>3, QuietStep DEF lane, evidence, PipelineInv, MarkInv
<1> QED
  BY Zenon, <1>3, <1>4

\* A worker takes the first digest of the tree.
LEMMA WorkerDigestKeeps == ASSUME PipelineInv, WorkerDigest PROVE PipelineInv'
<1> DEFINE i == First(pool.validators.left)
           w == [pool.validators EXCEPT !.pc = "run", !.item = i, !.before = tree]
<1>1. /\ pool.validators.pc = "digest"
      /\ UNCHANGED <<lane, goal, evidence, tries, review, rejection, pass, mark, proof, decided, faults>>
  BY Zenon DEF WorkerDigest
<1>2. PipelineTyped /\ pool \in Pools /\ pool.validators \in Workers /\ tree \in Nat /\ tree <= tree
  BY DEF PipelineInv, PipelineTyped, Pools
<1>3. i \in Items
  <2>1. pool.validators.left \in SUBSET Items
    BY Zenon, <1>2 DEF Workers
  <2>2. pool.validators.left # {}
    BY Zenon, <1>1 DEF PipelineInv, WorkerInv
  <2> QED
    BY Zenon, <2>1, <2>2, FirstIsOne
<1>4. pool' = [pool EXCEPT !.validators = w]
  BY Zenon, <1>2 DEF WorkerDigest, Pools
<1> HIDE DEF i
<1>5. w \in Workers /\ w.pc = "run" /\ w.item = i /\ w.before = tree
  BY Zenon, <1>2, <1>3 DEF Workers
<1> HIDE DEF w
<1>6. pool' \in Pools /\ pool'.validators = w /\ pool'.close = pool.close
  BY Zenon, <1>2, <1>4, <1>5, PoolWith
<1>7. PipelineTyped'
  BY Zenon, <1>1, <1>2, <1>6 DEF PipelineTyped, lane, evidence
<1>8. WorkerInv'
  BY Zenon, <1>1, <1>2, <1>3, <1>5, <1>6 DEF WorkerInv, lane
<1>9. RecordInv' /\ ReviewInv' /\ MarkInv' /\ DoneIsEarned'
  BY Zenon, <1>1, <1>6 DEF PipelineInv, RecordInv, ReviewInv, MarkInv, DoneIsEarned, lane, evidence
<1> QED
  BY Zenon, <1>7, <1>8, <1>9 DEF PipelineInv

\* A worker runs a validator and records it with the second digest.
LEMMA WorkerRunKeeps == ASSUME PipelineInv, WorkerRun PROVE PipelineInv'
<1> DEFINE w == [pool.validators EXCEPT !.pc = "record"]
           i == pool.validators.item
<1>1. /\ pool.validators.pc = "run" /\ Record(i)
      /\ UNCHANGED <<lane, goal, tries, review, rejection, pass, mark, proof, decided, faults>>
  BY Zenon DEF WorkerRun
<1>2. PipelineTyped /\ pool \in Pools /\ pool.validators \in Workers
  BY Zenon DEF PipelineInv, PipelineTyped, Pools
<1>3. i \in Items
  BY Zenon, <1>1 DEF PipelineInv, WorkerInv
<1>4. pool' = [pool EXCEPT !.validators = w]
  BY Zenon, <1>2 DEF WorkerRun, Worker, Pools
<1>5. w \in Workers /\ w.pc = "record" /\ w.item = i /\ w.before = pool.validators.before
  BY Zenon, <1>2 DEF Workers
<1> HIDE DEF w
<1>6. pool' \in Pools /\ pool'.validators = w /\ pool'.close = pool.close
  BY Zenon, <1>2, <1>4, <1>5, PoolWith
<1>7. PipelineTyped'
  BY Zenon, <1>1, <1>2, <1>3, <1>6, RecordIs DEF PipelineTyped, lane
<1>8. receipt'[i] = "pass" => tree \in Good[i]
  BY Zenon, <1>1, <1>3 DEF Record, Passes, PipelineInv, PipelineTyped
<1> QED
  BY Zenon, <1>1, <1>3, <1>5, <1>6, <1>7, <1>8, RunStep DEF lane

\* The record of a run: whatever tree it saw is between the two digests.
LEMMA WorkerRecordKeeps == ASSUME PipelineInv, WorkerRecord PROVE PipelineInv'
<1> DEFINE i == pool.validators.item
           left == pool.validators.left \ {i}
           w == IF left = {} THEN Off ELSE [Off EXCEPT !.pc = "digest", !.left = left]
           r == [made |-> TRUE, bound |-> TRUE, ok |-> receipt[i] = "pass", before |-> pool.validators.before,
                 after |-> tree]
           m == IF mark.by = "none" THEN mark ELSE [mark EXCEPT !.alone = FALSE]
<1>1. /\ pool.validators.pc = "record" /\ record' = [record EXCEPT ![i] = r]
      /\ pool' = [pool EXCEPT !.validators = w] /\ mark' = m
      /\ UNCHANGED <<lane, goal, receipt, verdicts, check, tries, review, rejection, pass, proof, decided, faults>>
  BY Zenon DEF WorkerRecord
<1>2. /\ PipelineTyped /\ pool \in Pools /\ pool.validators \in Workers /\ tree \in Nat /\ tree <= tree
      /\ record \in [Items -> RunRecords] /\ mark \in Marks
  BY DEF PipelineInv, PipelineTyped, Pools
<1>3. /\ i \in Items /\ pool.validators.before <= tree /\ pool.validators.before \in Nat /\ left \in SUBSET Items
      /\ receipt[i] = "pass" => \E t \in Good[i] : pool.validators.before <= t /\ t <= tree
  BY Zenon, <1>1, <1>2 DEF PipelineInv, WorkerInv, Workers
<1>4. w \in Workers /\ w.pc \in {"off", "digest"} /\ w.left # {}
  BY Zenon, <1>3, RestTyped, PipelineAssumption DEF Workers
<1>6. /\ r \in RunRecords /\ r.before = pool.validators.before /\ r.after = tree
      /\ r.ok => receipt[i] = "pass"
  BY Zenon, <1>2, <1>3 DEF RunRecords
<1>7. /\ m \in Marks /\ m.by = mark.by /\ m.left = mark.left /\ m.shown = mark.shown
      /\ mark.by # "none" => ~m.alone
      /\ mark.by = "none" => m = mark
  BY Zenon, <1>2 DEF Marks
<1> HIDE DEF w, r, m, left
<1>8. pool' \in Pools /\ pool'.validators = w /\ pool'.close = pool.close
  BY Zenon, <1>1, <1>2, <1>4, PoolWith
<1>9. PipelineTyped'
  BY Zenon, <1>1, <1>2, <1>3, <1>6, <1>7, <1>8 DEF PipelineTyped, lane
<1>10. WorkerInv'
  BY Zenon, <1>4, <1>8 DEF WorkerInv
<1>11. RecordInv'
  <2>1. r.before = r.after /\ r.ok => r.after \in Good[i]
    <3> SUFFICES ASSUME r.before = r.after, r.ok PROVE tree \in Good[i]
      BY Zenon, <1>6
    <3>1. PICK t \in Good[i] : tree <= t /\ t <= tree
      BY Zenon, <1>3, <1>6
    <3>2. t \in Nat
      BY Zenon, <1>3, PipelineAssumption
    <3> QED
      BY <1>2, <3>1, <3>2
  <2> QED
    BY Zenon, <1>1, <1>2, <1>3, <1>6, <2>1 DEF PipelineInv, RecordInv, lane
<1>12. ReviewInv' /\ DoneIsEarned'
  BY Zenon, <1>1, <1>8 DEF PipelineInv, ReviewInv, DoneIsEarned, lane
<1>13. MarkInv'
  <2>1. CASE mark.by # "none"
    BY Zenon, <1>1, <1>7, <1>8, <2>1 DEF PipelineInv, MarkInv, lane
  <2>2. CASE mark.by = "none"
    <3>1. mark.shown = {}
      BY Zenon, SMTT(30), <2>2, RestTyped DEF PipelineInv, MarkInv
    <3> QED
      BY Zenon, <1>1, <1>7, <1>8, <2>2, <3>1 DEF PipelineInv, MarkInv, lane
  <2> QED
    BY Zenon, <2>1, <2>2
<1> QED
  BY Zenon, <1>9, <1>10, <1>11, <1>12, <1>13 DEF PipelineInv

\* The receipts are verified again before the close.
LEMMA VerifyKeeps == ASSUME PipelineInv, VerifyItem \/ VerifyRecord PROVE PipelineInv'
<1>1. UNCHANGED <<lane, goal, receipt, record, tries, review, rejection, pass, mark, proof, decided, faults>>
  BY Zenon DEF VerifyItem, VerifyRecord, evidence
<1>2. PipelineTyped /\ pool \in Pools /\ pool.verify \in Workers
  BY Zenon DEF PipelineInv, PipelineTyped, Pools
<1>3. \E w \in Workers : pool' = [pool EXCEPT !.verify = w]
  <2>1. CASE VerifyItem
    <3> DEFINE i == First(pool.verify.left)
               ok == IF Eligible(i) THEN {i} ELSE {}
               w == [pool.verify EXCEPT !.left = pool.verify.left \ {i}, !.ok = pool.verify.ok \cup ok]
    <3>1. pool.verify.left \in (SUBSET Items) \ {{}}
      BY Zenon, <1>2, <2>1 DEF VerifyItem, Workers
    <3>2. i \in Items
      BY Zenon, <3>1, FirstIsOne
    <3>3. pool' = [pool EXCEPT !.verify = w]
      BY Zenon, <1>2, <2>1 DEF VerifyItem, Pools
    <3>4. ok \in SUBSET Items
      BY Zenon, <3>2
    <3> HIDE DEF i, ok
    <3>5. w \in Workers
      BY Zenon, <1>2, <3>2, <3>4 DEF Workers
    <3> QED
      BY Zenon, <3>3, <3>5
  <2>2. CASE VerifyRecord
    BY Zenon, <2>2, RestTyped DEF VerifyRecord
  <2> QED
    BY Zenon, <2>1, <2>2
<1>a. PICK w \in Workers : pool' = [pool EXCEPT !.verify = w]
  BY Zenon, <1>3
<1>4. pool' \in Pools /\ pool'.validators = pool.validators /\ pool'.close = pool.close
  BY Zenon, <1>2, <1>a, PoolWith
<1>5. verdicts' \in Verdicts
  <2>1. CASE VerifyItem
    BY Zenon, <1>2, <2>1 DEF VerifyItem, evidence, PipelineTyped
  <2>2. CASE VerifyRecord
    BY Zenon, <1>2, <2>2 DEF VerifyRecord, PipelineTyped, Verdicts, Workers
  <2> QED
    BY Zenon, <2>1, <2>2
<1>6. PipelineTyped'
  BY Zenon, <1>1, <1>2, <1>4, <1>5 DEF PipelineTyped, lane
<1> QED
  BY Zenon, <1>1, <1>4, <1>6, QuietStep DEF lane, PipelineInv, MarkInv, ReviewInv

\* A close begins: nothing is shown yet.
LEMMA MarkBeginKeeps == ASSUME PipelineInv, MarkBegin PROVE PipelineInv'
<1>1. /\ mark.by = "none"
      /\ UNCHANGED <<lane, goal, evidence, pool, tries, review, rejection, pass, proof, decided, faults>>
  BY Zenon DEF MarkBegin
<1>2. mark = NoMark /\ PipelineTyped
  BY Zenon, <1>1 DEF PipelineInv, MarkInv
<1>3. PICK b \in {"pass", "worker"} : /\ mark' = [NoMark EXCEPT !.by = b]
                                      /\ b = "pass" => pass.pc = "mark"
                                      /\ b = "worker" => pool.close.pc = "mark"
  BY Zenon DEF MarkBegin
<1>4. mark' \in Marks /\ mark'.by = b /\ mark'.left = mark.left /\ mark'.shown = mark.shown /\ mark'.alone = mark.alone
  BY Zenon, <1>2, <1>3, RestTyped DEF Marks
<1>5. PipelineTyped'
  BY Zenon, <1>1, <1>2, <1>4 DEF PipelineTyped, lane, evidence
<1> QED
  BY Zenon, <1>1, <1>3, <1>4, <1>5, QuietStep DEF lane, evidence, PipelineInv, ReviewInv

\* One more receipt is shown to the close; the records a close relies on are about one tree
\* because the tree only moves on and none of them is about a later one.
LEMMA MarkShows ==
    ASSUME PipelineInv, mark.by # "none", NEW i \in mark.left, Eligible(i), NEW b \in BOOLEAN,
           b <=> separate /\ record[i].bound,
           mark' = [mark EXCEPT !.left = @ \ {i}, !.shown = @ \cup {<<i, tree, b>>}],
           UNCHANGED <<lane, goal, evidence, tries, review, proof, decided, faults, pool, pass, rejection>>
    PROVE  PipelineInv'
<1>1. PipelineTyped /\ mark \in Marks /\ mark.left \in SUBSET Items /\ mark.shown \in SUBSET Shown /\ tree \in Nat
  BY Zenon DEF PipelineInv, PipelineTyped, Marks
<1>2. i \in Items
  BY Zenon, <1>1
<1>3. tree \in Good[i] /\ (b => record[i].after = tree)
  BY Zenon, <1>2, EligibleIsGood
<1> DEFINE new == <<i, tree, b>>
<1>4. new \in Shown /\ new[1] = i /\ new[2] = tree /\ new[3] = b
  BY Zenon, <1>1, <1>2 DEF Shown
<1> DEFINE left == mark.left \ {i}
           shown == mark.shown \cup {new}
<1>5. mark' = [mark EXCEPT !.left = left, !.shown = shown] /\ left \in SUBSET Items /\ shown \in SUBSET Shown
  BY Zenon, <1>1, <1>4
<1> HIDE DEF new
<1>6. /\ mark' \in Marks /\ mark'.by = mark.by /\ mark'.left = left /\ mark'.shown = shown /\ mark'.alone = mark.alone
  <2> HIDE DEF left, shown
  <2> QED
    BY Zenon, <1>1, <1>5 DEF Marks
<1>7. PipelineTyped'
  BY Zenon, <1>1, <1>6 DEF PipelineTyped, lane, evidence
<1>8. RecordInv' /\ WorkerInv' /\ ReviewInv' /\ DoneIsEarned'
  BY Zenon DEF PipelineInv, RecordInv, WorkerInv, ReviewInv, DoneIsEarned, lane, evidence
<1>9. \A k \in Items \ left : \E x \in shown : x[1] = k
  BY Zenon, <1>1, <1>4 DEF PipelineInv, MarkInv
<1>10. \A x \in shown : x[2] \in Good[x[1]] /\ x[2] <= tree
  <2>1. tree <= tree
    BY <1>1
  <2> QED
    BY Zenon, <1>3, <1>4, <2>1 DEF PipelineInv, MarkInv
<1>11. mark.alone => \A x \in shown : x[3] => \A k \in Items : record[k].after <= x[2]
  BY Zenon, <1>4 DEF PipelineInv, MarkInv, RecordInv
<1>12. mark.alone => \A x, y \in shown : x[3] /\ y[3] => x[2] = y[2]
  <2> SUFFICES ASSUME mark.alone, b, NEW x \in mark.shown, x[3] PROVE x[2] = tree
    BY Zenon, <1>4 DEF PipelineInv, MarkInv
  <2>1. record[i].after <= x[2] /\ x[2] <= tree /\ x[2] \in Nat
    BY Zenon, <1>1, <1>2 DEF PipelineInv, MarkInv, Shown
  <2> QED
    BY <1>1, <1>3, <2>1
<1>13. MarkInv'
  <2> HIDE DEF left, shown
  <2>1. (mark.by = "pass" => pass.pc = "mark") /\ (mark.by = "worker" => pool.close.pc = "mark")
    BY Zenon DEF PipelineInv, MarkInv
  <2> QED
    BY Zenon, <1>6, <1>9, <1>10, <1>11, <1>12, <2>1 DEF MarkInv, lane, evidence
<1> QED
  BY Zenon, <1>7, <1>8, <1>13 DEF PipelineInv

\* A close that ends, however it ends.
LEMMA CloseEnds ==
    ASSUME PipelineInv, PipelineTyped', mark' = NoMark,
           UNCHANGED <<tree, claim, proof, receipt, record, review>>,
           pass'.pc \in {"close", "mark"} => pass' = pass,
           pool'.close.pc = "mark" => pool'.close = pool.close,
           pool'.validators = pool.validators \/ pool'.validators = Off
    PROVE  PipelineInv'
<1>1. RecordInv' /\ ReviewInv' /\ DoneIsEarned'
  BY Zenon DEF PipelineInv, RecordInv, ReviewInv, DoneIsEarned
<1>2. WorkerInv'
  BY Zenon, RestTyped, PipelineAssumption DEF PipelineInv, WorkerInv
<1>3. MarkInv'
  BY Zenon, RestTyped DEF MarkInv
<1> QED
  BY Zenon, <1>1, <1>2, <1>3 DEF PipelineInv

\* A close looks at the record of one more item.
LEMMA MarkItemKeeps == ASSUME PipelineInv, MarkItem PROVE PipelineInv'
<1> DEFINE i == First(mark.left)
<1>1. /\ mark.by # "none" /\ mark.left # {}
      /\ UNCHANGED <<lane, goal, evidence, tries, review, proof, decided, faults>>
  BY Zenon DEF MarkItem
<1>2. PipelineTyped /\ mark.left \in (SUBSET Items) \ {{}} /\ i \in mark.left
  BY Zenon, SMTT(30), <1>1, FirstIsOne DEF PipelineInv, PipelineTyped, Marks
<1>3. CASE Eligible(i)
  <2>1. PICK b \in BOOLEAN : b = (separate /\ record[i].bound)
    BY Zenon
  <2>2. mark' = [mark EXCEPT !.left = @ \ {i}, !.shown = @ \cup {<<i, tree, b>>}] /\ UNCHANGED <<pool, pass, rejection>>
    BY Zenon, <1>3, <2>1 DEF MarkItem
  <2> QED
    BY Zenon, <1>1, <1>2, <1>3, <2>1, <2>2, MarkShows
<1>4. CASE ~Eligible(i)
  <2>1. /\ mark' = NoMark
        /\ \/ pass' = [pass EXCEPT !.pc = "dispute"] /\ pool' = pool
           \/ pool' = [pool EXCEPT !.close = NoClose] /\ pass' = pass
    BY Zenon, <1>4 DEF MarkItem, GotoPass
  <2>2. /\ pass' \in PassStates /\ pool' \in Pools /\ pool'.validators = pool.validators
        /\ pass'.pc \in {"close", "mark"} => pass' = pass
        /\ pool'.close.pc = "mark" => pool'.close = pool.close
    <3>1. pass \in PassStates /\ pool \in Pools
      BY Zenon, <1>2 DEF PipelineTyped
    <3>2. CASE pass' = [pass EXCEPT !.pc = "dispute"] /\ pool' = pool
      BY Zenon, <3>1, <3>2, PassWith
    <3>3. CASE pool' = [pool EXCEPT !.close = NoClose] /\ pass' = pass
      BY Zenon, <3>1, <3>3, PoolWithJob, RestTyped
    <3> QED
      BY Zenon, <2>1, <3>2, <3>3
  <2>3. PipelineTyped'
    BY Zenon, <1>1, <1>2, <2>1, <2>2, RestTyped DEF PipelineTyped, lane, evidence
  <2> QED
    BY Zenon, <1>1, <2>1, <2>2, <2>3, CloseEnds DEF lane, evidence
<1> QED
  BY Zenon, <1>3, <1>4

\* The goal is marked done on what the close was shown, for the claim it was begun for.
LEMMA MarkWriteKeeps == ASSUME PipelineInv, MarkWrite PROVE PipelineInv'
<1>1. /\ mark.by # "none" /\ mark.left = {} /\ goal' = [goal EXCEPT !.status = "done"] /\ mark' = NoMark
      /\ UNCHANGED <<lane, receipt, record, verdicts, tries, review, rejection, faults>>
  BY Zenon DEF MarkWrite
<1>2. PipelineTyped /\ goal' \in [status : {"working", "disputed", "done", "held"}, version : Nat]
  BY Zenon, <1>1 DEF PipelineInv, PipelineTyped
<1>3. \/ pass' = NoPass /\ pool' = pool
      \/ pool' = [pool EXCEPT !.close = NoClose] /\ pass' = pass
  BY Zenon DEF MarkWrite, EndPass
<1>4. /\ pass' \in PassStates /\ pool' \in Pools /\ pool'.validators = pool.validators
      /\ pass'.pc \in {"close", "mark"} => pass' = pass
      /\ pool'.close.pc = "mark" => pool'.close = pool.close
  <2>1. pass \in PassStates /\ pool \in Pools
    BY Zenon, <1>2 DEF PipelineTyped
  <2>2. CASE pass' = NoPass /\ pool' = pool
    BY Zenon, <2>1, <2>2, RestTyped
  <2>3. CASE pool' = [pool EXCEPT !.close = NoClose] /\ pass' = pass
    BY Zenon, <2>1, <2>3, PoolWithJob, RestTyped
  <2> QED
    BY Zenon, <1>3, <2>2, <2>3
<1>5. PipelineTyped'
  BY Zenon, <1>1, <1>2, <1>4, RestTyped DEF PipelineTyped, lane
<1>6. /\ proof'.shown = mark.shown /\ proof'.alone = mark.alone
      /\ <<proof'.text, proof'.version>> \in review.accepted
  <2>1. CASE mark.by = "pass"
    <3>1. proof'.text = claim.text /\ proof'.version = pass.version /\ proof'.shown = mark.shown /\ proof'.alone = mark.alone
      BY Zenon, <2>1 DEF MarkWrite
    <3> QED
      BY Zenon, <2>1, <3>1 DEF PipelineInv, MarkInv, ReviewInv
  <2>2. CASE mark.by = "worker"
    <3>1. /\ proof'.text = pool.close.text /\ proof'.version = pool.close.version
          /\ proof'.shown = mark.shown /\ proof'.alone = mark.alone
      BY Zenon, <2>2 DEF MarkWrite
    <3> QED
      BY Zenon, <2>2, <3>1 DEF PipelineInv, MarkInv, ReviewInv
  <2> QED
    BY Zenon, <1>1, <1>2, <2>1, <2>2 DEF PipelineTyped, Marks
<1>7. DoneIsEarned'
  BY <1>1, <1>6 DEF PipelineInv, MarkInv, DoneIsEarned
<1>8. RecordInv' /\ ReviewInv'
  BY Zenon, <1>1, <1>4 DEF PipelineInv, RecordInv, ReviewInv, lane
<1>9. WorkerInv'
  BY Zenon, <1>1, <1>4 DEF PipelineInv, WorkerInv, lane
<1>10. MarkInv'
  BY Zenon, <1>1, RestTyped DEF MarkInv
<1> QED
  BY Zenon, <1>5, <1>7, <1>8, <1>9, <1>10 DEF PipelineInv

\* A review ends, or is due again.
LEMMA ReviewKeeps == ASSUME PipelineInv, ReviewWorker \/ RetryDue PROVE PipelineInv'
<1>1. /\ UNCHANGED <<lane, goal, evidence, tries, rejection, pass, mark, proof, decided>>
      /\ pool' = pool \/ pool' = [pool EXCEPT !.review = NoClose]
  BY Zenon DEF ReviewWorker, RetryDue
<1>2. PipelineTyped /\ pool \in Pools /\ pool.review \in Jobs /\ review \in Reviews
  BY Zenon DEF PipelineInv, PipelineTyped, Pools
<1>3. pool' \in Pools /\ pool'.validators = pool.validators /\ pool'.close = pool.close
  BY Zenon, <1>1, <1>2, RestTyped, PoolWithJob
<1> DEFINE of == <<pool.review.text, pool.review.version>>
<1>4. of \in ClaimTexts \X Nat
  BY Zenon, <1>2 DEF Jobs
<1>5. \/ review' = [review EXCEPT !.accepted = @ \cup {of}]
      \/ review' = [review EXCEPT !.rejected = @ \cup {of}]
      \/ \E b \in BOOLEAN : review' = [review EXCEPT !.failed = b]
  BY Zenon DEF ReviewWorker, RetryDue
<1> HIDE DEF of
<1>6. review' \in Reviews /\ review.accepted \subseteq review'.accepted
  BY <1>2, <1>4, <1>5 DEF Reviews
<1>7. PipelineTyped'
  BY Zenon, <1>1, <1>2, <1>3, <1>6 DEF PipelineTyped, lane, evidence
<1> QED
  BY Zenon, <1>1, <1>3, <1>6, <1>7, QuietStep DEF lane, evidence, PipelineInv, MarkInv, ReviewInv

\* The tree changes, and no record is about the new tree.
LEMMA EditKeeps == ASSUME PipelineInv, Edit PROVE PipelineInv'
<1>1. /\ tree' = tree + 1
      /\ UNCHANGED <<separate, claim, goal, evidence, pool, tries, review, rejection, pass, mark, proof, decided, faults>>
  BY Zenon DEF Edit
<1>2. PipelineTyped /\ tree \in Nat /\ tree' \in Nat /\ \A n \in Nat : n <= tree => n <= tree'
  BY <1>1 DEF PipelineInv, PipelineTyped
<1>3. PipelineTyped'
  BY Zenon, <1>1, <1>2 DEF PipelineTyped, evidence
<1>4. RecordInv'
  <2>1. \A i \in Items : record[i].after \in Nat
    BY Zenon, <1>2 DEF PipelineTyped, RunRecords
  <2> QED
    BY Zenon, <1>1, <1>2, <2>1 DEF PipelineInv, RecordInv, evidence
<1>5. WorkerInv'
  <2>1. pool.validators.before \in Nat
    BY Zenon, <1>2 DEF PipelineTyped, Pools, Workers
  <2>2. \A i \in Items : \A t \in Good[i] : t \in Nat
    BY Zenon, PipelineAssumption
  <2> QED
    BY Zenon, <1>1, <1>2, <2>1, <2>2 DEF PipelineInv, WorkerInv, evidence
<1>6. MarkInv'
  <2>1. \A x \in mark.shown : x[2] \in Nat
    BY Zenon, <1>2 DEF PipelineTyped, Marks, Shown
  <2> QED
    BY Zenon, <1>1, <1>2, <2>1 DEF PipelineInv, MarkInv, evidence
<1>7. ReviewInv' /\ DoneIsEarned'
  BY Zenon, SMTT(30), <1>1 DEF PipelineInv, ReviewInv, DoneIsEarned
<1> QED
  BY Zenon, <1>3, <1>4, <1>5, <1>6, <1>7 DEF PipelineInv

\* A claim is made, or the goal is held or redirected.
LEMMA GoalKeeps == ASSUME PipelineInv, Claim \/ Hold \/ Redirect PROVE PipelineInv'
<1>1. /\ UNCHANGED <<separate, tree, evidence, pool, tries, review, rejection, pass, mark, proof, decided>>
      /\ pass = NoPass \/ claim' = claim
  BY Zenon DEF Claim, Hold, Redirect, lane
<1>2. claim' \in [n : Nat, text : ClaimTexts] /\ goal' \in [status : {"working", "disputed", "done", "held"}, version : Nat]
  <2>1. claim \in [n : Nat, text : ClaimTexts] /\ goal \in [status : {"working", "disputed", "done", "held"}, version : Nat]
    BY Zenon DEF PipelineInv, PipelineTyped
  <2>2. CASE Claim
    BY <2>1, <2>2 DEF Claim, ClaimTexts
  <2>3. CASE Hold
    BY Zenon, <2>1, <2>3 DEF Hold, lane
  <2>4. CASE Redirect
    BY <2>1, <2>4 DEF Redirect, lane
  <2> QED
    BY Zenon, <2>2, <2>3, <2>4
<1>3. PipelineTyped'
  BY Zenon, <1>1, <1>2 DEF PipelineInv, PipelineTyped, evidence
<1> QED
  BY Zenon, <1>1, <1>3, RestTyped, QuietStep DEF evidence, PipelineInv, MarkInv, ReviewInv

\* A worker fails.
LEMMA WorkerFailsKeeps == ASSUME PipelineInv, WorkerFails PROVE PipelineInv'
<1>1. UNCHANGED <<lane, goal, evidence, tries, review, rejection, pass, proof, decided>>
  BY Zenon DEF WorkerFails
<1>2. PipelineTyped /\ pool \in Pools
  BY Zenon DEF PipelineInv, PipelineTyped
<1>3. CASE mark' = mark /\ (pool' = [pool EXCEPT !.validators = Off] \/ pool' = [pool EXCEPT !.verify = Off])
  <2>1. /\ pool' \in Pools /\ pool'.close = pool.close
        /\ pool'.validators = pool.validators \/ pool'.validators = Off
    BY Zenon, <1>2, <1>3, RestTyped, PoolWith
  <2>2. PipelineTyped'
    BY Zenon, <1>1, <1>2, <1>3, <2>1 DEF PipelineTyped, lane, evidence
  <2> QED
    BY Zenon, <1>1, <1>3, <2>1, <2>2, RestTyped, PipelineAssumption, QuietStep DEF lane, evidence, PipelineInv, MarkInv, ReviewInv
<1>4. CASE mark' = NoMark /\ pool' = [pool EXCEPT !.close = NoClose]
  <2>1. pool' \in Pools /\ pool'.close = NoClose /\ pool'.validators = pool.validators
    BY Zenon, <1>2, <1>4, RestTyped, PoolWithJob
  <2>2. PipelineTyped'
    BY Zenon, <1>1, <1>2, <1>4, <2>1, RestTyped DEF PipelineTyped, lane, evidence
  <2> QED
    BY Zenon, <1>1, <1>4, <2>1, <2>2, RestTyped, CloseEnds DEF lane, evidence
<1> QED
  BY Zenon, <1>3, <1>4 DEF WorkerFails

\* The monitor restarts and loses its workers.
LEMMA RestartKeeps == ASSUME PipelineInv, Restart PROVE PipelineInv'
<1>1. /\ pass' = NoPass /\ mark' = NoMark
      /\ pool' = [validators |-> Off, verify |-> Off, close |-> NoClose, review |-> NoClose]
      /\ UNCHANGED <<lane, goal, evidence, review, rejection, proof, decided>>
  BY Zenon DEF Restart
<1>2. pool' \in Pools /\ pool'.validators = Off /\ pool'.close = NoClose
  BY Zenon, <1>1, RestTyped DEF Pools
<1>3. PipelineTyped'
  BY Zenon, SMTT(30), <1>1, <1>2, RestTyped DEF PipelineInv, PipelineTyped, lane, evidence
<1> QED
  BY Zenon, <1>1, <1>2, <1>3, RestTyped, CloseEnds DEF lane, evidence

\* Nothing happens.
LEMMA PipelineStutters == ASSUME PipelineInv, UNCHANGED pipelineVars PROVE PipelineInv'
<1>1. PipelineTyped'
  BY Zenon DEF PipelineInv, PipelineTyped, pipelineVars, lane, evidence
<1> QED
  BY Zenon, <1>1, QuietStep DEF PipelineInv, MarkInv, ReviewInv, pipelineVars, lane, evidence

\* Every step preserves the invariant.
LEMMA PipelineStep == ASSUME PipelineInv, [PipelineNext]_pipelineVars PROVE PipelineInv'
<1>1. CASE PassStep
  BY Zenon, <1>1, PassBeginKeeps, PassEvidenceKeeps, PassRunKeeps, PassJudgeKeeps, PassCloseKeeps, PassDisputeKeeps DEF PassStep
<1>2. CASE WorkerStep
  BY Zenon, <1>2, WorkerDigestKeeps, WorkerRunKeeps, WorkerRecordKeeps, VerifyKeeps DEF WorkerStep
<1>3. CASE MarkStep
  BY Zenon, <1>3, MarkBeginKeeps, MarkItemKeeps, MarkWriteKeeps DEF MarkStep
<1>4. CASE ReviewWorker \/ RetryDue \/ Edit \/ Claim \/ Hold \/ Redirect \/ WorkerFails \/ Restart
  BY Zenon, <1>4, ReviewKeeps, EditKeeps, GoalKeeps, WorkerFailsKeeps, RestartKeeps
<1> QED
  BY Zenon, <1>1, <1>2, <1>3, <1>4, PipelineStutters DEF PipelineNext

\* A goal is marked done only on receipts that passed on the tree they were verified on, one tree
\* for all records that stand in for a run, and for a claim the reviewers accepted under the
\* contract the pass read; for any number of items, edits, claims, attempts, workers that fail
\* and restarts (mark_completion_gate_passed, _trusted_validator_result, _completion_review).
THEOREM CompletionsAreEarned == PipelineSpec => []DoneIsEarned
<1>1. PipelineInit => PipelineInv
  BY Zenon, PipelineInitHolds
<1>2. PipelineInv /\ [PipelineNext]_pipelineVars => PipelineInv'
  BY Zenon, PipelineStep
<1>3. PipelineInv => DoneIsEarned
  BY Zenon DEF PipelineInv
<1> QED
  BY <1>1, <1>2, <1>3, PTL DEF PipelineSpec

=============================================================================
