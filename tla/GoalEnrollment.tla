--------------------------- MODULE GoalEnrollment ---------------------------
(***************************************************************************)
(* How goal records come into being: the interview nonce and the enrolling *)
(* "set" (goals_cli.py), the transfer of a lane to a successor and the     *)
(* close (goals.py), over the records of several lanes in one goals.json.  *)
(* An enrollment and a transfer write twice under the lock of goals.json   *)
(* ("busy"); a crash between the two writes frees the lock.  The nonce     *)
(* file has a lock of its own, so nonces are issued at any time.           *)
(***************************************************************************)
EXTENDS Naturals, Sequences, FiniteSets, FiniteSetsExt

CONSTANTS
    Sessions,       \* session references
    LaneId,         \* [Sessions -> lane name]: the reference without its host
    Candidates,     \* [Sessions -> Seq(Sessions)]: the successor references, in order
    Requests,       \* "set" requests (their digests)
    MaxSets,        \* bound: "set" commands under way that have read the store
    MaxNonce,       \* bound: nonces issued
    MaxEdits        \* bound: edits of the validator registry

ASSUME EnrollmentAssumption ==
    /\ "" \notin Sessions
    /\ Candidates \in [Sessions -> Seq(Sessions)]

VARIABLES
    goal,           \* record of each session, or Absent
    nonce,          \* the nonce file of each session
    asking,         \* sessions for which a "set" has read that no goal exists
    read,           \* sessions for which a "set" has read the record: its receipt and pin
    busy,           \* the operation that holds the lock of goals.json between two writes
    registry,       \* edition of the registered validators
    spentNonces,    \* history: nonces whose consumption was written
    issued,         \* history: number of nonces
    died            \* history: an enrollment died between its two writes

enrollmentVars == <<goal, nonce, asking, read, busy, registry, spentNonces, issued, died>>

Missing == [absent |-> TRUE]
HasGoal(s) == goal[s] # Missing
Unlocked == busy = Missing
NoNonce == [id |-> 0, request |-> "", consumed |-> FALSE]

EnrollmentInit ==
    /\ goal = [s \in Sessions |-> Missing]
    /\ nonce = [s \in Sessions |-> NoNonce]
    /\ asking = {} /\ read = [s \in Sessions |-> Missing] /\ busy = Missing
    /\ registry = 0
    /\ spentNonces = {} /\ issued = 0
    /\ died = FALSE

history == <<spentNonces, issued, died>>

\* _upsert_goal_locked: another record has the lane's name.
LaneTaken(s) == \E t \in Sessions \ {s} : HasGoal(t) /\ LaneId[t] = LaneId[s]

\* A new record: who wrote it, and the session it succeeds as long as that session's record
\* is the one it was made from (history).
Fresh(receipt, by, origin) ==
    [receipt |-> receipt, pin |-> registry, status |-> "working", to |-> "", by |-> by, origin |-> origin]

Create(s, new) ==
    goal' = [t \in Sessions |->
                IF t = s THEN new
                ELSE IF HasGoal(t) /\ goal[t].origin = s THEN [goal[t] EXCEPT !.origin = ""]
                ELSE goal[t]]

EditRegistry ==
    /\ registry < MaxEdits
    /\ registry' = registry + 1
    /\ UNCHANGED <<goal, nonce, asking, read, busy, history>>

SetsUnderWay == Cardinality(asking) + Cardinality({s \in Sessions : read[s] # Missing})

\* "set" without --interview-result: get_goal finds nothing, before any lock.
ReadAbsent(s) ==
    /\ ~HasGoal(s) /\ s \notin asking /\ SetsUnderWay < MaxSets
    /\ asking' = asking \cup {s}
    /\ UNCHANGED <<goal, nonce, read, busy, registry, history>>

\* _interview_required: the same request gets the nonce it already has.
IssueNonce(s, request) ==
    /\ s \in asking
    /\ asking' = asking \ {s}
    /\ IF nonce[s].request = request
       THEN UNCHANGED <<nonce, issued>>
       ELSE /\ issued < MaxNonce
            /\ issued' = issued + 1
            /\ nonce' = [nonce EXCEPT ![s] = [id |-> issued + 1, request |-> request, consumed |-> FALSE]]
    /\ UNCHANGED <<goal, read, busy, registry, spentNonces, died>>

\* _enroll_from_interview_result up to the goal commit: the result's nonce is the file's, which
\* is unconsumed; the items are pinned to the registry.
CommitEnrollment(s) ==
    /\ Unlocked /\ ~HasGoal(s) /\ ~LaneTaken(s)
    /\ nonce[s].id # 0 /\ ~nonce[s].consumed
    /\ Create(s, Fresh(nonce[s].id, "interview", ""))
    /\ busy' = [op |-> "enroll", s |-> s, id |-> nonce[s].id]
    /\ UNCHANGED <<nonce, asking, read, registry, spentNonces, issued, died>>

\* Mutant: the goal is not rolled back.
ConsumeNonceOrKeepGoal ==
    /\ ~Unlocked /\ busy.op = "enroll"
    /\ busy' = Missing
    /\ IF nonce[busy.s].id = busy.id
       THEN nonce' = [nonce EXCEPT ![busy.s].consumed = TRUE] /\ spentNonces' = spentNonces \cup {busy.id}
       ELSE UNCHANGED <<nonce, spentNonces>>
    /\ UNCHANGED <<goal, asking, read, registry, issued, died>>

\* ... and its second half, under the nonce lock: a nonce that was replaced meanwhile rolls
\* the goals document back.
ConsumeNonce ==
    /\ ~Unlocked /\ busy.op = "enroll"
    /\ busy' = Missing
    /\ IF nonce[busy.s].id = busy.id
       THEN /\ nonce' = [nonce EXCEPT ![busy.s].consumed = TRUE]
            /\ spentNonces' = spentNonces \cup {busy.id}
            /\ UNCHANGED goal
       ELSE /\ goal' = [goal EXCEPT ![busy.s] = Missing]
            /\ UNCHANGED <<nonce, spentNonces>>
    /\ UNCHANGED <<asking, read, registry, issued, died>>

\* successor_session_ref: the first candidate that no record has.
FreeCandidates(s) == {i \in DOMAIN Candidates[s] : ~HasGoal(Candidates[s][i])}
SuccessorRef(s) == Candidates[s][Min(FreeCandidates(s))]

\* Mutant: a lane that was transferred can be transferred again.
HoldTransferredAgain(s) ==
    /\ Unlocked /\ HasGoal(s) /\ FreeCandidates(s) # {}
    /\ LET x == SuccessorRef(s)
       IN  /\ goal' = [goal EXCEPT ![s].status = "held", ![s].to = x]
           /\ busy' = [op |-> "transfer", s |-> s, to |-> x]
    /\ UNCHANGED <<nonce, asking, read, registry, history>>

\* transfer_goal: the first of its two writes.  The successor was validated without the
\* registry and without a look at other lanes' names.
HoldTransferred(s) ==
    /\ Unlocked /\ HasGoal(s) /\ goal[s].to = "" /\ FreeCandidates(s) # {}
    /\ LET x == SuccessorRef(s)
       IN  /\ goal' = [goal EXCEPT ![s].status = "held", ![s].to = x]
           /\ busy' = [op |-> "transfer", s |-> s, to |-> x]
    /\ UNCHANGED <<nonce, asking, read, registry, history>>

\* _upsert_goal_locked of a record that does not exist: enrollment contract against the
\* registry, then the lane's name.
Accepted(s, pin) == pin = registry /\ ~LaneTaken(s)

\* transfer_goal: the second write, or the exception of _upsert_goal_locked.
ScaffoldSuccessor ==
    /\ ~Unlocked /\ busy.op = "transfer"
    /\ busy' = Missing
    /\ IF Accepted(busy.to, goal[busy.s].pin)
       THEN Create(busy.to, Fresh(goal[busy.s].receipt, "transfer", busy.s))
       ELSE UNCHANGED goal
    /\ UNCHANGED <<nonce, asking, read, registry, spentNonces, issued, died>>

\* The process dies between the two writes; the kernel releases the lock.
EnrollmentDies ==
    /\ ~Unlocked /\ ~died
    /\ busy' = Missing
    /\ died' = TRUE
    /\ UNCHANGED <<goal, nonce, asking, read, registry, spentNonces, issued>>

\* "set" of an existing goal: get_goal before any lock ...
ReadGoalForSet(s) ==
    /\ HasGoal(s) /\ read[s] = Missing /\ SetsUnderWay < MaxSets
    /\ read' = [read EXCEPT ![s] = [receipt |-> goal[s].receipt, pin |-> goal[s].pin]]
    /\ UNCHANGED <<goal, nonce, asking, busy, registry, history>>

\* ... the update keeps the stored transfer link ...
Updated(s) == [goal[s] EXCEPT !.status = "working"]

\* ... and the write, which creates a record from the reading when the goal was closed meanwhile,
\* and is refused when the lane was enrolled anew.
WriteSetGoal(s) ==
    /\ Unlocked /\ read[s] # Missing
    /\ read' = [read EXCEPT ![s] = Missing]
    /\ IF HasGoal(s)
       THEN goal' = IF goal[s].receipt = read[s].receipt THEN [goal EXCEPT ![s] = Updated(s)] ELSE goal
       ELSE IF Accepted(s, read[s].pin)
       THEN Create(s, Fresh(read[s].receipt, "set", ""))
       ELSE UNCHANGED goal
    /\ UNCHANGED <<nonce, asking, busy, registry, spentNonces, issued, died>>

ResumeHeld(s) ==
    /\ Unlocked /\ HasGoal(s) /\ goal[s].status = "held"
    /\ goal' = [goal EXCEPT ![s].status = "working"]
    /\ UNCHANGED <<nonce, asking, read, busy, registry, history>>

CloseSession(s) ==
    /\ Unlocked /\ HasGoal(s)
    /\ goal' = [goal EXCEPT ![s] = Missing]
    /\ UNCHANGED <<nonce, asking, read, busy, registry, history>>

EnrollmentNext ==
    \/ EditRegistry
    \/ \E s \in Sessions : \/ ReadAbsent(s) \/ \E r \in Requests : IssueNonce(s, r)
                           \/ CommitEnrollment(s) \/ HoldTransferred(s)
                           \/ ReadGoalForSet(s) \/ WriteSetGoal(s) \/ ResumeHeld(s) \/ CloseSession(s)
    \/ ConsumeNonce
    \/ ScaffoldSuccessor
    \/ EnrollmentDies

EnrollmentSpec == EnrollmentInit /\ [][EnrollmentNext]_enrollmentVars

-----------------------------------------------------------------------------
\* When no enrollment is under way, a goal that an interview enrolled has its nonce consumed:
\* a nonce that was replaced during the enrollment leaves no goal behind.
EnrollmentFailsClosed ==
    Unlocked /\ ~died =>
        \A s \in Sessions : HasGoal(s) /\ goal[s].by = "interview" => goal[s].receipt \in spentNonces

\* Lanes do not collide, over hosts, transfers and stale writes: two open goals never share a
\* lane name, and while its record lives a lane has at most one successor (goals.py: "two lanes
\* on one branch is the collision the doctrine forbids").
OneSuccessor ==
    \A s \in {x \in Sessions : HasGoal(x)} :
        /\ \A t \in Sessions \ {s} : HasGoal(t) => LaneId[s] # LaneId[t]
        /\ \A x, y \in {t \in Sessions : HasGoal(t) /\ goal[t].origin = s} : x = y
=============================================================================
