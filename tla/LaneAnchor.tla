----------------------------- MODULE LaneAnchor -----------------------------
(***************************************************************************)
(* The lifecycle of one governed lane: the durable transitions with their  *)
(* worktree checkpoints (recovery.py) and the commands start, pause,       *)
(* resume, shelve and close around them (lane_anchor.py).  A transition is *)
(* one locked write; what a command reads before it and does to the tmux   *)
(* session, the native-controls file and the queue are steps of their own. *)
(*                                                                         *)
(* "tree" stands for the worktree's identity (branch, commits, dirty and   *)
(* untracked digests): the transcript may grow between checkpoint and      *)
(* resume and does not count.  A request id belongs to one command, which  *)
(* is retried with it.  ingestion_gate refuses a command for a lane that   *)
(* is held, close_lane one whose completion is not verified: such a command *)
(* does not begin here.                                                    *)
(***************************************************************************)
EXTENDS Naturals, Sequences, Functions

CONSTANTS
    Commands,       \* commands, each with a request id of its own
    Kind,           \* [Commands -> {"start", "pause", "resume", "shelve", "close"}]
    MaxAtOnce,      \* bound: commands at once
    MaxRecords,     \* bound: lifecycle records
    MaxTree         \* bound: changes of the worktree

ASSUME AnchorAssumption ==
    /\ MaxTree \in Nat
    /\ Kind \in [Commands -> {"start", "pause", "resume", "shelve", "close"}]

VARIABLES
    atOnce,         \* how many commands may run at once (never changes)
    life,           \* state of the latest lifecycle record, "untracked" without one
    checkpoint,     \* worktree of the latest checkpoint
    applied,        \* request ids with their record: target and worktree
    records,        \* history: lifecycle records with their request id
    session,        \* the tmux session exists
    controls,       \* lifecycle field of native-controls.json, "missing" without the file
    queued,         \* records whose native-control orders were queued
    tree,           \* identity of the worktree now
    progress,       \* progress of each command
    crashed         \* history: a command died on the way

anchorVars == <<atOnce, life, checkpoint, applied, records, session, controls, queued, tree, progress, crashed>>
durable == <<life, checkpoint, applied, records>>
laneFiles == <<controls, queued>>
laneWorld == <<session, tree>>

States == {"active", "paused", "shelved", "closed"}

\* _ALLOWED_LANE_TRANSITIONS
AllowedTransitions ==
    {<<"untracked", "active">>, <<"active", "paused">>, <<"active", "shelved">>, <<"active", "closed">>,
     <<"paused", "active">>, <<"paused", "shelved">>, <<"paused", "closed">>,
     <<"shelved", "active">>, <<"shelved", "closed">>}

Target(c) == CASE Kind[c] \in {"start", "resume"} -> "active" [] Kind[c] = "pause" -> "paused"
               [] Kind[c] = "shelve" -> "shelved" [] Kind[c] = "close" -> "closed"

NotApplied == [state |-> "none", tree |-> 0]
NotRunning == [pc |-> "idle", pending |-> FALSE, seen |-> 0]

AnchorTypeOK ==
    /\ life \in States \cup {"untracked"} /\ controls \in States \cup {"missing"}
    /\ checkpoint \in 0..MaxTree /\ tree \in 0..MaxTree
    /\ \A c \in Commands : progress[c].pc \in {"idle", "refresh", "probe", "create", "prove", "capture", "transition",
                                          "check", "write", "queue", "stop"}

AnchorInit ==
    /\ atOnce \in 1..MaxAtOnce
    /\ life = "untracked" /\ checkpoint = 0 /\ applied = [c \in Commands |-> NotApplied] /\ records = <<>>
    /\ session = FALSE /\ controls = "missing" /\ queued = {} /\ tree = 0
    /\ progress = [c \in Commands |-> NotRunning] /\ crashed = FALSE

AtRest == \A c \in Commands : progress[c] = NotRunning

\* Fewer than atOnce commands are running.
Room ==
    \E others \in [1 .. (atOnce - 1) -> Commands] :
        \A d \in Commands : progress[d] # NotRunning => d \in Range(others)

GotoStep(c, pc) == progress' = [progress EXCEPT ![c].pc = pc]
End(c) == progress' = [progress EXCEPT ![c] = NotRunning]
Enter(c, pc, pending) == progress' = [progress EXCEPT ![c] = [NotRunning EXCEPT !.pc = pc, !.pending = pending]]

\* ingestion_gate and _pending_activation; resume_lane validates the worktree first, and a
\* retry of the request that made the lane active only makes sure of the session.
BeginStart(c) ==
    /\ progress[c] = NotRunning /\ Room
    /\ \/ Kind[c] = "start" /\ life = "untracked" /\ Enter(c, "probe", TRUE)
       \/ Kind[c] = "start" /\ life = "active" /\ Enter(c, "refresh", FALSE)
       \/ Kind[c] = "resume" /\ life \in {"paused", "shelved"} /\ tree = checkpoint /\ Enter(c, "probe", TRUE)
       \/ Kind[c] = "resume" /\ life = "active" /\ records[Len(records)] = c /\ Enter(c, "refresh", FALSE)
    /\ UNCHANGED <<atOnce, durable, laneFiles, laneWorld, crashed>>

\* start_lane of an active lane refreshes the controls before it looks at the session.
Refresh(c) ==
    /\ progress[c].pc = "refresh"
    /\ IF life = "active" THEN controls' = "active" /\ GotoStep(c, "probe") ELSE End(c) /\ UNCHANGED controls
    /\ UNCHANGED <<atOnce, durable, queued, laneWorld, crashed>>

\* pause_lane, shelve_lane and close_lane.
BeginStop(c) ==
    /\ progress[c] = NotRunning /\ Room
    /\ Kind[c] \in {"pause", "shelve", "close"}
    /\ Enter(c, "capture", TRUE)
    /\ UNCHANGED <<atOnce, durable, laneFiles, laneWorld, crashed>>

\* start_lane: tmux has-session ...
Probe(c) ==
    /\ progress[c].pc = "probe"
    /\ GotoStep(c, IF ~session THEN "create" ELSE IF progress[c].pending THEN "capture" ELSE "queue")
    /\ UNCHANGED <<atOnce, durable, laneFiles, laneWorld, crashed>>

\* ... new-session, which fails when the session exists by now ...
CreateSession(c) ==
    /\ progress[c].pc = "create"
    /\ IF session THEN End(c) ELSE GotoStep(c, "prove")
    /\ session' = TRUE
    /\ UNCHANGED <<atOnce, durable, laneFiles, tree, crashed>>

\* ... _require_startup_survival and _prove_lane_permissions: a session that is gone, or is
\* refused its work and is stopped, ends the launch.
Prove(c) ==
    /\ progress[c].pc = "prove"
    /\ \/ session /\ GotoStep(c, IF progress[c].pending THEN "capture" ELSE "queue") /\ UNCHANGED session
       \/ session' = FALSE /\ End(c)
    /\ UNCHANGED <<atOnce, durable, laneFiles, tree, crashed>>

\* _transition_for_lane: capture_worktree_binding ...
Capture(c) ==
    /\ progress[c].pc = "capture"
    /\ progress' = [progress EXCEPT ![c].pc = "transition", ![c].seen = tree]
    /\ UNCHANGED <<atOnce, durable, laneFiles, laneWorld, crashed>>

\* transition_lane_lifecycle: the request's record, when it has one.
Prior(c) == applied[c] # NotApplied

\* Mutant: the worktree of a resume is not compared with the checkpoint.
TransitionRefusedUnchecked(c) == <<life, Target(c)>> \notin AllowedTransitions

\* transition_lane_lifecycle: a new transition is refused.
TransitionRefused(c) ==
    \/ <<life, Target(c)>> \notin AllowedTransitions
    \/ Target(c) = "active" /\ life \in {"paused", "shelved"} /\ progress[c].seen # checkpoint

\* ... and transition_lane_lifecycle under its lock: one write for checkpoint and record.
Transition(c) ==
    /\ progress[c].pc = "transition"
    /\ IF Prior(c)
       THEN /\ IF applied[c] = [state |-> Target(c), tree |-> progress[c].seen] THEN GotoStep(c, "check") ELSE End(c)
            /\ UNCHANGED durable
       ELSE IF TransitionRefused(c)
       THEN End(c) /\ UNCHANGED durable
       ELSE /\ Len(records) < MaxRecords
            /\ life' = Target(c)
            /\ checkpoint' = progress[c].seen
            /\ applied' = [applied EXCEPT ![c] = [state |-> Target(c), tree |-> progress[c].seen]]
            /\ records' = Append(records, c)
            /\ GotoStep(c, "check")
    /\ UNCHANGED <<atOnce, laneFiles, laneWorld, crashed>>

\* set_native_controls_lifecycle (and, for a start, write_native_controls): the durable state
\* is read again ...
CheckControls(c) ==
    /\ progress[c].pc = "check"
    /\ IF Target(c) # "active" /\ controls = "missing"
       THEN IF Kind[c] = "pause" THEN End(c) ELSE GotoStep(c, "stop")
       ELSE IF life = Target(c) THEN GotoStep(c, "write") ELSE End(c)
    /\ UNCHANGED <<atOnce, durable, laneFiles, laneWorld, crashed>>

\* Mutant: a pause leaves the file as it is.
WriteControlsOnStart(c) ==
    /\ progress[c].pc = "write"
    /\ controls' = IF Target(c) = "active" THEN "active" ELSE controls
    /\ GotoStep(c, IF Kind[c] \in {"shelve", "close"} THEN "stop" ELSE "queue")
    /\ UNCHANGED <<atOnce, durable, queued, laneWorld, crashed>>

\* ... and the file is replaced.
WriteControls(c) ==
    /\ progress[c].pc = "write"
    /\ controls' = Target(c)
    /\ GotoStep(c, IF Kind[c] \in {"shelve", "close"} THEN "stop" ELSE "queue")
    /\ UNCHANGED <<atOnce, durable, queued, laneWorld, crashed>>

\* enqueue_native_controls: the orders' ids are made from the lifecycle record, so that a
\* second time adds none.
QueueControls(c) ==
    /\ progress[c].pc = "queue"
    /\ queued' = queued \cup {Len(records)}
    /\ End(c)
    /\ UNCHANGED <<atOnce, durable, controls, laneWorld, crashed>>

StopSession(c) ==
    /\ progress[c].pc = "stop"
    /\ session' = FALSE
    /\ End(c)
    /\ UNCHANGED <<atOnce, durable, laneFiles, tree, crashed>>

CommandDies(c) ==
    /\ progress[c] # NotRunning /\ ~crashed
    /\ End(c)
    /\ crashed' = TRUE
    /\ UNCHANGED <<atOnce, durable, laneFiles, laneWorld>>

\* The agent works, or its session ends.
AgentEdits ==
    /\ session /\ tree < MaxTree
    /\ tree' = tree + 1
    /\ UNCHANGED <<atOnce, durable, laneFiles, session, progress, crashed>>

SessionEnds ==
    /\ session /\ session' = FALSE
    /\ UNCHANGED <<atOnce, durable, laneFiles, tree, progress, crashed>>

AnchorNext ==
    \/ \E c \in Commands :
          \/ BeginStart(c) \/ BeginStop(c) \/ Refresh(c) \/ Probe(c) \/ CreateSession(c) \/ Prove(c) \/ Capture(c)
          \/ Transition(c) \/ CheckControls(c) \/ WriteControls(c) \/ QueueControls(c)
          \/ StopSession(c) \/ CommandDies(c)
    \/ AgentEdits \/ SessionEnds

AnchorSpec == AnchorInit /\ [][AnchorNext]_anchorVars

-----------------------------------------------------------------------------
(* Properties *)

\* A lane that was paused or shelved becomes active only on the worktree it was left with,
\* although the launch between the check and the transition takes seconds in which an agent
\* works in it (resume_lane validates, transition_lane_lifecycle compares again).
ResumesAtCheckpoint ==
    [][(life \in {"paused", "shelved"} /\ life' = "active") => (checkpoint' = checkpoint)]_anchorVars

\* A request id labels one lifecycle record however often its command is retried, after a
\* crash, a failed launch or other commands in between (transition_lane_lifecycle returns the
\* prior record); and while commands run one at a time and none dies, the controls follow the
\* lifecycle whenever no command runs: the native-controls file says what it says (the prune
\* order of a paused lane reads it and does nothing when it says active), and the orders of the
\* latest record are queued (no launch is left without its goal, no pause without its prune).
ControlsFollowLifecycle ==
    /\ AnchorTypeOK
    /\ \A i, j \in 1..Len(records) : records[i] = records[j] => i = j
    /\ atOnce = 1 /\ ~crashed /\ AtRest =>
          /\ controls \in {"missing", life}
          /\ life \in {"active", "paused"} => Len(records) \in queued
=============================================================================
