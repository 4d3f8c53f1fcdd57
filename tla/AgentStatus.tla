----------------------------- MODULE AgentStatus -----------------------------
(***************************************************************************)
(* The semantic status of panes: AgentStatusBroker (agent_runtime.py), the *)
(* sensing pass that feeds it (pane_sensing.py), and the live handoff of   *)
(* ApiRuntime (socket_api.py).  Hooks report a pane's state over the       *)
(* socket, the monitor observes its screen, and a replacement server takes *)
(* the status over.  A broker method is one step, since it holds the       *)
(* broker's condition throughout; the preparation of a handoff is not.     *)
(* report_completion has no caller in the repository and is left out, and  *)
(* so are waits and subscriptions, which change nothing.                   *)
(***************************************************************************)
EXTENDS Naturals

CONSTANTS
    Panes,
    SessionRefs,    \* session references; "" is None
    Sources,        \* the hooks that report
    StableSnapshots, \* AMBIGUOUS_SNAPSHOT_STABILITY_THRESHOLD
    MaxSeq,         \* bound: published events
    MaxHandoffs,    \* bound: prepared handoffs
    MaxFailedWrites \* bound: writes of agent-status.json that fail

Refs == SessionRefs \cup {""}
ReportedStates == {"idle", "working", "blocked"}
Screens == {"quiet", "mixed"}       \* no rule matches; a blocker above a working footer

Unseen == [sess |-> "", state |-> "", source |-> "", auth |-> "", rev |-> 0]
NoReport == [sess |-> "", source |-> "", state |-> ""]
NoEvidence == [sess |-> "", screen |-> "", n |-> 0]

VARIABLES
    status,         \* _statuses
    report,         \* _lifecycle: the report with authority over a pane
    evidence,       \* _snapshot_evidence
    seq,
    frozen,         \* _frozen
    disk, unsaved,  \* agent-status.json; history: the last write of it failed
    handoff,        \* the handoff of ApiRuntime: none, being verified, or pending
    lease,          \* generation in server-ownership.json
    transferred,    \* history: a handoff was committed
    handoffs, failedWrites

broker == <<status, report, evidence, seq>>
api == <<handoff, lease, transferred, handoffs>>
statusVars == <<broker, frozen, disk, unsaved, api, failedWrites>>

\* handoff_snapshot
Snapshot == [seq |-> seq, panes |-> status, reports |-> report]

NoHandoff == [pc |-> "none", gen |-> 0, manifest |-> [seq |-> 0, panes |-> <<>>, reports |-> <<>>]]

StatusInit ==
    /\ status = [p \in Panes |-> Unseen]
    /\ report = [p \in Panes |-> NoReport]
    /\ evidence = [p \in Panes |-> NoEvidence]
    /\ seq = 0 /\ frozen = FALSE
    /\ disk = Snapshot /\ unsaved = FALSE
    /\ handoff = NoHandoff /\ lease = 0 /\ transferred = FALSE
    /\ handoffs = 0 /\ failedWrites = 0

\* _persist, after the memory has changed: its error reaches the caller, and the memory stays.
Persist ==
    \/ disk' = Snapshot' /\ unsaved' = FALSE /\ UNCHANGED failedWrites
    \/ failedWrites < MaxFailedWrites /\ failedWrites' = failedWrites + 1 /\ unsaved' = TRUE /\ UNCHANGED disk

\* _publish: nothing happens unless what the status says has changed.
PublishStatus(p, s) ==
    LET new == [s EXCEPT !.rev = status[p].rev + 1] IN
    IF s = [status[p] EXCEPT !.rev = 0]
    THEN UNCHANGED <<status, seq, disk, unsaved, failedWrites>>
    ELSE /\ seq < MaxSeq /\ seq' = seq + 1
         /\ status' = [status EXCEPT ![p] = new]
         /\ Persist

Integrated(s, r) == [sess |-> s, state |-> r.state, source |-> r.source, auth |-> "integration", rev |-> 0]

\* report_agent: refused for a pane that was seen in another session, and while frozen.
ReportAgent(p, r) ==
    LET known == status[p].sess IN
    /\ ~frozen
    /\ evidence' = [evidence EXCEPT ![p] = NoEvidence]
    /\ IF r.sess # "" /\ known \notin {"", r.sess}
       THEN UNCHANGED <<status, report, seq, disk, unsaved, failedWrites>>
       ELSE /\ report' = [report EXCEPT ![p] = r]
            /\ PublishStatus(p, Integrated(IF r.sess # "" THEN r.sess ELSE known, r))
    /\ UNCHANGED <<frozen, api>>

\* clear_agent_authority, by the hook that reported or without naming one.
ClearAuthority(p, source) ==
    /\ ~frozen
    /\ report[p] # NoReport /\ source \in {"", report[p].source}
    /\ report' = [report EXCEPT ![p] = NoReport]
    /\ evidence' = [evidence EXCEPT ![p] = NoEvidence]
    /\ UNCHANGED <<status, seq, frozen, api>>
    /\ Persist

\* classify_snapshot: a screen that does not change any more loses its working footer.
Classify(screen, n) ==
    CASE screen = "quiet" -> [state |-> "idle", auth |-> "fallback"]
      [] screen = "mixed" /\ n < StableSnapshots -> [state |-> "working", auth |-> "manifest"]
      [] OTHER -> [state |-> "blocked", auth |-> "manifest"]

\* The report that still speaks for a pane observed in session s.
StillReportsAny(p, s) == report[p]
StillReports(p, s) == IF report[p].sess \in {"", s} THEN report[p] ELSE NoReport

\* observe, from a pass over the lane's panes.
ObservePane(p, s, screen) ==
    LET r == StillReports(p, s)
        e == evidence[p]
        n == IF e.sess = s /\ e.screen = screen THEN e.n + 1 ELSE 1
        c == Classify(screen, n)
    IN  /\ ~frozen
        /\ report' = [report EXCEPT ![p] = r]
        /\ IF r # NoReport
           THEN /\ PublishStatus(p, Integrated(s, r))
                /\ UNCHANGED evidence
           ELSE /\ evidence' = [evidence EXCEPT
                                  ![p] = [sess |-> s, screen |-> screen,
                                          n |-> IF n > StableSnapshots THEN StableSnapshots ELSE n]]
                /\ PublishStatus(p, [sess |-> s, state |-> c.state, source |-> "screen", auth |-> c.auth,
                               rev |-> 0])
        /\ UNCHANGED <<frozen, api>>

-----------------------------------------------------------------------------
\* The handoff, under the lock of ApiRuntime.

\* _prepare_handoff freezes first, and then runs tmux for every pane it knows.
Prepare ==
    /\ handoff.pc = "none" /\ handoffs < MaxHandoffs /\ handoffs' = handoffs + 1
    /\ frozen' = TRUE
    /\ handoff' = [NoHandoff EXCEPT !.pc = "verifying"]
    /\ UNCHANGED <<broker, disk, unsaved, lease, transferred, failedWrites>>

\* A pane that is gone, or a lease that cannot be read.
PrepareFails ==
    /\ handoff.pc = "verifying"
    /\ frozen' = FALSE /\ handoff' = NoHandoff
    /\ UNCHANGED <<broker, disk, unsaved, lease, transferred, handoffs, failedWrites>>

Prepared ==
    /\ handoff.pc = "verifying"
    /\ handoff' = [pc |-> "pending", gen |-> lease + 1, manifest |-> Snapshot]
    /\ UNCHANGED <<broker, frozen, disk, unsaved, lease, transferred, handoffs, failedWrites>>

\* _commit_handoff: the broker stays frozen while the server shuts down.
Commit ==
    /\ handoff.pc = "pending"
    /\ lease' = handoff.gen /\ transferred' = TRUE
    /\ handoff' = NoHandoff
    /\ UNCHANGED <<broker, frozen, disk, unsaved, handoffs, failedWrites>>

\* _abort_handoff with the token, or _expire_handoff by the timer or the next request.
GiveUp ==
    /\ handoff.pc = "pending"
    /\ frozen' = FALSE /\ handoff' = NoHandoff
    /\ UNCHANGED <<broker, disk, unsaved, lease, transferred, handoffs, failedWrites>>

StatusNext ==
    \/ \E p \in Panes :
         \/ \E r \in [sess : Refs, source : Sources, state : ReportedStates] : ReportAgent(p, r)
         \/ \E source \in Sources \cup {""} : ClearAuthority(p, source)
         \/ \E s \in Refs, screen \in Screens : ObservePane(p, s, screen)
    \/ Prepare \/ PrepareFails \/ Prepared \/ Commit \/ GiveUp

StatusSpec == StatusInit /\ [][StatusNext]_statusVars

-----------------------------------------------------------------------------
\* validate_handoff_snapshot, as the replacement evaluates it.
Validates(m) ==
    \A p \in Panes :
        /\ m.reports[p] # NoReport => m.panes[p] # Unseen
        /\ m.panes[p].rev <= m.seq
        /\ m.reports[p] # NoReport /\ m.panes[p].auth = "integration" =>
             /\ m.panes[p].state = m.reports[p].state
             /\ m.panes[p].source = m.reports[p].source
             /\ m.reports[p].sess \in {"", m.panes[p].sess}

\* What a replacement is given is what the source holds, for as long as it may
\* commit, and it passes the replacement's own validation whatever reports,
\* observations and rebindings of a pane came before.  The source is frozen
\* from before it looks at its panes, and not for longer than the handoff
\* lasts unless one was committed; and its file has the status it publishes
\* unless the last write failed (_prepare_handoff, _ensure_mutable, observe,
\* _publish).  The reports in the file may be older: a report that only drops
\* its session is not written.
HandoffIsFaithful ==
    /\ handoff.pc # "none" => frozen
    /\ frozen => handoff.pc # "none" \/ transferred
    /\ handoff.pc = "pending" => handoff.manifest = Snapshot /\ Validates(handoff.manifest)
    /\ ~unsaved => disk.panes = status /\ disk.seq = seq
=============================================================================
