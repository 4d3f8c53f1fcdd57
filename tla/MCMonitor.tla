------------------------------ MODULE MCMonitor ------------------------------
(***************************************************************************)
(* Supervision, Findings, PaneSend, AgentStatus, Journal and Watch for     *)
(* TLC: what a pass of the monitor reads, finds and acts on, how a         *)
(* correction is typed into the lane, and the status kept of its pane.     *)
(* They are checked side by side: a behavior is one of a single component, *)
(* and the variables of the others keep their initial values.              *)
(***************************************************************************)
EXTENDS Supervision, Findings, PaneSend, AgentStatus

VARIABLES
    part,           \* the component this behavior is about
    file, unread, reader, norm, poll, rewritten, log, cache, changes, readFaults,
    events, ctx, boundary, tree, found

Items == <<"t1", "t2">>
Stages == [t1 |-> 1, t2 |-> 4]
ClassOfCondition == [s |-> "s"]

Kind == [t |-> "text", e |-> "end", l |-> "launch", n |-> "notice", c |-> "call", z |-> "said"]
CallOf == [r \in DOMAIN Kind |-> IF r \in {"l", "n", "c"} THEN "c1" ELSE ""]
SessionOf == [r \in DOMAIN Kind |-> IF r = "z" THEN "s2" ELSE "s1"]
Replays == LET call == [rec |-> "c", type |-> "call", of |-> "c1"] IN <<call, call>>

Tools ==
    [a |-> [sig |-> "a", cls |-> "shell", check |-> TRUE, background |-> FALSE,
            reads |-> {}, writes |-> {}],
     w |-> [sig |-> "w", cls |-> "write", check |-> FALSE, background |-> FALSE,
            reads |-> {}, writes |-> {"doc"}],
     b |-> [sig |-> "b", cls |-> "shell", check |-> FALSE, background |-> TRUE,
            reads |-> {"lib"}, writes |-> {"code"}]]
Scope == [commands |-> {}, readonly |-> FALSE, denied |-> {"code"}, allowed |-> {}, clauses |-> {}]

J == INSTANCE Journal WITH
        Join <- CallOf, Session <- SessionOf, History <- Replays, Rewrites <- {<<"c", "l">>},
        Replacements <- {<<"z">>}, MaxRecords <- 3, MaxChanges <- 1, MaxFaults <- 1, Batch <- 2,
        CacheEvents <- 2, raced <- rewritten, faults <- readFaults

W == INSTANCE Watch WITH
        Outcomes <- {"pass", "denied"}, Texts <- {"narration"}, Prose <- {"doc"}, Source <- {"code"},
        Worktree <- {"doc", "code", "lib"}, Recurrence <- 2, Denials <- 2, CacheEvents <- 4,
        MaxEvents <- 5, MaxConsumed <- 1

journalVars == <<file, unread, reader, norm, poll, rewritten, log, cache, changes, readFaults>>
watchVars == <<events, ctx, boundary, tree, found>>
allVars == <<part, supervisionVars, findingsVars, paneVars, statusVars, journalVars,
        watchVars>>

MCInit ==
    /\ part \in {"supervision", "findings", "pane", "status", "journal", "watch"}
    /\ SupervisionInit
    /\ FindingsInit
    /\ PaneInit /\ (part # "pane" => backend = "claude")
    /\ StatusInit
    /\ J!Init
    /\ W!Init

MCNext ==
    \/ part = "supervision" /\ SupervisionNext
       /\ UNCHANGED <<part, findingsVars, paneVars, statusVars, journalVars, watchVars>>
    \/ part = "findings" /\ FindingsNext
       /\ UNCHANGED <<part, supervisionVars, paneVars, statusVars, journalVars, watchVars>>
    \/ part = "pane" /\ PaneNext
       /\ UNCHANGED <<part, supervisionVars, findingsVars, statusVars, journalVars,
        watchVars>>
    \/ part = "status" /\ StatusNext
       /\ UNCHANGED <<part, supervisionVars, findingsVars, paneVars, journalVars,
        watchVars>>
    \/ part = "journal" /\ J!Next
       /\ UNCHANGED <<part, supervisionVars, findingsVars, paneVars, statusVars, watchVars>>
    \/ part = "watch" /\ W!Next
       /\ UNCHANGED <<part, supervisionVars, findingsVars, paneVars, statusVars,
        journalVars>>

MCSpec == MCInit /\ [][MCNext]_allVars

---------------------------------------------------------------------------
\* A transcript read to its end is in the journal (JournalIngestor.poll).
TranscriptIsJournalled == part = "journal" => J!TranscriptIsJournalled

\* The bounded context keeps final responses and open calls (_LaneJournalCache).
ContextKeepsEvidence == part = "journal" => J!ContextKeepsEvidence

\* The batch classification gives every event its own class (classify_events).
BatchMatchesReference == part = "watch" => W!BatchMatchesReference

\* A finding rests on events the journal has (the detectors of watch).
FindingsAreGrounded == part = "watch" => W!FindingsAreGrounded

\* A forbidden change in the worktree stays reported (the scope detector).
ForbiddenChangesStayReported == part = "watch" => W!ForbiddenChangesStayReported
=============================================================================
