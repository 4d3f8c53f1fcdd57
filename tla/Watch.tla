---------------------------------- MODULE Watch ----------------------------------
(***************************************************************************)
(* What a monitor pass makes of a lane's journal: how a tool call and its  *)
(* result are read (journal/tools), which results are progress             *)
(* (journal/store), the detectors (detect/detectors) and the order and the *)
(* context in which run_detectors calls them (monitord).                   *)
(*                                                                         *)
(* Events are numbered by their place in the journal.  A pass sees those   *)
(* that the bounded working context still holds and that come after the    *)
(* last consumed turn.  A call is known by its tool: Tools gives what the  *)
(* parsers of journal/tools find in it.                                    *)
(***************************************************************************)
EXTENDS Integers, FiniteSets, SequencesExt

CONSTANTS
    Tools,          \* name -> [sig, cls, check, background, reads, writes]
    Outcomes,       \* of a result: "pass", "fail", "error", "denied", "marked", "unchanged"
    Texts,          \* of a final response: "claim", "question", "deferral", "narration"
    Prose,          \* the paths with a suffix of _DOC_SUFFIXES
    Source,         \* the paths with a suffix of _CODE_SUFFIXES
    Scope,          \* _ScopeModel: [commands, readonly, denied, allowed, clauses]
    Worktree,       \* the paths of the declared worktree
    Recurrence,     \* document edits that are dithering
    Denials,        \* refusals that are a loop
    CacheEvents,    \* _CACHE_EVENTS
    MaxEvents,
    MaxConsumed     \* turns consumed by a correction

VARIABLES
    events,         \* the journal
    ctx,            \* _LaneJournalCache: [held, kept, pending, reset, floor]
    boundary,       \* the event of the last consumed turn, 0 for none
    tree,           \* the files the worktree diff shows
    found           \* the findings of the pass that just ended

vars == <<events, ctx, boundary, tree, found>>

---------------------------------------------------------------------------
(* Calls and results *)

None == "none"
Held == ctx.held

IsCall(i) == events[i].type = "call"
IsResult(i) == events[i].type = "result"
IsFinal(i) == events[i].type = "final"
Tool(i) == Tools[events[i].tool]

\* tool_class: the classes of calls that can do work.
WorkCapable(t) == t.cls \in {"write", "shell", "other"}

\* command_text, target_paths and shell_write_targets
Targets(t) == t.reads \cup t.writes
Written(t) == IF WorkCapable(t) THEN t.writes ELSE {}

\* check_signature
IsCheck(t) == t.check

\* call_signature; a result never changes it.
Signature(i) == Tool(i).sig

\* result_class
OutcomeClass(out) ==
    CASE out = "denied" -> "error"
      [] out \in {"marked", "unchanged"} -> "unknown"
      [] OTHER -> out

\* result_fingerprint: what the result says, whatever call it answers.
Fingerprint(i) == events[i].out

Sorted(S) == SetToSortSeq(S, <)

CallsIn(view) == {i \in view : IsCall(i)}
ResultsIn(view) == {i \in view : IsResult(i)}
FinalsIn(view) == {i \in view : IsFinal(i)}

\* unanswered_tail_calls
InFlight(view) ==
    {i \in CallsIn(view) :
        /\ \A r \in ResultsIn(view) : events[r].join # i
        /\ Tool(i).background \/ \A f \in FinalsIn(view) : f < i}

---------------------------------------------------------------------------
(* Progress *)

\* _classify_tool_outcome
OutcomeIs(r, call, prior) ==
    LET t == Tool(call)  out == OutcomeClass(events[r].out) IN
    CASE t.cls = "write" -> IF out \in {"error", "fail"} THEN "non-progress" ELSE "progress"
      [] t.cls = "shell" /\ out = "error" -> "non-progress"
      [] t.cls = "shell" /\ out # "error" /\ IsCheck(t) ->
            IF Fingerprint(r) \in prior THEN "non-progress" ELSE "progress"
      [] t.cls = "shell" /\ out = "fail" /\ ~IsCheck(t) -> "non-progress"
      [] t.cls = "shell" /\ out \notin {"error", "fail"} /\ ~IsCheck(t) /\ Written(t) # {} -> "progress"
      [] OTHER -> "unknown"

\* _joined_call: the call of a result, or 0.
JoinedCall(r, view) == IF events[r].join \in CallsIn(view) THEN events[r].join ELSE 0

\* _prior_outcome_fingerprints
PriorFingerprints(call, view) ==
    {Fingerprint(r) : r \in {x \in ResultsIn(view) :
        events[x].join \in {c \in CallsIn(view) : c < call /\ Signature(c) = Signature(call)}}}

\* classify_progress
Classified(i, view) ==
    LET call == IF IsResult(i) THEN JoinedCall(i, view) ELSE 0 IN
    CASE IsResult(i) /\ events[i].out = "marked" -> "progress"
      [] IsResult(i) /\ events[i].out = "unchanged" -> "non-progress"
      [] ~IsResult(i) -> "non-progress"
      [] IsResult(i) /\ events[i].out \notin {"marked", "unchanged"} /\ call = 0 -> "unknown"
      [] OTHER -> OutcomeIs(i, call, PriorFingerprints(call, view))

WalkOwnFirst(calls, view) ==
    LET results(c) == {r \in ResultsIn(view) : events[r].join = c}
        step(acc, c) == LET seen == acc.seen \cup {Fingerprint(r) : r \in results(c)} IN
                        [rows |-> acc.rows \cup {[at |-> r, is |-> OutcomeIs(r, c, seen)] : r \in results(c)},
                         seen |-> seen]
    IN FoldLeft(step, [rows |-> {}, seen |-> {}], Sorted(calls)).rows

\* The part of derive_progress_rows that walks the calls of one signature in
\* order, with what the earlier ones returned.
Walk(calls, view) ==
    LET results(c) == {r \in ResultsIn(view) : events[r].join = c}
        step(acc, c) == [rows |-> acc.rows \cup {[at |-> r, is |-> OutcomeIs(r, c, acc.seen)] : r \in results(c)},
                         seen |-> acc.seen \cup {Fingerprint(r) : r \in results(c)}]
    IN FoldLeft(step, [rows |-> {}, seen |-> {}], Sorted(calls)).rows

\* derive_progress_rows
Rows(view) ==
    LET bySignature == {{c \in CallsIn(view) : Signature(c) = s} : s \in {Signature(c) : c \in CallsIn(view)}}
        walked == UNION {Walk(calls, view) : calls \in bySignature}
        rest == {i \in view : \A row \in walked : row.at # i}
    IN walked \cup {[at |-> i, is |-> IF IsResult(i) THEN "unknown" ELSE Classified(i, {i})] : i \in rest}

ProgressAt(view) == {row.at : row \in {x \in Rows(view) : x.is = "progress"}}

---------------------------------------------------------------------------
(* Detectors.  A finding is [by, on]: the detector and the events it names. *)

ProgressBetween(progress, i, j) == \E p \in progress : i < p /\ p < j

\* _joined_results: the first result of a call, or the call when there is none.
OutcomeAt(c, view) ==
    LET results == {r \in ResultsIn(view) : events[r].join = c} IN
    IF results = {} THEN c ELSE Min(results)

OutcomeOf(c, view) ==
    LET at == OutcomeAt(c, view) IN IF at = c THEN "pending" ELSE OutcomeClass(events[at].out)

UnnecessaryStepsAnyway(view, progress) ==
    LET keys == {<<Signature(c), OutcomeOf(c, view)>> : c \in CallsIn(view)}
        calls(k) == {c \in CallsIn(view) : k = <<Signature(c), OutcomeOf(c, view)>>}
        step(acc, c) ==
            LET at == OutcomeAt(c, view) IN
            IF at \in progress THEN [acc EXCEPT !.last = 0]
            ELSE IF acc.last = 0 THEN [acc EXCEPT !.last = c]
            ELSE [last |-> 0, pairs |-> acc.pairs \cup {{acc.last, c}}]
        pairs(k) == FoldLeft(step, [last |-> 0, pairs |-> {}], Sorted(calls(k))).pairs
    IN {[by |-> "unnecessary_steps", on |-> pair] : pair \in UNION {pairs(k) : k \in keys}}

\* detect_unnecessary_steps: two calls of one signature and outcome class with
\* no progress in between; a pair is reported once and starts over.
UnnecessarySteps(view, progress) ==
    LET keys == {<<Signature(c), OutcomeOf(c, view)>> : c \in CallsIn(view)}
        calls(k) == {c \in CallsIn(view) : k = <<Signature(c), OutcomeOf(c, view)>>}
        step(acc, c) ==
            LET at == OutcomeAt(c, view) IN
            IF at \in progress THEN [acc EXCEPT !.last = 0]
            ELSE IF acc.last = 0 \/ ProgressBetween(progress, OutcomeAt(acc.last, view), at)
            THEN [acc EXCEPT !.last = c]
            ELSE [last |-> 0, pairs |-> acc.pairs \cup {{acc.last, c}}]
        pairs(k) == FoldLeft(step, [last |-> 0, pairs |-> {}], Sorted(calls(k))).pairs
    IN {[by |-> "unnecessary_steps", on |-> pair] : pair \in UNION {pairs(k) : k \in keys}}

\* detect_excessive_testing: the same over the check runs, where a run of
\* another suite or with another outcome breaks the streak.
ExcessiveTesting(view, progress) ==
    LET runs == {c \in CallsIn(view) : IsCheck(Tool(c)) /\ OutcomeAt(c, view) \notin progress}
        same(c, d) == Signature(c) = Signature(d) /\ OutcomeOf(c, view) = OutcomeOf(d, view)
        step(acc, c) ==
            IF acc.last = 0 \/ ~same(acc.last, c)
               \/ ProgressBetween(progress, OutcomeAt(acc.last, view), OutcomeAt(c, view))
            THEN [acc EXCEPT !.last = c]
            ELSE [last |-> 0, pairs |-> acc.pairs \cup {{acc.last, c}}]
    IN {[by |-> "excessive_testing", on |-> pair] :
            pair \in FoldLeft(step, [last |-> 0, pairs |-> {}], Sorted(runs)).pairs}

\* is_implementation_evidence
Documents(t) == Written(t) # {} /\ Written(t) \subseteq Prose
Implements(t) ==
    /\ WorkCapable(t) /\ ~Documents(t)
    /\ Written(t) \cap Source # {} \/ IsCheck(t)

\* detect_document_dithering, for a goal that is not about documentation
DocumentDithering(view) ==
    LET docs == {c \in CallsIn(view) : Documents(Tool(c))} IN
    IF Cardinality(docs) < Recurrence \/ \E c \in CallsIn(view) : Implements(Tool(c)) THEN {}
    ELSE {[by |-> "document_dithering", on |-> docs]}

\* detect_stall: the last two turns ended in text with no action after the first.
Stall(view) ==
    LET acts == CallsIn(view) \cup ResultsIn(view)
        trailing == {f \in FinalsIn(view) : \A i \in acts : i < f} IN
    IF \/ InFlight(view) # {} \/ Cardinality(trailing) < 2
       \/ events[Max(trailing)].text \in {"claim", "question"} THEN {}
    ELSE {[by |-> "stall", on |-> trailing]}

\* detect_permission_loop
Refused(r) == events[r].out = "denied"
PermissionLoop(view) ==
    LET class(r) == IF JoinedCall(r, view) = 0 THEN "unknown" ELSE Signature(JoinedCall(r, view))
        refusals(s) == {r \in ResultsIn(view) : Refused(r) /\ class(r) = s}
        passed(s) == {r \in ResultsIn(view) : class(r) = s /\ events[r].out \notin {"denied", "error"}}
        loops == {s \in {class(r) : r \in ResultsIn(view)} :
                    /\ Cardinality(refusals(s)) >= Denials
                    /\ \A r \in passed(s) : r < Max(refusals(s))}
    IN {[by |-> "permission_loop", on |-> refusals(s)] : s \in loops}

\* detect_deferral_language
Deferral(view) ==
    {[by |-> "deferral", on |-> {f}] : f \in {x \in FinalsIn(view) : events[x].text = "deferral"}}

---------------------------------------------------------------------------
(* Drift *)

\* _compile_scope, _scope_path_hit: a path on the wrong side of the scope.
Excluded(p) == p \in Scope.denied
OutsideAllowed(p) == Scope.allowed # {} /\ p \notin Scope.allowed

\* The first rule that a call breaks.
Drifts(t) ==
    CASE t.cls = "plan" -> None
      [] t.cls # "plan" /\ t.sig \in Scope.commands -> "command"
      [] t.cls # "plan" /\ Scope.readonly /\ t.writes # {} -> "write"
      [] t.cls # "plan" /\ \E p \in Targets(t) : Excluded(p) -> "excluded"
      [] t.cls # "plan" /\ \E p \in t.writes : OutsideAllowed(p) -> "outside"
      [] t.cls # "plan" /\ t.sig \in Scope.clauses -> "clause"
      [] WorkCapable(t) /\ ~(Targets(t) \subseteq Worktree) -> "worktree"
      [] OTHER -> None

CallDrift(view) ==
    {[by |-> "drift", on |-> {c}] : c \in {x \in CallsIn(view) : Drifts(Tool(x)) # None}}

NoDiffDrift(diff) == {}

\* The worktree diff, when git answers.
DiffDrift(diff) ==
    {p \in diff : Excluded(p) \/ OutsideAllowed(p)}

---------------------------------------------------------------------------
(* The working context *)

NoContext == [held |-> {}, kept |-> {}, pending |-> {}, reset |-> 0, floor |-> 0]

Quiet == [set |-> {}, diff |-> {}, git |-> FALSE]

Init ==
    /\ events = <<>> /\ ctx = NoContext /\ boundary = 0 /\ tree = {}
    /\ found = Quiet

\* protect_implementation, on events already in the context
Protected(c, i, evs) ==
    IF c.reset = 0 /\ evs[i].type = "call" /\ Implements(Tools[evs[i].tool])
    THEN [c EXCEPT !.kept = @ \cup {i}, !.reset = i] ELSE c

\* _LaneJournalCache.add of the event at the end of evs, before it makes room
Entered(c, evs) ==
    LET i == Len(evs)  e == evs[i]
        answered == IF e.type = "result" THEN c.pending \cap {e.join} ELSE {}
        opened == IF e.type = "call" THEN {i} ELSE {}
        kept == (c.kept \ (answered \ {c.reset})) \cup opened \cup (IF e.type = "final" THEN {i} ELSE {})
    IN Protected([c EXCEPT !.held = @ \cup {i}, !.pending = (@ \ answered) \cup opened, !.kept = kept], i, evs)

\* Room is made by the oldest event that is not protected, never the new one.
Removable(c, i) == c.held \ (c.kept \cup {i})

Added(c, evs) ==
    LET n == Entered(c, evs)  out == Min(Removable(n, Len(evs))) IN
    IF Cardinality(n.held) <= CacheEvents THEN n
    ELSE [n EXCEPT !.held = @ \ {out}, !.floor = IF out > @ THEN out ELSE @]

\* The lane journals an event and the context takes it in.  A context full of
\* protected events takes none: that is what module Journal is about.
Record(e) ==
    LET evs == Append(events, e)  n == Entered(ctx, evs) IN
    /\ Len(events) < MaxEvents
    /\ Cardinality(n.held) > CacheEvents => Removable(n, Len(evs)) # {}
    /\ events' = evs
    /\ ctx' = Added(ctx, evs)
    /\ found' = Quiet
    /\ UNCHANGED boundary

Call(tool) ==
    /\ Record([type |-> "call", tool |-> tool, join |-> 0, out |-> None, text |-> None])
    /\ UNCHANGED tree

\* A call that was not refused did what it says.
Result(c, out) ==
    /\ c \in 1 .. Len(events) /\ IsCall(c)
    /\ \A r \in 1 .. Len(events) : events[r].join # c
    /\ Record([type |-> "result", tool |-> None, join |-> c, out |-> out, text |-> None])
    /\ tree' = IF OutcomeClass(out) = "error" THEN tree ELSE tree \cup (Written(Tool(c)) \cap Worktree)

Final(text) ==
    /\ Record([type |-> "final", tool |-> None, join |-> 0, out |-> None, text |-> text])
    /\ UNCHANGED tree

\* A correction's turn is consumed: latest_consumed_boundary names its end.
Consume(i) ==
    /\ i \in 1 .. Len(events) /\ IsFinal(i) /\ i > boundary
    /\ Cardinality({x \in 1 .. i : IsFinal(x)}) <= MaxConsumed
    /\ boundary' = i
    /\ found' = Quiet
    /\ UNCHANGED <<events, ctx, tree>>

---------------------------------------------------------------------------
(* A monitor pass *)

\* The boundary is looked up in the context: one that is gone cuts nothing.
Visible == IF boundary \in Held THEN {i \in Held : i > boundary} ELSE Held

\* Events up to the boundary are accounted for and lose their protection; the
\* first implementation step after it is protected instead.
Released ==
    LET kept == ctx.kept \ {i \in Held : i < boundary /\ i \notin ctx.pending}
        c == [ctx EXCEPT !.kept = kept, !.reset = IF @ \in kept THEN @ ELSE 0]
    IN FoldLeft(LAMBDA acc, i : Protected(acc, i, events), c, Sorted(Visible))

\* What is left of the view after the last evicted event.
Continuous(view) == {i \in view : i > ctx.floor}

\* run_detectors
Findings(view) ==
    LET progress == ProgressAt(Held)  tail == Continuous(view) IN
    UNION {CallDrift(view),
           UnnecessarySteps(tail, progress \cap tail),
           ExcessiveTesting(tail, progress \cap tail),
           IF tail = view THEN DocumentDithering(view) ELSE {},
           IF ctx.pending = {} THEN Stall(tail) ELSE {},
           PermissionLoop(view), Deferral(view)}

Pass(git) ==
    /\ found' = [set |-> Findings(Visible), diff |-> IF git THEN DiffDrift(tree) ELSE {}, git |-> git]
    /\ ctx' = IF boundary \in Held THEN Released ELSE ctx
    /\ UNCHANGED <<events, boundary, tree>>

Next ==
    \/ \E tool \in DOMAIN Tools : Call(tool)
    \/ \E c \in 1 .. MaxEvents, out \in Outcomes : Result(c, out)
    \/ \E text \in Texts : Final(text)
    \/ \E i \in 1 .. MaxEvents : Consume(i)
    \/ \E git \in BOOLEAN : Pass(git)

Spec == Init /\ [][Next]_vars

---------------------------------------------------------------------------
(* Properties *)

\* derive_progress_rows gives every event the class that classify_progress
\* gives it on its own, which it says of itself: "Produces the same rows as
\* calling classify_progress per event".  (It does so for results without an
\* explicit marker, and nothing in the code writes one.)
BatchMatchesReference ==
    LET all == 1 .. Len(events) IN
    \A row \in Rows(all) : row.is = Classified(row.at, all)

\* What the whole journal says of a pair of calls, of the last turns, of the
\* work since the last consumed turn.
All == 1 .. Len(events)
Since == {i \in All : i > boundary}
TrueProgress == {i \in All : Classified(i, All) = "progress"}

\* The results in a view whose call the context has dropped: what they mean
\* cannot be told from the view.
Orphans(view) == {r \in ResultsIn(view) : events[r].join \notin view}

\* Forgetting never makes a finding: whatever the bounded context has dropped,
\* what a pass reports of a loop, of dithering, of a stall or of a refused tool
\* is so in the whole journal, unless a result outlived its call in the context
\* ("repetition across an evicted context gap is unknown"), or an implementation
\* step was dropped while an older one, consumed since, held its place.
FindingsAreGrounded ==
    \A f \in found.set :
        /\ f.by \in {"unnecessary_steps", "excessive_testing"} /\ Orphans(Held) = {} =>
            \A i, j \in f.on :
                /\ Signature(i) = Signature(j) /\ OutcomeOf(i, All) = OutcomeOf(j, All)
                /\ ~ProgressBetween(TrueProgress, OutcomeAt(i, All), OutcomeAt(j, All))
        /\ f.by = "document_dithering" /\ boundary = 0 => \A c \in CallsIn(Since) : ~Implements(Tool(c))
        /\ f.by = "stall" =>
            /\ \A c \in CallsIn(All) : \E r \in ResultsIn(All) : events[r].join = c
            /\ \A i \in CallsIn(Since) \cup ResultsIn(Since) : \A t \in f.on : i < t
        /\ f.by = "permission_loop" /\ Orphans(Visible) = {} =>
            \A r \in f.on : \A x \in ResultsIn(Since) :
                (/\ Signature(events[x].join) = Signature(events[r].join)
                 /\ OutcomeClass(events[x].out) # "error") => x < Max(f.on)

\* A change that the scope forbids is reported by every pass that can read the
\* worktree diff, also when the call that made it is consumed or forgotten.
ForbiddenChangesStayReported ==
    found.git => \A p \in tree : p \in Scope.denied => p \in found.diff
==================================================================================
