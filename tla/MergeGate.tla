------------------------------ MODULE MergeGate ------------------------------
(***************************************************************************)
(* Merging pull requests on green: chitra.merge, its daemon (merged) and   *)
(* its manual verb (merge_cli).  The two read a pull request first, then   *)
(* take the lock of its repository, decide on what they read, merge the    *)
(* commit they read and append to the ledger before they leave the lock.   *)
(* Meanwhile people and checks change the pull requests, gh's identity     *)
(* changes, calls fail or lose their answer, and a merger may die.         *)
(***************************************************************************)
EXTENDS Naturals, Sequences, FiniteSetsExt

CONSTANTS
    Prs,            \* numbers of the pull requests
    RepoOf,         \* their repositories
    Author,         \* their authors: "lane", "bot" or "other"
    NamedBy,        \* the lanes whose goals name them
    AllowedRepos,   \* allowed_repos of the policy, in order
    MaxPasses,      \* bound: passes of the daemon and calls of the verb
    MaxIncidents    \* bound: changes, failed calls and crashes

ASSUME MergeAssumption == Prs \in SUBSET Nat /\ AllowedRepos \in Seq(STRING)

Mergers == {"merged", "chitra-merge"}
Repos == {RepoOf[p] : p \in Prs}

VARIABLES
    pr,             \* GitHub's state of each pull request
    token,          \* whom gh acts as: "app", "user" or "none"
    repoLock,       \* repository -> who holds its merge lock
    proc,           \* the mergers
    ledger,         \* merge-ledger.jsonl
    told,           \* merge notifications enqueued for lanes
    landed,         \* what mergers merged: [pr, head, by]
    unheard,        \* history: merges whose caller died or got no answer
    qualified,      \* history: the heads the policy would have let through
    passes, incidents

mergeVars == <<pr, token, repoLock, proc, ledger, told, landed, unheard, qualified, passes, incidents>>

NotLocked == "free"
NoState == [head |-> 0, open |-> FALSE, draft |-> FALSE, held |-> FALSE, fresh |-> FALSE,
            green |-> FALSE, status |-> "UNKNOWN"]
NoRecord == [pr |-> 0, head |-> 0, reason |-> "", id |-> "", merged |-> FALSE, by |-> ""]
Resting == [pc |-> "idle", repos |-> <<>>, todo |-> {}, pr |-> 0, seen |-> NoState, id |-> "",
         dry |-> FALSE, record |-> NoRecord]

\* The doubts of decide, in its order.  A pull request counts as fresh when
\* its last update can be read and is within max_age_hours.
Doubts(p, s, id) ==
    << <<RepoOf[p] \notin Range(AllowedRepos), "repo_not_allowlisted">>,
       <<id # "app", "identity_not_app">>,
       <<Author[p] = "bot", "author_is_a_bot">>,
       <<Author[p] # "lane", "author_not_a_lane">>,
       <<~s.fresh, "stale_pull_request">>,
       <<s.held, "hold_label_present">>,
       <<~s.open, "already_closed">>,
       <<s.draft, "draft">>,
       <<s.status = "CONFLICTING", "not_mergeable">>,
       <<s.status # "CLEAN", "merge_state_not_clean">>,
       <<~s.green, "checks_not_successful">> >>

decide(p, s, id) ==
    LET doubts == Doubts(p, s, id)
        raised == {i \in DOMAIN doubts : doubts[i][1]}
    IN  IF raised = {} THEN "ok" ELSE doubts[Min(raised)][2]

Passing(world) == {<<p, world[p].head>> : p \in {q \in Prs : decide(q, world[q], "app") = "ok"}}

MergeInit ==
    /\ pr = [p \in Prs |-> [head |-> 1, open |-> TRUE, draft |-> FALSE, held |-> FALSE,
                            fresh |-> TRUE, green |-> TRUE, status |-> "CLEAN"]]
    /\ token \in {"app", "user"}
    /\ repoLock = [r \in Repos |-> NotLocked]
    /\ proc = [m \in Mergers |-> Resting]
    /\ ledger = {} /\ told = {} /\ landed = {} /\ unheard = {}
    /\ qualified = Passing(pr)
    /\ passes = 0 /\ incidents = 0

Incident == incidents < MaxIncidents /\ incidents' = incidents + 1
\* A call of gh works, or it fails: always without a token.
Call == token # "none" /\ UNCHANGED incidents
Fails == IF token = "none" THEN UNCHANGED incidents ELSE Incident

\* What follows a repository: the daemon's next one, or the end of the pass.
Onward(x) ==
    IF x.repos = <<>> THEN Resting
    ELSE [Resting EXCEPT !.pc = "discover", !.repos = x.repos, !.id = x.id, !.dry = x.dry]
\* What follows a pull request that was not merged: the next of the repository.
NextOf(x) ==
    IF x.todo = {} THEN Onward(x)
    ELSE [x EXCEPT !.pc = "fetch", !.pr = Min(x.todo), !.todo = @ \ {Min(@)},
                   !.seen = NoState, !.record = NoRecord]
Released(m) == [r \in Repos |-> IF repoLock[r] = m THEN NotLocked ELSE repoLock[r]]
Becomes(m, x) == proc' = [proc EXCEPT ![m] = x]
beyond == <<pr, token, landed, qualified, passes>>

-----------------------------------------------------------------------------
\* resolve_identity: an installation token is the app, any other a person.  It
\* is asked once, before any pull request is read; without an answer the pass
\* ends there.
Identity(dry) == [Resting EXCEPT !.id = token, !.dry = dry]
Start == Call /\ passes < MaxPasses /\ passes' = passes + 1

\* A pass of the daemon.
BeginPass ==
    /\ proc["merged"].pc = "idle" /\ Start
    /\ AllowedRepos # <<>>
    /\ \E dry \in BOOLEAN :
         Becomes("merged", [Identity(dry) EXCEPT !.pc = "discover", !.repos = AllowedRepos])
    /\ UNCHANGED <<pr, token, repoLock, ledger, told, landed, unheard, qualified>>

\* A call of the manual verb: one pull request, of any repository.
BeginVerb(p) ==
    /\ proc["chitra-merge"].pc = "idle" /\ Start
    /\ \E dry \in BOOLEAN :
         Becomes("chitra-merge", [Identity(dry) EXCEPT !.pc = "fetch", !.pr = p])
    /\ UNCHANGED <<pr, token, repoLock, ledger, told, landed, unheard, qualified>>

\* discover_pull_requests: the open ones a lane wrote, by number.
Discover(m) ==
    LET repo == Head(proc[m].repos)
        rest == [proc[m] EXCEPT !.repos = Tail(@)]
        found == {p \in Prs : /\ RepoOf[p] = repo /\ Author[p] = "lane"
                              /\ pr[p].open /\ ~pr[p].draft}
    IN /\ proc[m].pc = "discover" /\ Call
       /\ Becomes(m, NextOf([rest EXCEPT !.todo = found]))
       /\ UNCHANGED <<repoLock, ledger, told, unheard, beyond>>

Fetch(m) ==
    /\ proc[m].pc = "fetch" /\ Call
    /\ Becomes(m, [proc[m] EXCEPT !.pc = "lock", !.seen = pr[proc[m].pr]])
    /\ UNCHANGED <<repoLock, ledger, told, unheard, beyond>>

\* The lock is tried once: whoever finds it taken leaves the repository.
Lock(m) ==
    LET repo == RepoOf[proc[m].pr] IN
    /\ proc[m].pc = "lock"
    /\ \/ /\ repoLock[repo] = NotLocked
          /\ repoLock' = [repoLock EXCEPT ![repo] = m] /\ Becomes(m, [proc[m] EXCEPT !.pc = "merge"])
       \/ /\ repoLock[repo] # NotLocked
          /\ Becomes(m, Onward(proc[m])) /\ UNCHANGED repoLock
    /\ UNCHANGED <<incidents, ledger, told, unheard, beyond>>

\* Mutant: the merge does not name the commit it was decided on.
AcceptsAnyHead(p, head) == pr[p].open /\ ~pr[p].draft /\ pr[p].status # "CONFLICTING"

\* "gh pr merge --match-head-commit": what the command asks GitHub to merge.
Accepts(p, head) == pr[p].open /\ ~pr[p].draft /\ pr[p].status # "CONFLICTING" /\ pr[p].head = head

\* merge, when it decides on what was read: a refusal and a dry run make a
\* record; otherwise GitHub merges the commit, if it still accepts it.
Refuse(m) ==
    LET x == proc[m]  reason == decide(x.pr, x.seen, x.id) IN
    /\ x.pc = "merge" /\ (reason # "ok" \/ x.dry)
    /\ Becomes(m, [x EXCEPT !.pc = "append",
           !.record = [NoRecord EXCEPT !.pr = x.pr, !.head = x.seen.head, !.reason = reason, !.id = x.id]])
    /\ UNCHANGED <<incidents, repoLock, ledger, told, unheard, beyond>>

Merge(m) ==
    LET x == proc[m] IN
    /\ x.pc = "merge" /\ decide(x.pr, x.seen, x.id) = "ok" /\ ~x.dry
    /\ token # "none" /\ Accepts(x.pr, x.seen.head)
    /\ pr' = [pr EXCEPT ![x.pr].open = FALSE]
    /\ landed' = landed \cup {[pr |-> x.pr, head |-> pr[x.pr].head, by |-> token]}
    /\ \/ /\ Becomes(m, [x EXCEPT !.pc = "outcome",
                 !.record = [NoRecord EXCEPT !.pr = x.pr, !.head = x.seen.head, !.reason = "ok",
                                             !.id = x.id, !.merged = TRUE]])
          /\ UNCHANGED <<incidents, repoLock, unheard>>
       \/ /\ Incident       \* the answer is lost: MergeError, and no record
          /\ Becomes(m, Onward(x)) /\ repoLock' = Released(m)
          /\ unheard' = unheard \cup {x.pr}
    /\ UNCHANGED <<token, ledger, told, qualified, passes>>

\* GitHub refuses, or the call fails: MergeError leaves the lock and the repository, and nothing
\* is appended.
MergeRefused(m) ==
    LET x == proc[m] IN
    /\ x.pc = "merge" /\ decide(x.pr, x.seen, x.id) = "ok" /\ ~x.dry
    /\ (~Accepts(x.pr, x.seen.head) /\ UNCHANGED incidents) \/ Fails
    /\ Becomes(m, Onward(x)) /\ repoLock' = Released(m)
    /\ UNCHANGED <<ledger, told, unheard, beyond>>

\* merge_outcome: who merged, as GitHub has it, or nothing when that cannot
\* be read.
ReadOutcome(m) ==
    LET x == proc[m] IN
    /\ x.pc = "outcome"
    /\ \/ /\ Call
          /\ \E l \in landed :
               l.pr = x.pr /\ Becomes(m, [x EXCEPT !.pc = "append", !.record.by = l.by])
       \/ Fails /\ Becomes(m, [x EXCEPT !.pc = "append"])
    /\ UNCHANGED <<repoLock, ledger, told, unheard, beyond>>

\* append_merge_record and the end of the lock.  The daemon goes on to the
\* next pull request unless it merged this one.
AppendRecord(m) ==
    LET x == proc[m] IN
    /\ x.pc = "append"
    /\ ledger' = ledger \cup {x.record}
    /\ repoLock' = Released(m)
    /\ Becomes(m, IF ~x.record.merged THEN NextOf(x)
                  ELSE IF m = "merged" THEN [x EXCEPT !.pc = "notify"] ELSE Resting)
    /\ UNCHANGED <<incidents, told, unheard, beyond>>

\* notify_lane: the one lane whose goal names the pull request is told.
Notify(m) ==
    LET x == proc[m] IN
    /\ x.pc = "notify"
    /\ told' = IF Cardinality(NamedBy[x.pr]) = 1
               THEN told \cup {[lane |-> l, pr |-> x.pr] : l \in NamedBy[x.pr]} ELSE told
    /\ Becomes(m, Onward(x))
    /\ UNCHANGED <<incidents, repoLock, ledger, unheard, beyond>>

\* A listing or a read fails: the daemon skips the repository for this pass,
\* the verb exits.
CallFails(m) ==
    /\ proc[m].pc \in {"discover", "fetch"} /\ Fails
    /\ Becomes(m, IF proc[m].pc = "discover" THEN Onward([proc[m] EXCEPT !.repos = Tail(@)])
                  ELSE Onward(proc[m]))
    /\ UNCHANGED <<repoLock, ledger, told, unheard, beyond>>

\* A merger dies; the system drops its lock.
MergerDies(m) ==
    /\ proc[m].pc # "idle" /\ Incident
    /\ Becomes(m, Resting) /\ repoLock' = Released(m)
    /\ unheard' = unheard \cup {p \in {proc[m].pr} : proc[m].record.merged}
    /\ UNCHANGED <<ledger, told, beyond>>

-----------------------------------------------------------------------------
\* Around the mergers: pushes, checks, labels, drafts, other merges, time.
Changed(s) ==
    {[s EXCEPT !.head = @ + 1, !.green = FALSE, !.fresh = TRUE],
     [s EXCEPT !.green = ~@],
     [s EXCEPT !.held = ~@, !.fresh = TRUE],
     [s EXCEPT !.draft = ~@, !.fresh = TRUE],
     [s EXCEPT !.fresh = FALSE],
     [s EXCEPT !.open = FALSE]} \cup
    {[s EXCEPT !.status = t] : t \in {"CLEAN", "BEHIND", "CONFLICTING"}}

PrChanges(p) ==
    /\ pr[p].open /\ Incident
    /\ \E s \in Changed(pr[p]) \ {pr[p]} : pr' = [pr EXCEPT ![p] = s]
    /\ qualified' = qualified \cup Passing(pr')
    /\ UNCHANGED <<token, repoLock, proc, ledger, told, landed, unheard, passes>>

TokenChanges ==
    /\ Incident
    /\ token' \in {"app", "user", "none"} \ {token}
    /\ UNCHANGED <<pr, repoLock, proc, ledger, told, landed, unheard, qualified, passes>>

MergeNext ==
    \/ \E m \in Mergers :
         \/ Discover(m) \/ Fetch(m) \/ Lock(m) \/ Refuse(m) \/ Merge(m)
         \/ MergeRefused(m) \/ ReadOutcome(m) \/ AppendRecord(m) \/ Notify(m)
         \/ CallFails(m) \/ MergerDies(m)
    \/ BeginPass
    \/ \E p \in Prs : BeginVerb(p) \/ PrChanges(p)
    \/ TokenChanges

MergeSpec == MergeInit /\ [][MergeNext]_mergeVars

-----------------------------------------------------------------------------
\* Whatever is merged is a commit the policy would once have let through, by
\* a lane, in an allowlisted repository, however the pull request changed
\* between the read and the merge (merge: "pinned to the exact commit the
\* decision was made against").
VerifiedIsWhatLands == \A l \in landed : <<l.pr, l.head>> \in qualified

\* The ledger and GitHub agree: a line that says merged is a merge of that
\* very commit, names whom GitHub named if it names anyone, and was decided
\* for the app; every merge has its line, is about to get it inside the lock,
\* or belongs to a merger that died or never got GitHub's answer; and a lane
\* is told of a merge only after its line is written.
LedgerIsTrue ==
    /\ \A x \in {y \in ledger : y.merged} :
         /\ x.id = "app"
         /\ \E l \in landed : l.pr = x.pr /\ l.head = x.head /\ x.by \in {"", l.by}
    /\ \A l \in landed :
         \/ \E x \in ledger : x.merged /\ x.pr = l.pr
         \/ \E m \in Mergers : /\ proc[m].record.merged /\ proc[m].pr = l.pr
                               /\ repoLock[RepoOf[l.pr]] = m
         \/ l.pr \in unheard
    /\ \A t \in told : \E x \in ledger : x.merged /\ x.pr = t.pr

\* Both of the above.
MergesAreAccountedFor == VerifiedIsWhatLands /\ LedgerIsTrue
=============================================================================
