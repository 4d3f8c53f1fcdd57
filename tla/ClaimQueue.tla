----------------------------- MODULE ClaimQueue -----------------------------
(***************************************************************************)
(* The order queue on disk (src/src/chitra/queue_state.py) and the passes  *)
(* of the processes that work it (run_once and process_one_order of        *)
(* src/src/chitra/dispatchd.py).  An order is one inode with a link in any *)
(* of the queue's directories; it moves by an exclusive hard link followed *)
(* by an unlink, except for the claim, which is a rename.  Each system     *)
(* call is a step, so two passes, the requeue of a resumed session and a   *)
(* crash interleave between any two of them.                               *)
(*                                                                         *)
(* What happens to a claimed order is left open here (module Dispatchd     *)
(* models it): a terminal result, a deferral with or without a retry       *)
(* sidecar, or a claim left behind for the next pass.  Directory scans are *)
(* sets: FIFO order within a pass is not modelled.                         *)
(***************************************************************************)
EXTENDS Naturals, FiniteSets

CONSTANTS
    Orders,         \* order ids
    Procs,          \* pids: a process dies once, a restart is another pid
    Daemons,        \* the ones that run dispatchd; the others (the rate-limit
                    \* guard, the goals CLI) requeue a resumed session
    None,           \* no owner marker / no order at hand
    MaxCrashes,     \* bound: processes that may die
    MaxDefers,      \* bound: deferrals of one order
    MaxPasses       \* how many processes may be inside a pass at once

VARIABLES
    links,          \* links[o]: the directories that hold a link to o's inode
    owner,          \* owner[o]: pid in o's owner marker, or None
    result,         \* result[o]: the published terminal result, or None
    sidecar,        \* orders with a retry sidecar in deferred/
    defers,         \* how often an order was deferred
    pc,             \* where each process is in its pass
    cur,            \* the order it works on
    todo,           \* what is left of the directory scan it iterates
    pending,        \* the orders its pass has still to process
    move            \* the file move it is performing

disk == <<links, owner, result, sidecar, defers>>
vars == <<links, owner, result, sidecar, defers, pc, cur, todo, pending, move>>

Dirs == {"orders", "in_flight", "deferred", "processed", "invalid"}

Steps == {"idle", "dead", "reclaim", "unmark", "sweep", "sweep_unlink", "requeue",
          "resume", "process", "claim", "read", "publish", "link", "unlink", "undo",
          "moved", "exists", "raised", "unlink_dup", "clear", "release", "abort"}

\* Why a process moves a file: the continuation after the move.
Purposes == {"reclaim", "requeue", "resume", "finish", "reject", "defer"}

NoMove == [src |-> "orders", dst |-> "orders", why |-> "reclaim"]

TypeOK ==
    /\ links \in [Orders -> SUBSET Dirs]
    /\ owner \in [Orders -> Procs \cup {None}]
    /\ result \in [Orders -> {None, "outcome", "invalid-order"}]
    /\ sidecar \subseteq Orders
    /\ defers \in [Orders -> Nat]
    /\ pc \in [Procs -> Steps]
    /\ cur \in [Procs -> Orders \cup {None}]
    /\ todo \in [Procs -> SUBSET Orders]
    /\ pending \in [Procs -> SUBSET Orders]
    /\ move \in [Procs -> [src : Dirs, dst : Dirs, why : Purposes]]

Init ==
    /\ links = [o \in Orders |-> {"orders"}]
    /\ owner = [o \in Orders |-> None]
    /\ result = [o \in Orders |-> None]
    /\ sidecar = {}
    /\ defers = [o \in Orders |-> 0]
    /\ pc = [p \in Procs |-> "idle"]
    /\ cur = [p \in Procs |-> None]
    /\ todo = [p \in Procs |-> {}]
    /\ pending = [p \in Procs |-> {}]
    /\ move = [p \in Procs |-> NoMove]

In(dir) == {o \in Orders : dir \in links[o]}
Alive(p) == p # None /\ pc[p] # "dead"

Moving(p, purposes) ==
    /\ pc[p] \in {"link", "unlink", "undo", "moved", "exists", "raised"}
    /\ move[p].why \in purposes

\* A process works a claim from a successful rename until the order is where it
\* belongs; at "release" and "abort" it only has its marker left to drop.
Working(p, o) ==
    /\ cur[p] = o
    /\ \/ pc[p] \in {"read", "publish", "unlink_dup", "clear"}
       \/ Moving(p, {"finish", "reject", "defer"})

InPass(p) == pc[p] \notin {"idle", "dead", "resume"} /\ ~Moving(p, {"resume"})

Goto(p, step) == pc' = [pc EXCEPT ![p] = step]
Take(p, o) == cur' = [cur EXCEPT ![p] = o]
StartMove(p, src, dst, why) ==
    /\ move' = [move EXCEPT ![p] = [src |-> src, dst |-> dst, why |-> why]]
    /\ Goto(p, "link")

-----------------------------------------------------------------------------
\* run_once starts with reclaim_stale_claims: the scan of in_flight/.
StartPass(p) ==
    /\ p \in Daemons
    /\ pc[p] = "idle"
    /\ Cardinality({q \in Procs : InPass(q)}) < MaxPasses
    /\ Goto(p, "reclaim")
    /\ todo' = [todo EXCEPT ![p] = In("in_flight")]
    /\ UNCHANGED <<disk, cur, pending, move>>

\* One claimed file: a live owner keeps it; an absent or dead owner loses it.
InspectClaim(p, o) ==
    /\ pc[p] = "reclaim"
    /\ o \in todo[p]
    /\ todo' = [todo EXCEPT ![p] = @ \ {o}]
    /\ Take(p, o)
    /\ \/ /\ Alive(owner[o])
          /\ UNCHANGED <<pc, move>>
       \/ /\ ~Alive(owner[o])
          /\ StartMove(p, "in_flight", "orders", "reclaim")
    /\ UNCHANGED <<disk, pending>>

\* The marker goes whether or not the move succeeded.
UnmarkReclaimed(p) ==
    /\ pc[p] = "unmark"
    /\ owner' = [owner EXCEPT ![cur[p]] = None]
    /\ Goto(p, "reclaim")
    /\ UNCHANGED <<links, result, sidecar, defers, cur, todo, pending, move>>

\* The second loop of reclaim_stale_claims: markers without a claimed file.
StartSweep(p) ==
    /\ pc[p] = "reclaim" /\ todo[p] = {}
    /\ Goto(p, "sweep")
    /\ todo' = [todo EXCEPT ![p] = {o \in Orders : owner[o] # None}]
    /\ UNCHANGED <<disk, cur, pending, move>>

\* Mutant: a reservation whose owner died before the rename is never swept.
SweepReservationNever(p, o) ==
    /\ pc[p] = "sweep"
    /\ o \in todo[p]
    /\ todo' = [todo EXCEPT ![p] = @ \ {o}]
    /\ Take(p, o)
    /\ UNCHANGED <<disk, pc, pending, move>>

SweepReservation(p, o) ==
    /\ pc[p] = "sweep"
    /\ o \in todo[p]
    /\ todo' = [todo EXCEPT ![p] = @ \ {o}]
    /\ Take(p, o)
    /\ Goto(p, IF o \in In("in_flight") \/ Alive(owner[o]) THEN "sweep" ELSE "sweep_unlink")
    /\ UNCHANGED <<disk, pending, move>>

UnlinkReservation(p) ==
    /\ pc[p] = "sweep_unlink"
    /\ owner' = [owner EXCEPT ![cur[p]] = None]
    /\ Goto(p, "sweep")
    /\ UNCHANGED <<links, result, sidecar, defers, cur, todo, pending, move>>

\* run_once snapshots orders/ and then scans deferred/ for retry sidecars.
StartRequeue(p) ==
    /\ pc[p] = "sweep" /\ todo[p] = {}
    /\ Goto(p, "requeue")
    /\ pending' = [pending EXCEPT ![p] = In("orders")]
    /\ todo' = [todo EXCEPT ![p] = In("deferred") \cap sidecar]
    /\ UNCHANGED <<disk, cur, move>>

\* requeue_deferred_for_session, called by the guard or the goals CLI after a
\* hold clears: a scan of deferred/ by a process that holds no claim.
StartSessionRequeue(p) ==
    /\ p \notin Daemons
    /\ pc[p] = "idle"
    /\ In("deferred") # {}
    /\ Goto(p, "resume")
    /\ todo' = [todo EXCEPT ![p] = In("deferred")]
    /\ UNCHANGED <<disk, cur, pending, move>>

\* requeue_deferred_to_orders leaves a name that orders/ already holds.
RequeueOrder(p, o) ==
    /\ pc[p] \in {"requeue", "resume"}
    /\ o \in todo[p]
    /\ todo' = [todo EXCEPT ![p] = @ \ {o}]
    /\ Take(p, o)
    /\ \/ /\ o \in In("orders")
          /\ UNCHANGED <<pc, move>>
       \/ /\ o \notin In("orders")
          /\ StartMove(p, "deferred", "orders", pc[p])
    /\ UNCHANGED <<disk, pending>>

EndSessionRequeue(p) ==
    /\ pc[p] = "resume" /\ todo[p] = {}
    /\ Goto(p, "idle")
    /\ Take(p, None)
    /\ move' = [move EXCEPT ![p] = NoMove]
    /\ UNCHANGED <<disk, todo, pending>>

StartProcessing(p) ==
    /\ pc[p] = "requeue" /\ todo[p] = {}
    /\ Goto(p, "process")
    /\ UNCHANGED <<disk, cur, todo, pending, move>>

EndPass(p) ==
    /\ pc[p] = "process" /\ pending[p] = {}
    /\ Goto(p, "idle")
    /\ Take(p, None)
    /\ move' = [move EXCEPT ![p] = NoMove]
    /\ UNCHANGED <<disk, todo, pending>>

-----------------------------------------------------------------------------
\* reserve_claim: the marker appears by an exclusive hard link, pid included.
Reserve(p, o) ==
    /\ pc[p] = "process"
    /\ o \in pending[p]
    /\ pending' = [pending EXCEPT ![p] = @ \ {o}]
    /\ \/ /\ owner[o] # None
          /\ UNCHANGED <<owner, pc, cur>>
       \/ /\ owner[o] = None
          /\ owner' = [owner EXCEPT ![o] = p]
          /\ Take(p, o)
          /\ Goto(p, "claim")
    /\ UNCHANGED <<links, result, sidecar, defers, todo, move>>

\* ClaimReservation.claim: rename orders/ -> in_flight/.  Renaming one link of
\* an inode over another link of the same inode does nothing.
Claim(p) ==
    LET o == cur[p] IN
    /\ pc[p] = "claim"
    /\ \/ /\ o \notin In("orders")
          /\ Goto(p, "release")
          /\ UNCHANGED links
       \/ /\ o \in In("orders")
          /\ links' = IF o \in In("in_flight") THEN links
                      ELSE [links EXCEPT ![o] = (@ \ {"orders"}) \cup {"in_flight"}]
          /\ Goto(p, "read")
    /\ UNCHANGED <<owner, result, sidecar, defers, cur, todo, pending, move>>

\* _process_claimed_order: a claimed file that cannot be read is rejected as
\* invalid; an order with a result is completed; otherwise it gets an outcome.
ReadOrder(p) ==
    LET o == cur[p] IN
    /\ pc[p] = "read"
    /\ \/ /\ o \notin In("in_flight")
          /\ move' = [move EXCEPT ![p] = [src |-> "in_flight", dst |-> "invalid", why |-> "reject"]]
          /\ Goto(p, "publish")
          /\ UNCHANGED <<sidecar, defers>>
       \/ /\ o \in In("in_flight") /\ result[o] # None
          /\ StartMove(p, "in_flight", "processed", "finish")
          /\ UNCHANGED <<sidecar, defers>>
       \/ /\ o \in In("in_flight") /\ result[o] = None
          /\ \/ /\ move' = [move EXCEPT ![p] = [src |-> "in_flight", dst |-> "processed", why |-> "finish"]]
                /\ Goto(p, "publish")
                /\ UNCHANGED <<sidecar, defers>>
             \/ /\ defers[o] < MaxDefers
                /\ defers' = [defers EXCEPT ![o] = @ + 1]
                /\ \E retry \in BOOLEAN :
                     sidecar' = IF retry THEN sidecar \cup {o} ELSE sidecar \ {o}
                /\ StartMove(p, "in_flight", "deferred", "defer")
             \/ /\ defers[o] < MaxDefers     \* delivery ledger unavailable: claim left behind
                /\ defers' = [defers EXCEPT ![o] = @ + 1]
                /\ Goto(p, "release")
                /\ UNCHANGED <<sidecar, move>>
    /\ UNCHANGED <<links, owner, result, cur, todo, pending>>

\* StoredResult.create_once: the first published result stands.
Publish(p) ==
    LET o == cur[p] IN
    /\ pc[p] = "publish"
    /\ result' = IF result[o] = None
                 THEN [result EXCEPT ![o] = IF move[p].why = "reject" THEN "invalid-order" ELSE "outcome"]
                 ELSE result
    /\ Goto(p, "link")
    /\ UNCHANGED <<links, owner, sidecar, defers, cur, todo, pending, move>>

-----------------------------------------------------------------------------
\* Mutant: the source is unlinked before the target is linked.
LinkTargetUnlinksFirst(p) ==
    LET o == cur[p] IN
    /\ pc[p] = "link"
    /\ o \in In(move[p].src)
    /\ links' = [links EXCEPT ![o] = @ \ {move[p].src}]
    /\ Goto(p, "unlink")
    /\ UNCHANGED <<owner, result, sidecar, defers, cur, todo, pending, move>>

\* _move_without_replace, first call: os.link(source, target).
LinkTarget(p) ==
    LET o == cur[p] IN
    /\ pc[p] = "link"
    /\ \/ /\ o \notin In(move[p].src)
          /\ Goto(p, "raised")
          /\ UNCHANGED links
       \/ /\ o \in In(move[p].src) /\ o \in In(move[p].dst)
          /\ Goto(p, "exists")
          /\ UNCHANGED links
       \/ /\ o \in In(move[p].src) /\ o \notin In(move[p].dst)
          /\ links' = [links EXCEPT ![o] = @ \cup {move[p].dst}]
          /\ Goto(p, "unlink")
    /\ UNCHANGED <<owner, result, sidecar, defers, cur, todo, pending, move>>

\* Second call: source.unlink().
UnlinkSource(p) ==
    LET o == cur[p] IN
    /\ pc[p] = "unlink"
    /\ links' = [links EXCEPT ![o] = @ \ {move[p].src}]
    /\ Goto(p, IF o \in In(move[p].src) THEN "moved" ELSE "undo")
    /\ UNCHANGED <<owner, result, sidecar, defers, cur, todo, pending, move>>

\* The source was gone: the link just made is removed and the error re-raised.
UndoLink(p) ==
    /\ pc[p] = "undo"
    /\ links' = [links EXCEPT ![cur[p]] = @ \ {move[p].dst}]
    /\ Goto(p, "raised")
    /\ UNCHANGED <<owner, result, sidecar, defers, cur, todo, pending, move>>

\* What the callers do with True, False or OSError.  TerminalFinalization.apply
\* accepts a missing claim when the destination exists, and raises otherwise;
\* a destination that is the same inode only loses the claimed name.
AfterMove(p) ==
    LET o == cur[p]
        why == move[p].why
        claimed == o \in In("in_flight")
        durable == o \in In(move[p].dst)
    IN
    /\ pc[p] \in {"moved", "exists", "raised"}
    /\ pending' = IF why = "requeue" /\ pc[p] = "moved"
                  THEN [pending EXCEPT ![p] = @ \cup {o}] ELSE pending
    /\ Goto(p, CASE why = "reclaim" -> "unmark"
                 [] why \in {"requeue", "resume"} -> why
                 [] why = "defer" -> "release"
                 [] pc[p] = "moved" -> "clear"
                 [] pc[p] = "exists" /\ claimed /\ durable -> "unlink_dup"
                 [] pc[p] = "exists" /\ claimed /\ ~durable ->
                        IF why = "reject" THEN "clear" ELSE "abort"
                 [] pc[p] = "exists" /\ ~claimed -> "clear"
                 [] OTHER -> IF durable THEN "clear" ELSE "abort")
    /\ UNCHANGED <<disk, cur, todo, move>>

UnlinkDuplicate(p) ==
    LET o == cur[p] IN
    /\ pc[p] = "unlink_dup"
    /\ links' = [links EXCEPT ![o] = @ \ {"in_flight"}]
    /\ Goto(p, IF o \in In("in_flight") \/ o \in In(move[p].dst) THEN "clear" ELSE "abort")
    /\ UNCHANGED <<owner, result, sidecar, defers, cur, todo, pending, move>>

ClearMarkers(p) ==
    /\ pc[p] = "clear"
    /\ sidecar' = sidecar \ {cur[p]}
    /\ Goto(p, "release")
    /\ UNCHANGED <<links, owner, result, defers, cur, todo, pending, move>>

\* ClaimReservation.release: the marker is unlinked, whoever owns it by now.
ReleaseClaim(p) ==
    /\ pc[p] = "release"
    /\ owner' = [owner EXCEPT ![cur[p]] = None]
    /\ Goto(p, "process")
    /\ UNCHANGED <<links, result, sidecar, defers, cur, todo, pending, move>>

\* The same release when an exception leaves process_one_order: it ends the pass
\* and the daemon; without a claim, its restart is the same process again.
AbortPass(p) ==
    /\ pc[p] = "abort"
    /\ owner' = [owner EXCEPT ![cur[p]] = None]
    /\ pending' = [pending EXCEPT ![p] = {}]
    /\ Goto(p, "process")
    /\ UNCHANGED <<links, result, sidecar, defers, cur, todo, move>>

\* A process dies.  Its restart is another pid, so the last one of a role stays.
Crash(p) ==
    /\ Alive(p)
    /\ \E q \in Procs \ {p} : Alive(q) /\ (q \in Daemons <=> p \in Daemons)
    /\ Cardinality({q \in Procs : ~Alive(q)}) < MaxCrashes
    /\ Goto(p, "dead")
    /\ cur' = [cur EXCEPT ![p] = None]
    /\ todo' = [todo EXCEPT ![p] = {}]
    /\ pending' = [pending EXCEPT ![p] = {}]
    /\ move' = [move EXCEPT ![p] = NoMove]
    /\ UNCHANGED disk

Step(p) ==
    \/ StartPass(p)
    \/ \E o \in Orders : InspectClaim(p, o)
    \/ UnmarkReclaimed(p)
    \/ StartSweep(p)
    \/ \E o \in Orders : SweepReservation(p, o)
    \/ UnlinkReservation(p)
    \/ StartRequeue(p)
    \/ \E o \in Orders : RequeueOrder(p, o)
    \/ StartProcessing(p)
    \/ EndPass(p)
    \/ \E o \in Orders : Reserve(p, o)
    \/ Claim(p)
    \/ ReadOrder(p)
    \/ Publish(p)
    \/ LinkTarget(p)
    \/ UnlinkSource(p)
    \/ UndoLink(p)
    \/ AfterMove(p)
    \/ UnlinkDuplicate(p)
    \/ ClearMarkers(p)
    \/ ReleaseClaim(p)
    \/ AbortPass(p)
    \/ EndSessionRequeue(p)

Next == \E p \in Procs : Step(p) \/ StartSessionRequeue(p) \/ Crash(p)

Spec == Init /\ [][Next]_vars

\* Every process that lives polls the queue for ever and finishes the requeue it
\* started; nothing makes anyone start one.
FairSpec == Spec /\ \A p \in Procs : WF_vars(Step(p))
-----------------------------------------------------------------------------
(* Properties *)

\* An order file always has a name in one of the queue's directories: no
\* interleaving of link, unlink and undo in _move_without_replace, and no crash
\* between them, removes the last one.
NoOrderLost == \A o \in Orders : links[o] # {}

\* Even with several passes at once, an order that has no file left has its result:
\* TerminalFinalization.apply publishes before it moves.
UnfinishedHasFile == \A o \in Orders : result[o] = None => links[o] # {}

\* "This must never steal a claim out from under a live worker"
\* (reclaim_stale_claims): two live processes never work the same order.
ExclusiveClaim == \A o \in Orders : \A p, q \in Procs : Working(p, o) /\ Working(q, o) => p = q

\* "Always eventually retried, never stranded" (reclaim_stale_claims): every order
\* ends with a result and its file in processed/ alone, also when a crash left it
\* linked in two directories, unless it is left parked without a retry sidecar,
\* where only a requeue of its session takes it up.
EveryOrderFinishes ==
    \A o \in Orders :
       \/ <>[](result[o] # None /\ links[o] = {"processed"})
       \/ <>[](o \in In("deferred") /\ o \notin sidecar)
=============================================================================
