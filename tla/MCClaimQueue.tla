---------------------------- MODULE MCClaimQueue ----------------------------
(***************************************************************************)
(* Small instances of ClaimQueue: the d's run the dispatch daemon (another *)
(* one is a restart of the first, or its peer), the r's requeue resumed    *)
(* sessions.  A behavior either has one pass at a time, with the constants *)
(* of the configuration, or two at once, with those of Peers.              *)
(***************************************************************************)
EXTENDS ClaimQueue, TLC
CONSTANTS d1, d2, d3, r1, r2, o1
VARIABLE peers      \* two passes at once (never changes)

Peers == INSTANCE ClaimQueue WITH Daemons <- {d1, d2}, Procs <- {d1, d2, r1}, MaxCrashes <- 1, MaxPasses <- 2

MCInit == peers \in BOOLEAN /\ IF peers THEN Peers!Init ELSE Init

SinglePass == ~peers /\ Next /\ UNCHANGED peers
PeerPasses == peers /\ Peers!Next /\ UNCHANGED peers

MCSpec == MCInit /\ [][SinglePass \/ PeerPasses]_<<vars, peers>>

MCFairSpec == MCSpec /\ \A p \in Procs : WF_<<vars, peers>>(~peers /\ Step(p) /\ UNCHANGED peers)

-----------------------------------------------------------------------------
\* One pass at a time: every order is finished, or left parked until its session is requeued.
EveryOrderFinishesAlone == ~peers => EveryOrderFinishes
=============================================================================
