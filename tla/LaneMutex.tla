----------------------------- MODULE LaneMutex -----------------------------
(***************************************************************************)
(* What a lane lock promises its callers: at most one process at a time    *)
(* inside the section it guards, until some process dies inside it.  From  *)
(* then on (void = TRUE) nothing is promised: the detailed file lock of    *)
(* module LaneLock implements this specification and no stronger one.      *)
(***************************************************************************)
CONSTANT Procs      \* the processes that use one lane's lock

VARIABLES
    holders,        \* processes whose acquire() returned and that have not released
    void            \* some process died between creating and removing the lock

mvars == <<holders, void>>

Init ==
    /\ holders = {}
    /\ void = FALSE

\* acquire() returns only when nobody holds the lock.
Acquire(p) ==
    /\ holders = {}
    /\ holders' = {p}
    /\ UNCHANGED void

\* release() ends the section of the process that calls it.
Release(p) ==
    /\ p \in holders
    /\ holders' = holders \ {p}
    /\ UNCHANGED void

\* A process dies with the lock: the promise ends.
Void ==
    /\ void' = TRUE
    /\ holders' \subseteq Procs

Next ==
    \/ \E p \in Procs : Acquire(p) \/ Release(p)
    \/ Void

Spec == Init /\ [][Next]_mvars
=============================================================================
