------------------------------ MODULE LaneLock ------------------------------
(***************************************************************************)
(* The file lock of one lane (class LaneLock, src/src/chitra/dispatch.py). *)
(* A lock is a file created with O_CREAT|O_EXCL that holds the creator's   *)
(* pid; a file whose pid is dead is reclaimed by unlink and re-create;     *)
(* release() unlinks the path.  Every system call is a step of its own, so *)
(* that acquirers, a releaser and a crash interleave between any two.      *)
(*                                                                         *)
(* A process of this module is one pid: it dies once and never comes back  *)
(* (a restarted daemon is another element of Procs).  A process owns at    *)
(* most one inode at a time, so the file at the lock's path is named by    *)
(* its creator, and "written" says whose inode already contains the pid:   *)
(* a write through the descriptor reaches the inode even after another     *)
(* process has unlinked it.                                                *)
(***************************************************************************)
EXTENDS Naturals, FiniteSets

CONSTANTS
    Procs,          \* pids that use this lane's lock
    NoFile,         \* no file at the lock's path
    MaxCrashes      \* bound: how many processes may die

ASSUME NoFileAssumption == NoFile \notin Procs
ASSUME MaxCrashesAssumption == MaxCrashes \in Nat

VARIABLES
    pc,             \* where each process is in acquire() / release()
    file,           \* creator of the inode at the lock's path, or NoFile
    written,        \* processes whose last inode contains their pid
    orphaned        \* history: processes that died owning the lock

vars == <<pc, file, written, orphaned>>

Steps == {"idle", "read", "unlink", "recreate", "create", "write", "held", "dead"}

\* Between the successful exclusive create and release().
Owning(p) == pc[p] \in {"write", "held"}

Dead(p) == pc[p] = "dead"

TypeOK ==
    /\ pc \in [Procs -> Steps]
    /\ file \in Procs \cup {NoFile}
    /\ written \subseteq Procs
    /\ orphaned \subseteq Procs

Init ==
    /\ pc = [p \in Procs |-> "idle"]
    /\ file = NoFile
    /\ written = {}
    /\ orphaned = {}

Goto(p, step) == pc' = [pc EXCEPT ![p] = step]

\* acquire() is called: the loop starts with _try_reclaim_stale().
BeginAcquire(p) ==
    /\ pc[p] = "idle"
    /\ Goto(p, "read")
    /\ UNCHANGED <<file, written, orphaned>>

\* Mutant: staleness is never recognised.
StaleLockSeenNever == FALSE

\* A missing, empty or live lock file is not stale.
StaleLockSeen == file # NoFile /\ file \in written /\ Dead(file)

\* _try_reclaim_stale(): open, json.load, _pid_alive.
ReadLockFile(p) ==
    /\ pc[p] = "read"
    /\ Goto(p, IF StaleLockSeen THEN "unlink" ELSE "create")
    /\ UNCHANGED <<file, written, orphaned>>

\* _try_reclaim_stale(): unlink whatever is at the path; OSError means "not reclaimed".
UnlinkStale(p) ==
    /\ pc[p] = "unlink"
    /\ Goto(p, IF file = NoFile THEN "create" ELSE "recreate")
    /\ file' = NoFile
    /\ UNCHANGED <<written, orphaned>>

\* Mutant: the create without O_EXCL opens an existing file as well.
CreateFileNotExclusive(p) ==
    /\ file' = p
    /\ written' = written \ {p}
    /\ Goto(p, "write")
    /\ UNCHANGED orphaned

\* os.open with O_CREAT|O_EXCL.
CreateFile(p) ==
    /\ file = NoFile
    /\ file' = p
    /\ written' = written \ {p}
    /\ Goto(p, "write")
    /\ UNCHANGED orphaned

\* The reclaimer's own O_EXCL create; FileExistsError escapes acquire().
RecreateFile(p) ==
    /\ pc[p] = "recreate"
    /\ \/ CreateFile(p)
       \/ /\ file # NoFile
          /\ Goto(p, "idle")
          /\ UNCHANGED <<file, written, orphaned>>

\* Mutant: past the deadline the caller proceeds without the lock.
TryCreateProceeds(p) ==
    /\ pc[p] = "create"
    /\ \/ CreateFile(p)
       \/ /\ file # NoFile
          /\ \E next \in {"read", "held"} : Goto(p, next)
          /\ UNCHANGED <<file, written, orphaned>>

\* The ordinary O_EXCL create; on FileExistsError the loop polls again, or the
\* call ends (non-blocking: False; blocking and past the deadline: LaneLockError).
TryCreate(p) ==
    /\ pc[p] = "create"
    /\ \/ CreateFile(p)
       \/ /\ file # NoFile
          /\ \E next \in {"read", "idle"} : Goto(p, next)
          /\ UNCHANGED <<file, written, orphaned>>

\* os.write of the pid through the descriptor; acquire() returns True.
WritePid(p) ==
    /\ pc[p] = "write"
    /\ written' = written \cup {p}
    /\ Goto(p, "held")
    /\ UNCHANGED <<file, orphaned>>

\* release(): unlink the path, whoever created the file there now.
Release(p) ==
    /\ pc[p] = "held"
    /\ file' = NoFile
    /\ Goto(p, "idle")
    /\ UNCHANGED <<written, orphaned>>

\* The process dies between any two system calls.
Crash(p) ==
    /\ ~Dead(p)
    /\ Cardinality({q \in Procs : Dead(q)}) < MaxCrashes
    /\ Goto(p, "dead")
    /\ orphaned' = IF Owning(p) THEN orphaned \cup {p} ELSE orphaned
    /\ UNCHANGED <<file, written>>

\* The steps of the code; a process that is running takes them sooner or later.
Step(p) ==
    \/ BeginAcquire(p)
    \/ ReadLockFile(p)
    \/ UnlinkStale(p)
    \/ RecreateFile(p)
    \/ TryCreate(p)
    \/ WritePid(p)
    \/ Release(p)

Next == \E p \in Procs : Step(p) \/ Crash(p)

Spec == Init /\ [][Next]_vars

\* A live process keeps running, keeps trying and leaves the guarded section.
FairSpec == Spec /\ \A p \in Procs : WF_vars(Step(p))

-----------------------------------------------------------------------------
\* While no process has died owning the lock, at most one process is between a
\* successful create and release() of LaneLock: two dispatchers, or a dispatcher
\* and a goal writer, never touch one lane at once.
SingleWriter ==
    orphaned = {} => \A p, q \in Procs : Owning(p) /\ Owning(q) => p = q

\* What DESIGN.md says without that condition: "two writers, one session, at
\* once" is structurally impossible.
SingleWriterAlways == \A p, q \in Procs : Owning(p) /\ Owning(q) => p = q

\* A lock file left by a dead process, pid written, is reclaimed by the next
\* acquirers' _try_reclaim_stale().
StaleLockReclaimed ==
    \A p \in Procs : (file = p /\ Dead(p) /\ p \in written) ~> (file # p)

\* acquire() and release() implement the abstract mutex: each section starts
\* when nobody is inside and ends by its own process, until an owner dies.
Mutex == INSTANCE LaneMutex WITH
            holders <- {p \in Procs : pc[p] = "held"},
            void <- orphaned # {}

ImplementsMutex == Mutex!Spec

\* Why SingleWriter is inductive: the file at the path is its live owner's, so
\* _try_reclaim_stale never finds a dead pid and nobody is about to unlink.
LockInv ==
    /\ TypeOK
    /\ orphaned = {} =>
         /\ \A p \in Procs : Owning(p) => file = p
         /\ file # NoFile => Owning(file)
         /\ \A p \in Procs : pc[p] \notin {"unlink", "recreate"}
=============================================================================
