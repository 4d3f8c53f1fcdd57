------------------------------- MODULE Receipts -------------------------------
(***************************************************************************)
(* The store of validation receipts (validation_receipts): uploads through *)
(* ingest_receipt, the runs of registered validators, and the migration of *)
(* a receipt of the old layout, which had one namespace for all sessions,  *)
(* into the directory of the one session that may own it.  An upload locks *)
(* the receipt's new path, a migration its old one, and a validator's run  *)
(* writes its evidence before it takes a lock.                             *)
(*                                                                         *)
(* All of it is about one receipt name.  A receipt names its evidence      *)
(* files and their digests; a digest is the file's content.                *)
(***************************************************************************)
EXTENDS Naturals

CONSTANTS
    Holders,
    Files,          \* names of evidence files, Output and Report among them
    Output, Report, \* those a validator's run writes
    Old,            \* the receipt of the old layout: [status, evidence, tree]
    Uploads,        \* receipts given to chitra-receipts ingest
    MaxEvents       \* bound: validator runs, changes around the store and writers that die

VARIABLES
    old,            \* the receipt at its old path
    dir,            \* session directories: [made, receipt, file]
    locks,          \* the lock of the old path, and of each new one
    move,           \* _migrate_legacy_receipt of each session
    upload,         \* ingest_receipt of each session
    trial,          \* record_registered_run of each session
    enrolled,       \* sessions whose goal requires the receipt
    pinned,         \* the registry still has the enrolled validator
    green,          \* the validator passes on the present worktree
    anchor,         \* the worktree the lanes are anchored to
    closed,         \* session -> the receipt its goal was closed on
    cut,            \* history: a migration failed or died before its unlink
    runs, events

store == <<old, dir, locks>>
surroundings == <<enrolled, pinned, green, anchor>>
receiptsVars == <<store, move, upload, trial, surroundings, closed, cut, runs, events>>

\* Contents are numbers; 0 is no file, and Absent no receipt.
None == "none"
NotHeld == "free"
NoReceipt == [status |-> "absent", evidence |-> [f \in Files |-> 0], tree |-> 0]
Still == [pc |-> "idle", of |-> NoReceipt, left |-> {}, file |-> None]
Empty == [made |-> FALSE, receipt |-> NoReceipt, file |-> [f \in Files |-> 0]]
Names(r) == {f \in Files : r.evidence[f] # 0}
With(file, r) == [f \in Files |-> IF f \in Names(r) THEN r.evidence[f] ELSE file[f]]

\* The receipts from outside.  A receipt of the old layout names no worktree,
\* as that of a run does, and was not uploaded.
ASSUME GivenReceipts ==
    /\ Uploads \cup {Old} \subseteq [status : {"PASS", "FAIL"}, evidence : [Files -> Nat], tree : Nat]
    /\ Old.tree = 0 /\ Old \notin Uploads
    /\ {Output, Report} \subseteq Files /\ "none" \notin Files
    /\ Holders \cap {"old", "free", "upload"} = {}
\* An evidence file that two of them name is the same file.
ASSUME SharedEvidenceAgrees ==
    \A r, q \in Uploads \cup {Old} : \A f \in Names(r) \cap Names(q) : r.evidence[f] = q.evidence[f]

ReceiptsInit ==
    /\ old = Old
    /\ dir = [s \in Holders |-> Empty]
    /\ locks = [p \in {"old"} \cup Holders |-> NotHeld]
    /\ move = [s \in Holders |-> Still] /\ upload = move /\ trial = move
    /\ \E s \in Holders : enrolled = {s}
    /\ pinned = TRUE /\ green = TRUE /\ anchor = 1
    /\ closed = [s \in Holders |-> NoReceipt]
    /\ cut = FALSE /\ runs = 0 /\ events = 0

Event == events < MaxEvents /\ events' = events + 1

---------------------------------------------------------------------------
(* verify_receipt_file *)

\* _artifact_issues: each named file is there with its digest.
Whole(r, file) == \A f \in Names(r) : file[f] = r.evidence[f]

\* _receipt_worktree_issues: the run was in the worktree the lane has now.
InPlace(r) == r.tree \in {0, anchor}

\* _generic_validator_issues: a PASS stands when the trusted command passes now.
Confirmed(r) == green /\ InPlace(r)
Executed(r) == r.status = "PASS" => Confirmed(r)

\* _enrollment_pin_issues
Pinned(s) == s \in enrolled => pinned

Verified(s, r, file) == Whole(r, file) /\ Executed(r) /\ Pinned(s)

\* completion_eligible
Eligible(s) ==
    /\ dir[s].receipt # NoReceipt
    /\ Verified(s, dir[s].receipt, dir[s].file) /\ dir[s].receipt.status = "PASS"

\* _legacy_receipt_is_exactly_enrolled
SoleOwner(s) == enrolled = {s}

---------------------------------------------------------------------------
(* _migrate_legacy_receipt, from any read of a receipt that is not at its  *)
(* new path                                                                *)

StepTo(task, s, pc) == [task EXCEPT ![s].pc = pc]
Ended(task, s) == [task EXCEPT ![s] = Still]

MoveBegin(s) ==
    /\ move[s] = Still /\ dir[s].receipt = NoReceipt /\ old # NoReceipt /\ locks["old"] = NotHeld
    /\ locks' = [locks EXCEPT !["old"] = s]
    /\ move' = [move EXCEPT ![s] = [Still EXCEPT !.pc = "check"]]
    /\ UNCHANGED <<old, dir, upload, trial, surroundings, closed, cut, runs, events>>

\* The checks under the old path's lock, and the staged copy.
MoveCheck(s) ==
    /\ move[s].pc = "check"
    /\ IF dir[s].receipt # NoReceipt \/ old = NoReceipt \/ ~SoleOwner(s) \/ ~Verified(s, old, old.evidence)
       THEN move' = Ended(move, s) /\ locks' = [locks EXCEPT !["old"] = NotHeld]
       ELSE /\ move' = [move EXCEPT ![s] = [Still EXCEPT !.pc = "publish", !.of = old, !.left = Names(old)]]
            /\ UNCHANGED locks
    /\ UNCHANGED <<old, dir, upload, trial, surroundings, closed, cut, runs, events>>

\* The whole directory at once when the session has none; file by file with the
\* receipt last otherwise.
MovePublish(s) ==
    LET r == move[s].of IN
    /\ move[s].pc = "publish"
    /\ IF dir[s].receipt # NoReceipt /\ dir[s].receipt # r
       THEN move' = Ended(move, s) /\ locks' = [locks EXCEPT !["old"] = NotHeld] /\ UNCHANGED dir
       ELSE /\ UNCHANGED locks
            /\ IF dir[s].made
               THEN move' = StepTo(move, s, "merge") /\ UNCHANGED dir
               ELSE /\ dir' = [dir EXCEPT ![s] = [made |-> TRUE, receipt |-> r, file |-> With(@.file, r)]]
                    /\ move' = StepTo(move, s, "verify")
    /\ UNCHANGED <<old, upload, trial, surroundings, closed, cut, runs, events>>

MoveMerge(s) ==
    /\ move[s].pc = "merge"
    /\ move' = StepTo(move, s, IF dir[s].receipt # NoReceipt THEN "verify" ELSE "files")
    /\ UNCHANGED <<store, upload, trial, surroundings, closed, cut, runs, events>>

\* An evidence file that is there must have the digest; otherwise it is copied.
\* Shared by migrations and uploads.
Looks(t, s) ==
    {[t EXCEPT !.left = @ \ {f}, !.file = IF dir[s].file[f] = 0 THEN f ELSE None,
               !.pc = IF dir[s].file[f] = 0 THEN "copy"
                      ELSE IF dir[s].file[f] = t.of.evidence[f] THEN "files" ELSE "failed"] : f \in t.left}

Copied(t, s) == [dir EXCEPT ![s].made = TRUE, ![s].file[t.file] = t.of.evidence[t.file]]

MoveFile(s) ==
    /\ \/ move[s].pc = "files" /\ (\E t \in Looks(move[s], s) : move' = [move EXCEPT ![s] = t]) /\ UNCHANGED dir
       \/ move[s].pc = "copy" /\ dir' = Copied(move[s], s) /\ move' = StepTo(move, s, "files")
    /\ UNCHANGED <<old, locks, upload, trial, surroundings, closed, cut, runs, events>>

\* The receipt is the commit marker.
MoveReceiptFirst(s) ==
    /\ move[s].pc = "files"
    /\ dir' = [dir EXCEPT ![s].receipt = move[s].of]
    /\ move' = StepTo(move, s, IF move[s].left = {} THEN "verify" ELSE "files")
    /\ UNCHANGED <<old, locks, upload, trial, surroundings, closed, cut, runs, events>>

MoveReceipt(s) ==
    /\ move[s].pc = "files" /\ move[s].left = {}
    /\ dir' = [dir EXCEPT ![s].receipt = move[s].of]
    /\ move' = StepTo(move, s, "verify")
    /\ UNCHANGED <<old, locks, upload, trial, surroundings, closed, cut, runs, events>>

MoveVerify(s) ==
    /\ move[s].pc = "verify"
    /\ move' = StepTo(move, s, IF Verified(s, dir[s].receipt, dir[s].file) THEN "unlink" ELSE "failed")
    /\ UNCHANGED <<store, upload, trial, surroundings, closed, cut, runs, events>>

Published(s) == move[s].pc \in {"verify", "failed", "unlink"}

\* Only the old receipt goes; a failure leaves it.
MoveEndKeeps(s) ==
    /\ move[s].pc \in {"unlink", "failed"}
    /\ cut' = (cut \/ move[s].pc = "failed")
    /\ move' = Ended(move, s) /\ locks' = [locks EXCEPT !["old"] = NotHeld]
    /\ UNCHANGED <<old, dir, upload, trial, surroundings, closed, runs, events>>

MoveEnd(s) ==
    /\ move[s].pc \in {"unlink", "failed"}
    /\ old' = IF move[s].pc = "unlink" THEN NoReceipt ELSE old
    /\ cut' = (cut \/ move[s].pc = "failed")
    /\ move' = Ended(move, s) /\ locks' = [locks EXCEPT !["old"] = NotHeld]
    /\ UNCHANGED <<dir, upload, trial, surroundings, closed, runs, events>>

---------------------------------------------------------------------------
(* ingest_receipt *)

\* The source is checked before the lock is taken.
UploadBegin(s, r) ==
    /\ upload[s] = Still /\ s \in enrolled /\ Verified(s, r, r.evidence)
    /\ upload' = [upload EXCEPT ![s] = [Still EXCEPT !.pc = "lock", !.of = r, !.left = Names(r)]]
    /\ UNCHANGED <<store, move, trial, surroundings, closed, cut, runs, events>>

\* A stored receipt is never replaced.
UploadLock(s) ==
    /\ upload[s].pc = "lock" /\ locks[s] = NotHeld
    /\ dir' = [dir EXCEPT ![s].made = TRUE]
    /\ IF dir[s].receipt # NoReceipt
       THEN upload' = Ended(upload, s) /\ UNCHANGED locks
       ELSE upload' = StepTo(upload, s, "files") /\ locks' = [locks EXCEPT ![s] = "upload"]
    /\ UNCHANGED <<old, move, trial, surroundings, closed, cut, runs, events>>

UploadFile(s) ==
    /\ \/ upload[s].pc = "files" /\ (\E t \in Looks(upload[s], s) : upload' = [upload EXCEPT ![s] = t]) /\ UNCHANGED dir
       \/ upload[s].pc = "copy" /\ dir' = Copied(upload[s], s) /\ upload' = StepTo(upload, s, "files")
    /\ UNCHANGED <<old, locks, move, trial, surroundings, closed, cut, runs, events>>

UploadEnd(s) ==
    /\ upload[s].pc = "failed" \/ (upload[s].pc = "files" /\ upload[s].left = {})
    /\ dir' = IF upload[s].pc = "failed" THEN dir ELSE [dir EXCEPT ![s].receipt = upload[s].of]
    /\ upload' = Ended(upload, s) /\ locks' = [locks EXCEPT ![s] = NotHeld]
    /\ UNCHANGED <<old, move, trial, surroundings, closed, cut, runs, events>>

---------------------------------------------------------------------------
(* record_registered_run *)

\* The pin is checked and the validator runs in the anchored worktree.
RunBegin(s) ==
    /\ Event /\ trial[s] = Still /\ s \in enrolled
    /\ runs' = runs + 1
    /\ trial' = [trial EXCEPT ![s] = [Still EXCEPT !.pc = "files", !.left = {Output, Report},
                   !.of = [status |-> IF pinned /\ green THEN "PASS" ELSE "FAIL",
                           evidence |-> [f \in Files |-> IF f \in {Output, Report} THEN runs' ELSE 0], tree |-> anchor]]]
    /\ UNCHANGED <<store, move, upload, surroundings, closed, cut>>

\* Output, then report, are replaced without a lock.
RunFile(s, f) ==
    /\ trial[s].pc = "files" /\ f \in trial[s].left /\ (f = Report => Output \notin trial[s].left)
    /\ dir' = [dir EXCEPT ![s].made = TRUE, ![s].file[f] = trial[s].of.evidence[f]]
    /\ trial' = [trial EXCEPT ![s].left = @ \ {f}]
    /\ UNCHANGED <<old, locks, move, upload, surroundings, closed, cut, runs, events>>

\* The digests are those of the files found there.
RunDigest(s) ==
    /\ trial[s].pc = "files" /\ trial[s].left = {}
    /\ trial' = [trial EXCEPT ![s].pc = "receipt", ![s].of.evidence = [f \in Files |-> IF @[f] = 0 THEN 0 ELSE dir[s].file[f]]]
    /\ UNCHANGED <<store, move, upload, surroundings, closed, cut, runs, events>>

RunReceipt(s) ==
    /\ trial[s].pc = "receipt" /\ locks[s] = NotHeld
    /\ dir' = [dir EXCEPT ![s].receipt = trial[s].of]
    /\ trial' = Ended(trial, s)
    /\ UNCHANGED <<old, locks, move, upload, surroundings, closed, cut, runs, events>>

---------------------------------------------------------------------------
(* Around the store *)

\* require_verified_completion_receipts, for a claim that names item, receipt
\* and validator (completion_receipt_issues).
Close(s) ==
    /\ s \in enrolled /\ closed[s] = NoReceipt /\ Eligible(s)
    /\ closed' = [closed EXCEPT ![s] = dir[s].receipt]
    /\ UNCHANGED <<store, move, upload, trial, surroundings, cut, runs, events>>

ToggleEnrollment(s) ==
    /\ Event
    /\ enrolled' = IF s \in enrolled THEN enrolled \ {s} ELSE enrolled \cup {s}
    /\ UNCHANGED <<store, move, upload, trial, pinned, green, anchor, closed, cut, runs>>

Edit ==
    /\ Event /\ green' = ~green
    /\ UNCHANGED <<store, move, upload, trial, enrolled, pinned, anchor, closed, cut, runs>>

Anchor ==
    /\ Event /\ anchor' = 3 - anchor
    /\ UNCHANGED <<store, move, upload, trial, enrolled, pinned, green, closed, cut, runs>>

Register ==
    /\ Event /\ pinned' = ~pinned
    /\ UNCHANGED <<store, move, upload, trial, enrolled, green, anchor, closed, cut, runs>>

\* A writer dies: its locks go with it and its temporary files are left.
WriterDies(s) ==
    /\ Event
    /\ \/ /\ move[s] # Still /\ move' = Ended(move, s)
          /\ locks' = [locks EXCEPT !["old"] = NotHeld] /\ cut' = (cut \/ Published(s)) /\ UNCHANGED <<upload, trial>>
       \/ /\ upload[s] # Still /\ upload' = Ended(upload, s)
          /\ locks' = [locks EXCEPT ![s] = IF @ = "upload" THEN NotHeld ELSE @] /\ UNCHANGED <<move, trial, cut>>
       \/ trial[s] # Still /\ trial' = Ended(trial, s) /\ UNCHANGED <<move, upload, locks, cut>>
    /\ UNCHANGED <<old, dir, surroundings, closed, runs>>

ReceiptsNext ==
    \/ \E s \in Holders :
          \/ MoveBegin(s) \/ MoveCheck(s) \/ MovePublish(s) \/ MoveMerge(s) \/ MoveFile(s)
          \/ MoveReceipt(s) \/ MoveVerify(s) \/ MoveEnd(s)
          \/ (\E r \in Uploads : UploadBegin(s, r)) \/ UploadLock(s) \/ UploadFile(s) \/ UploadEnd(s)
          \/ RunBegin(s) \/ (\E f \in {Output, Report} : RunFile(s, f)) \/ RunDigest(s) \/ RunReceipt(s)
          \/ Close(s) \/ ToggleEnrollment(s) \/ WriterDies(s)
    \/ Edit \/ Anchor \/ Register

ReceiptsSpec == ReceiptsInit /\ [][ReceiptsNext]_receiptsVars

---------------------------------------------------------------------------
\* The receipt of the old layout, which names no session, proves the goal of at
\* most one: however enrolments change and uploads, runs and migrations race, no
\* second session migrates it or closes on it, as long as each migration that
\* published it went on to unlink it (_migrate_legacy_receipt checks the one
\* owner and moves under the old path's lock).
OldProvesOneGoal ==
    ~cut => \A s, t \in Holders :
        Old \in {dir[s].receipt, closed[s]} /\ Old \in {dir[t].receipt, closed[t]} => s = t

\* A receipt that can be read has all its evidence ("never a readable receipt
\* with incomplete evidence"), whichever writer dies where, while no validator
\* run rewrites the evidence and receipts that name the same evidence file agree on it.
StoredReceiptIsWhole ==
    runs = 0 => \A s \in Holders : Whole(dir[s].receipt, dir[s].file)
=============================================================================
