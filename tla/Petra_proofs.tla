--------------------------- MODULE Petra_proofs -----------------------------
(***************************************************************************)
(* Theorems about the store of validation receipts (Receipts), ownership   *)
(* answers (Ownership) and Petra (Petra), for every value of their         *)
(* constants. Each part states its inductive invariant, proves that every  *)
(* action preserves it, and ends with its theorems.                        *)
(***************************************************************************)
EXTENDS Receipts, Petra, TLAPS

WriterPcs == {"idle", "check", "publish", "merge", "files", "copy", "verify", "failed", "unlink", "lock", "receipt"}
AnyReceipt == [status : {"PASS", "FAIL", "absent"}, evidence : [Files -> Nat], tree : Nat]
AnyDir == [made : BOOLEAN, receipt : AnyReceipt, file : [Files -> Nat]]
Writers == [pc : WriterPcs, of : AnyReceipt, left : SUBSET Files, file : Files \cup {None}]
Offered == Uploads \cup {Old}

ReceiptsTyped ==
    /\ old \in AnyReceipt
    /\ dir \in [Holders -> AnyDir]
    /\ locks \in [{"old"} \cup Holders -> Holders \cup {"free", "upload"}]
    /\ move \in [Holders -> Writers] /\ upload \in [Holders -> Writers] /\ trial \in [Holders -> Writers]
    /\ closed \in [Holders -> AnyReceipt]
    /\ anchor \in {1, 2} /\ runs \in Nat /\ cut \in BOOLEAN

\* Until a validator runs, what is in a session's directory comes from the
\* receipts given, and a writer has brought the files it is done with.
Brought(t, file) ==
    /\ t.of \in Offered /\ t.left \subseteq Names(t.of)
    /\ t.pc \in {"publish", "merge", "lock"} => t.left = Names(t.of)
    /\ t.pc = "files" => \A f \in Names(t.of) \ t.left : file[f] = t.of.evidence[f]
    /\ t.pc = "copy" => /\ t.file \in Names(t.of)
                        /\ \A f \in Names(t.of) \ (t.left \cup {t.file}) : file[f] = t.of.evidence[f]

SessionSound(s) ==
    /\ trial[s] = Still
    /\ dir[s].receipt \in Offered \cup {NoReceipt}
    /\ Whole(dir[s].receipt, dir[s].file)
    /\ \A r \in Offered : \A f \in Names(r) : dir[s].file[f] \in {0, r.evidence[f]}
    /\ move[s].pc \notin {"idle", "check"} => Brought(move[s], dir[s].file)
    /\ upload[s].pc # "idle" => Brought(upload[s], dir[s].file)

EvidenceInv == runs = 0 => old \in {Old, NoReceipt} /\ \A s \in Holders : SessionSound(s)

\* Whoever migrates holds the lock of the old path, the old receipt is there
\* until the migration's end, and a session that has it is at that end or has
\* taken it away.
HasOld(s) == Old \in {dir[s].receipt, closed[s]}
Migrating(s) == move[s].pc \notin {"idle", "check"}

MigrationInv ==
    /\ old \in {Old, NoReceipt}
    /\ \A s \in Holders :
         /\ move[s] # Still => locks["old"] = s
         /\ Migrating(s) => move[s].of = Old /\ old = Old
         /\ upload[s].of # Old /\ trial[s].of # Old
         /\ trial[s].pc # "idle" => trial[s].of.tree \in {1, 2}
    /\ ~cut => /\ \A s \in Holders : HasOld(s) => old = NoReceipt \/ Published(s)
               /\ \A s, t \in Holders : HasOld(s) /\ HasOld(t) => s = t

---------------------------------------------------------------------------
\* The receipts given have the shape the store works with.
LEMMA GivenShape ==
    /\ Offered \subseteq AnyReceipt /\ NoReceipt \in AnyReceipt /\ NoReceipt \notin Offered
    /\ Still \in Writers /\ Empty \in AnyDir
    /\ Still.pc = "idle" /\ Still.of = NoReceipt /\ NoReceipt # Old
<1>1. NoReceipt \in AnyReceipt /\ NoReceipt.status = "absent"
  BY DEF NoReceipt, AnyReceipt
<1>2. Offered \subseteq [status : {"PASS", "FAIL"}, evidence : [Files -> Nat], tree : Nat]
  BY GivenReceipts, Zenon DEF Offered
<1>3. Offered \subseteq AnyReceipt
  BY <1>2 DEF AnyReceipt
<1>4. ASSUME NEW r \in Offered PROVE r.status # "absent"
  BY <1>2
<1>5. NoReceipt \notin Offered
  BY <1>1, <1>4, Zenon
<1>6. Still \in Writers /\ Still.pc = "idle" /\ Still.of = NoReceipt
  BY <1>1 DEF Still, Writers, WriterPcs
<1>7. Empty \in AnyDir
  BY <1>1 DEF Empty, AnyDir
<1>8. Old \in Offered
  BY Zenon DEF Offered
<1> QED  BY <1>1, <1>3, <1>5, <1>6, <1>7, <1>8, Zenon

\* No receipt names nothing.
LEMMA NoReceiptNamesNothing == Names(NoReceipt) = {}
<1>1. \A f \in Files : NoReceipt.evidence[f] = 0
  BY DEF NoReceipt
<1> QED  BY <1>1, Zenon DEF Names

\* What StepTo does to the writer of a session, and what it leaves alone.
LEMMA StepToFields ==
    ASSUME NEW task \in [Holders -> Writers], NEW s \in Holders, NEW pc \in WriterPcs,
           NEW next, next = StepTo(task, s, pc)
    PROVE  /\ next \in [Holders -> Writers]
           /\ next[s].pc = pc
           /\ next[s].of = task[s].of /\ next[s].left = task[s].left
           /\ next[s].file = task[s].file
           /\ \A t \in Holders \ {s} : next[t] = task[t]
BY DEF StepTo, Writers

\* A writer that ends leaves the others alone.
LEMMA EndedFields ==
    ASSUME NEW task \in [Holders -> Writers], NEW s \in Holders, NEW next, next = Ended(task, s)
    PROVE  /\ next \in [Holders -> Writers] /\ next[s] = Still
           /\ \A t \in Holders \ {s} : next[t] = task[t]
BY GivenShape, Zenon DEF Ended

\* The look at one evidence file: it is to be copied, it is there with its
\* digest, or the writer fails.
LEMMA LooksFields ==
    ASSUME NEW t \in Writers, NEW s \in Holders, ReceiptsTyped, NEW u \in Looks(t, s)
    PROVE  \E f \in t.left :
             /\ u \in Writers /\ u.of = t.of /\ u.left = t.left \ {f}
             /\ \/ u.pc = "copy" /\ u.file = f /\ dir[s].file[f] = 0
                \/ u.pc = "files" /\ dir[s].file[f] = t.of.evidence[f]
                \/ u.pc = "failed"
<1>1. PICK f \in t.left :
        u = [t EXCEPT !.left = @ \ {f}, !.file = IF dir[s].file[f] = 0 THEN f ELSE None,
               !.pc = IF dir[s].file[f] = 0 THEN "copy"
                      ELSE IF dir[s].file[f] = t.of.evidence[f] THEN "files" ELSE "failed"]
  BY Zenon DEF Looks
<1>2. f \in Files
  BY <1>1 DEF Writers
<1>3. u \in Writers /\ u.of = t.of /\ u.left = t.left \ {f}
  BY ZenonT(60), <1>1, <1>2 DEF Writers, WriterPcs
<1>4. /\ u.pc = IF dir[s].file[f] = 0 THEN "copy"
                ELSE IF dir[s].file[f] = t.of.evidence[f] THEN "files" ELSE "failed"
      /\ u.file = IF dir[s].file[f] = 0 THEN f ELSE None
  BY <1>1 DEF Writers
<1> QED  BY <1>1, <1>3, <1>4, Zenon

\* One file of one session's directory is replaced by the copy.
LEMMA CopiedFields ==
    ASSUME ReceiptsTyped, NEW t \in Writers, NEW s \in Holders, t.file \in Files,
           NEW next, next = Copied(t, s)
    PROVE  /\ next \in [Holders -> AnyDir]
           /\ next[s].receipt = dir[s].receipt
           /\ next[s].file = [dir[s].file EXCEPT ![t.file] = t.of.evidence[t.file]]
           /\ \A x \in Holders \ {s} : next[x] = dir[x]
<1>1. t.of.evidence[t.file] \in Nat
  BY DEF Writers, AnyReceipt
<1> QED  BY ZenonT(60), <1>1 DEF Copied, ReceiptsTyped, AnyDir

\* A copy leaves directories directories.
LEMMA CopiedTyped ==
    ASSUME ReceiptsTyped, NEW t \in Writers, NEW s \in Holders
    PROVE  Copied(t, s) \in [Holders -> AnyDir]
<1>1. CASE t.file \in Files
  BY <1>1, CopiedFields, Zenon
<1>2. CASE t.file \notin Files
  <2> DEFINE v == t.of.evidence[t.file]
             g == [dir[s].file EXCEPT ![t.file] = v]
  <2>1. dir[s].file \in [Files -> Nat] /\ dir[s] \in AnyDir
    BY DEF ReceiptsTyped, AnyDir
  <2>2. g = dir[s].file
    BY <1>2, <2>1, Zenon
  <2>3. Copied(t, s) = [dir EXCEPT ![s] = [dir[s] EXCEPT !.made = TRUE, !.file = g]]
    BY ZenonT(60) DEF Copied, ReceiptsTyped, AnyDir
  <2> HIDE DEF v, g
  <2>4. [dir[s] EXCEPT !.made = TRUE, !.file = g] \in AnyDir
    BY ZenonT(60), <2>1, <2>2 DEF AnyDir
  <2> QED  BY <2>3, <2>4, Zenon DEF ReceiptsTyped
<1> QED  BY <1>1, <1>2, Zenon

\* The receipt is put beside the evidence, which stays.
LEMMA ReceiptPut ==
    ASSUME ReceiptsTyped, NEW s \in Holders, NEW r \in AnyReceipt,
           NEW next, next = [dir EXCEPT ![s].receipt = r]
    PROVE  /\ next \in [Holders -> AnyDir]
           /\ next[s].receipt = r /\ next[s].file = dir[s].file
           /\ \A x \in Holders \ {s} : next[x] = dir[x]
BY ZenonT(60) DEF ReceiptsTyped, AnyDir

\* Making a directory changes nothing in it.
LEMMA MadeDirectory ==
    ASSUME ReceiptsTyped, NEW s \in Holders, NEW next, next = [dir EXCEPT ![s].made = TRUE]
    PROVE  /\ next \in [Holders -> AnyDir]
           /\ next[s].receipt = dir[s].receipt /\ next[s].file = dir[s].file
           /\ \A x \in Holders \ {s} : next[x] = dir[x]
BY ZenonT(60) DEF ReceiptsTyped, AnyDir

---------------------------------------------------------------------------
\* Types are preserved by every step.
LEMMA ReceiptsTypes ==
    ASSUME ReceiptsTyped, [ReceiptsNext]_receiptsVars
    PROVE  ReceiptsTyped'
<1>0. /\ {"old", "free", "upload"} \cap Holders = {} /\ {Output, Report} \subseteq Files
      /\ Offered \subseteq AnyReceipt /\ NoReceipt \in AnyReceipt /\ Still \in Writers
      /\ \A x \in {"idle", "check", "publish", "merge", "files", "copy", "verify", "failed", "unlink", "lock", "receipt"} : x \in WriterPcs
  BY GivenShape, GivenReceipts, Zenon DEF WriterPcs
<1>1. ASSUME NEW s \in Holders, MoveBegin(s) \/ MoveCheck(s)
      PROVE  ReceiptsTyped'
  <2>1. /\ UNCHANGED <<old, dir, upload, trial, closed, anchor, runs, cut>>
        /\ locks' = locks \/ locks' = [locks EXCEPT !["old"] = s] \/ locks' = [locks EXCEPT !["old"] = NotHeld]
    BY <1>1, Zenon DEF MoveBegin, MoveCheck, surroundings
  <2>2. locks' \in [{"old"} \cup Holders -> Holders \cup {"free", "upload"}]
    BY <2>1, Zenon DEF ReceiptsTyped, NotHeld
  <2>3. [Still EXCEPT !.pc = "check"] \in Writers
    BY <1>0 DEF Writers, WriterPcs
  <2>4. [Still EXCEPT !.pc = "publish", !.of = old, !.left = Names(old)] \in Writers
    BY ZenonT(60), <1>0 DEF Writers, WriterPcs, Names, ReceiptsTyped
  <2>5. move' \in [Holders -> Writers]
    BY <1>0, <1>1, <2>3, <2>4, ZenonT(60) DEF MoveBegin, MoveCheck, Ended, ReceiptsTyped
  <2> QED  BY <2>1, <2>2, <2>5, Zenon DEF ReceiptsTyped
<1>2. ASSUME NEW s \in Holders, MovePublish(s)
      PROVE  ReceiptsTyped'
  <2>1. /\ UNCHANGED <<old, upload, trial, closed, anchor, runs, cut>>
        /\ locks' = locks \/ locks' = [locks EXCEPT !["old"] = NotHeld]
        /\ \/ dir' = dir
           \/ dir' = [dir EXCEPT ![s] = [made |-> TRUE, receipt |-> move[s].of, file |-> With(dir[s].file, move[s].of)]]
        /\ \/ move' = Ended(move, s) \/ move' = StepTo(move, s, "merge") \/ move' = StepTo(move, s, "verify")
    BY <1>2, Zenon DEF MovePublish, surroundings
  <2>2. locks' \in [{"old"} \cup Holders -> Holders \cup {"free", "upload"}]
    BY <2>1, Zenon DEF ReceiptsTyped, NotHeld
  <2>3. move' \in [Holders -> Writers]
    <3>1. CASE move' = Ended(move, s)
      BY <3>1, EndedFields DEF ReceiptsTyped
    <3>2. ASSUME NEW pc \in WriterPcs, move' = StepTo(move, s, pc) PROVE move' \in [Holders -> Writers]
      BY <3>2, StepToFields DEF ReceiptsTyped
    <3> QED  BY <1>0, <2>1, <3>1, <3>2, Zenon
  <2>4. move[s].of \in AnyReceipt /\ dir[s].file \in [Files -> Nat]
    BY DEF ReceiptsTyped, Writers, AnyDir
  <2>5. With(dir[s].file, move[s].of) \in [Files -> Nat]
    BY <2>4 DEF With, AnyReceipt
  <2>6. [made |-> TRUE, receipt |-> move[s].of, file |-> With(dir[s].file, move[s].of)] \in AnyDir
    BY <2>4, <2>5 DEF AnyDir
  <2>7. dir' \in [Holders -> AnyDir]
    BY <2>1, <2>6, Zenon DEF ReceiptsTyped
  <2> QED  BY <2>1, <2>2, <2>3, <2>7, Zenon DEF ReceiptsTyped
<1>3. ASSUME NEW s \in Holders, MoveMerge(s) \/ MoveVerify(s)
      PROVE  ReceiptsTyped'
  <2>1. /\ UNCHANGED <<old, dir, locks, upload, trial, closed, anchor, runs, cut>>
        /\ \E pc \in WriterPcs : move' = StepTo(move, s, pc)
    BY <1>0, <1>3, Zenon DEF MoveMerge, MoveVerify, surroundings, store
  <2>2. PICK pc \in WriterPcs : move' = StepTo(move, s, pc)
    BY <2>1, Zenon
  <2>3. move' \in [Holders -> Writers]
    BY <2>2, StepToFields DEF ReceiptsTyped
  <2> QED  BY <2>1, <2>3, Zenon DEF ReceiptsTyped
<1>4. ASSUME NEW s \in Holders, MoveFile(s)
      PROVE  ReceiptsTyped'
  <2>1. /\ UNCHANGED <<old, locks, upload, trial, closed, anchor, runs, cut>>
        /\ \/ dir' = dir /\ \E t \in Looks(move[s], s) : move' = [move EXCEPT ![s] = t]
           \/ move[s].pc = "copy" /\ dir' = Copied(move[s], s) /\ move' = StepTo(move, s, "files")
    BY <1>4, Zenon DEF MoveFile, surroundings
  <2>2. move[s] \in Writers
    BY Zenon DEF ReceiptsTyped
  <2>3. CASE dir' = dir /\ \E t \in Looks(move[s], s) : move' = [move EXCEPT ![s] = t]
    <3>0. PICK t \in Looks(move[s], s) : move' = [move EXCEPT ![s] = t]
      BY <2>3, Zenon
    <3>00. t \in Writers
      BY <2>2, LooksFields, Zenon
    <3>1. move' \in [Holders -> Writers]
      BY <3>0, <3>00, Zenon DEF ReceiptsTyped
    <3> QED  BY <2>1, <2>3, <3>1, Zenon DEF ReceiptsTyped
  <2>4. CASE move[s].pc = "copy" /\ dir' = Copied(move[s], s) /\ move' = StepTo(move, s, "files")
    <3>1. dir' \in [Holders -> AnyDir]
      BY <2>2, <2>4, CopiedTyped, Zenon
    <3>2. move' \in [Holders -> Writers]
      BY <1>0, <2>4, StepToFields, Zenon DEF ReceiptsTyped
    <3> QED  BY <2>1, <3>1, <3>2, Zenon DEF ReceiptsTyped
  <2> QED  BY <2>1, <2>3, <2>4, Zenon
<1>5. ASSUME NEW s \in Holders, MoveReceipt(s)
      PROVE  ReceiptsTyped'
  <2>1. /\ UNCHANGED <<old, locks, upload, trial, closed, anchor, runs, cut>>
        /\ dir' = [dir EXCEPT ![s].receipt = move[s].of] /\ move' = StepTo(move, s, "verify")
    BY <1>5, Zenon DEF MoveReceipt, surroundings
  <2>2. move[s].of \in AnyReceipt
    BY DEF ReceiptsTyped, Writers
  <2>3. dir' \in [Holders -> AnyDir]
    BY <2>1, <2>2, ReceiptPut, Zenon
  <2>4. move' \in [Holders -> Writers]
    BY <1>0, <2>1, StepToFields, Zenon DEF ReceiptsTyped
  <2> QED  BY <2>1, <2>3, <2>4, Zenon DEF ReceiptsTyped
<1>6. ASSUME NEW s \in Holders, MoveEnd(s)
      PROVE  ReceiptsTyped'
  <2>1. /\ UNCHANGED <<dir, upload, trial, closed, anchor, runs>>
        /\ old' \in {old, NoReceipt} /\ cut' = (cut \/ move[s].pc = "failed")
        /\ move' = Ended(move, s) /\ locks' = [locks EXCEPT !["old"] = NotHeld]
    BY <1>6, Zenon DEF MoveEnd, surroundings
  <2>2. locks' \in [{"old"} \cup Holders -> Holders \cup {"free", "upload"}]
    BY <2>1, Zenon DEF ReceiptsTyped, NotHeld
  <2>3. move' \in [Holders -> Writers]
    BY <2>1, EndedFields, Zenon DEF ReceiptsTyped
  <2> QED  BY <1>0, <2>1, <2>2, <2>3, Zenon DEF ReceiptsTyped
<1>7. ASSUME NEW s \in Holders, NEW r \in Uploads, UploadBegin(s, r)
      PROVE  ReceiptsTyped'
  <2>1. /\ UNCHANGED <<old, dir, locks, move, trial, closed, anchor, runs, cut>>
        /\ upload' = [upload EXCEPT ![s] = [Still EXCEPT !.pc = "lock", !.of = r, !.left = Names(r)]]
    BY <1>7, Zenon DEF UploadBegin, surroundings, store
  <2>2. r \in AnyReceipt
    BY <1>0, ZenonT(60) DEF Offered
  <2>3. [Still EXCEPT !.pc = "lock", !.of = r, !.left = Names(r)] \in Writers
    BY ZenonT(60), <1>0, <2>2 DEF Writers, WriterPcs, Names
  <2>4. upload' \in [Holders -> Writers]
    BY <2>1, <2>3, Zenon DEF ReceiptsTyped
  <2> QED  BY <2>1, <2>4, Zenon DEF ReceiptsTyped
<1>8. ASSUME NEW s \in Holders, UploadLock(s) \/ UploadEnd(s)
      PROVE  ReceiptsTyped'
  <2>1. /\ UNCHANGED <<old, move, trial, closed, anchor, runs, cut>>
        /\ locks' = locks \/ locks' = [locks EXCEPT ![s] = "upload"] \/ locks' = [locks EXCEPT ![s] = NotHeld]
        /\ upload' = Ended(upload, s) \/ upload' = StepTo(upload, s, "files")
        /\ dir' = dir \/ dir' = [dir EXCEPT ![s].made = TRUE] \/ dir' = [dir EXCEPT ![s].receipt = upload[s].of]
    BY <1>8, Zenon DEF UploadLock, UploadEnd, surroundings
  <2>2. locks' \in [{"old"} \cup Holders -> Holders \cup {"free", "upload"}]
    BY <2>1, Zenon DEF ReceiptsTyped, NotHeld
  <2>3. upload' \in [Holders -> Writers]
    <3>1. CASE upload' = Ended(upload, s)
      BY <3>1, EndedFields DEF ReceiptsTyped
    <3>2. CASE upload' = StepTo(upload, s, "files")
      BY <1>0, <3>2, StepToFields DEF ReceiptsTyped
    <3> QED  BY <2>1, <3>1, <3>2, Zenon
  <2>4. upload[s].of \in AnyReceipt
    BY DEF ReceiptsTyped, Writers
  <2>5. dir' \in [Holders -> AnyDir]
    BY <2>1, <2>4, ReceiptPut, MadeDirectory DEF ReceiptsTyped
  <2> QED  BY <2>1, <2>2, <2>3, <2>5, Zenon DEF ReceiptsTyped
<1>9. ASSUME NEW s \in Holders, UploadFile(s)
      PROVE  ReceiptsTyped'
  <2>1. /\ UNCHANGED <<old, locks, move, trial, closed, anchor, runs, cut>>
        /\ \/ dir' = dir /\ \E t \in Looks(upload[s], s) : upload' = [upload EXCEPT ![s] = t]
           \/ upload[s].pc = "copy" /\ dir' = Copied(upload[s], s) /\ upload' = StepTo(upload, s, "files")
    BY <1>9, Zenon DEF UploadFile, surroundings
  <2>2. upload[s] \in Writers
    BY Zenon DEF ReceiptsTyped
  <2>3. CASE dir' = dir /\ \E t \in Looks(upload[s], s) : upload' = [upload EXCEPT ![s] = t]
    <3>0. PICK t \in Looks(upload[s], s) : upload' = [upload EXCEPT ![s] = t]
      BY <2>3, Zenon
    <3>00. t \in Writers
      BY <2>2, LooksFields, Zenon
    <3>1. upload' \in [Holders -> Writers]
      BY <3>0, <3>00, Zenon DEF ReceiptsTyped
    <3> QED  BY <2>1, <2>3, <3>1, Zenon DEF ReceiptsTyped
  <2>4. CASE upload[s].pc = "copy" /\ dir' = Copied(upload[s], s) /\ upload' = StepTo(upload, s, "files")
    <3>1. dir' \in [Holders -> AnyDir]
      BY <2>2, <2>4, CopiedTyped, Zenon
    <3>2. upload' \in [Holders -> Writers]
      BY <1>0, <2>4, StepToFields, Zenon DEF ReceiptsTyped
    <3> QED  BY <2>1, <3>1, <3>2, Zenon DEF ReceiptsTyped
  <2> QED  BY <2>1, <2>3, <2>4, Zenon
<1>10. ASSUME NEW s \in Holders, RunBegin(s)
       PROVE  ReceiptsTyped'
  <2> DEFINE r == [status |-> IF pinned /\ green THEN "PASS" ELSE "FAIL",
                   evidence |-> [f \in Files |-> IF f \in {Output, Report} THEN runs' ELSE 0], tree |-> anchor]
  <2>1. /\ UNCHANGED <<old, dir, locks, move, upload, closed, anchor, cut>> /\ runs' = runs + 1
        /\ trial' = [trial EXCEPT ![s] = [Still EXCEPT !.pc = "files", !.left = {Output, Report}, !.of = r]]
    BY <1>10, Zenon DEF RunBegin, surroundings, store
  <2>2. runs' \in Nat
    BY <2>1 DEF ReceiptsTyped
  <2>3. r \in AnyReceipt
    BY <2>2 DEF ReceiptsTyped, AnyReceipt
  <2> HIDE DEF r
  <2>4. [Still EXCEPT !.pc = "files", !.left = {Output, Report}, !.of = r] \in Writers
    BY ZenonT(60), <1>0, <2>3 DEF Writers, WriterPcs
  <2>5. trial' \in [Holders -> Writers]
    BY <2>1, <2>4, Zenon DEF ReceiptsTyped
  <2> QED  BY <2>1, <2>2, <2>5, Zenon DEF ReceiptsTyped
<1>11. ASSUME NEW s \in Holders, NEW f \in {Output, Report}, RunFile(s, f)
       PROVE  ReceiptsTyped'
  <2>1. /\ UNCHANGED <<old, locks, move, upload, closed, anchor, runs, cut>>
        /\ dir' = [dir EXCEPT ![s].made = TRUE, ![s].file[f] = trial[s].of.evidence[f]]
        /\ trial' = [trial EXCEPT ![s].left = @ \ {f}]
    BY <1>11, Zenon DEF RunFile, surroundings
  <2>2. f \in Files
    BY <1>0, Zenon
  <2>3. trial[s].of.evidence[f] \in Nat
    BY <2>2 DEF ReceiptsTyped, Writers, AnyReceipt
  <2>4. dir' \in [Holders -> AnyDir]
    <3> DEFINE g == [dir[s].file EXCEPT ![f] = trial[s].of.evidence[f]]
               d == [dir[s] EXCEPT !.made = TRUE, !.file = g]
    <3>1. dir[s] \in AnyDir /\ dir[s].file \in [Files -> Nat]
      BY DEF ReceiptsTyped, AnyDir
    <3>2. g \in [Files -> Nat]
      BY <2>2, <2>3, <3>1, Zenon
    <3>3. dir' = [dir EXCEPT ![s] = d]
      BY ZenonT(60), <2>1 DEF ReceiptsTyped, AnyDir
    <3> HIDE DEF g
    <3>4. d \in AnyDir
      BY ZenonT(60), <3>1, <3>2 DEF AnyDir
    <3> QED  BY <3>3, <3>4, Zenon DEF ReceiptsTyped
  <2>5. trial' \in [Holders -> Writers]
    BY ZenonT(60), <2>1 DEF ReceiptsTyped, Writers
  <2> QED  BY <2>1, <2>4, <2>5, Zenon DEF ReceiptsTyped
<1>12. ASSUME NEW s \in Holders, RunDigest(s)
       PROVE  ReceiptsTyped'
  <2> DEFINE e == [f \in Files |-> IF trial[s].of.evidence[f] = 0 THEN 0 ELSE dir[s].file[f]]
  <2>1. /\ UNCHANGED <<old, dir, locks, move, upload, closed, anchor, runs, cut>>
        /\ trial' = [trial EXCEPT ![s].pc = "receipt", ![s].of.evidence = e]
    BY <1>12 DEF RunDigest, surroundings, store
  <2>2. e \in [Files -> Nat]
    BY DEF ReceiptsTyped, AnyDir
  <2> HIDE DEF e
  <2>3. trial' \in [Holders -> Writers]
    <3> DEFINE q == [trial[s].of EXCEPT !.evidence = e]
               t == [trial[s] EXCEPT !.pc = "receipt", !.of = q]
    <3>1. trial[s] \in Writers /\ trial[s].of \in AnyReceipt
      BY DEF ReceiptsTyped, Writers
    <3>2. q \in AnyReceipt
      BY <2>2, <3>1 DEF AnyReceipt
    <3>3. trial' = [trial EXCEPT ![s] = t]
      BY ZenonT(60), <2>1, <3>1 DEF ReceiptsTyped, Writers, AnyReceipt
    <3> HIDE DEF q
    <3>4. t \in Writers
      BY ZenonT(60), <1>0, <3>1, <3>2 DEF Writers
    <3> QED  BY <3>3, <3>4, Zenon DEF ReceiptsTyped
  <2> QED  BY <2>1, <2>3, Zenon DEF ReceiptsTyped
<1>13. ASSUME NEW s \in Holders, RunReceipt(s)
       PROVE  ReceiptsTyped'
  <2>1. /\ UNCHANGED <<old, locks, move, upload, closed, anchor, runs, cut>>
        /\ dir' = [dir EXCEPT ![s].receipt = trial[s].of] /\ trial' = Ended(trial, s)
    BY <1>13, Zenon DEF RunReceipt, surroundings
  <2>2. trial[s].of \in AnyReceipt
    BY DEF ReceiptsTyped, Writers
  <2>3. dir' \in [Holders -> AnyDir]
    BY <2>1, <2>2, ReceiptPut, Zenon
  <2>4. trial' \in [Holders -> Writers]
    BY <2>1, EndedFields, Zenon DEF ReceiptsTyped
  <2> QED  BY <2>1, <2>3, <2>4, Zenon DEF ReceiptsTyped
<1>14. ASSUME NEW s \in Holders, Close(s)
       PROVE  ReceiptsTyped'
  <2>1. /\ UNCHANGED <<old, dir, locks, move, upload, trial, anchor, runs, cut>>
        /\ closed' = [closed EXCEPT ![s] = dir[s].receipt]
    BY <1>14, Zenon DEF Close, surroundings, store
  <2>2. dir[s].receipt \in AnyReceipt
    BY DEF ReceiptsTyped, AnyDir
  <2> QED  BY <2>1, <2>2, Zenon DEF ReceiptsTyped
<1>15. ASSUME NEW s \in Holders, WriterDies(s)
       PROVE  ReceiptsTyped'
  <2>1. /\ UNCHANGED <<old, dir, closed, anchor, runs>>
        /\ move' = move \/ move' = Ended(move, s)
        /\ upload' = upload \/ upload' = Ended(upload, s)
        /\ trial' = trial \/ trial' = Ended(trial, s)
        /\ cut' = cut \/ cut' = (cut \/ Published(s))
        /\ \/ locks' = locks \/ locks' = [locks EXCEPT !["old"] = NotHeld]
           \/ locks' = [locks EXCEPT ![s] = IF locks[s] = "upload" THEN NotHeld ELSE locks[s]]
    BY <1>15, Zenon DEF WriterDies, surroundings
  <2>2. locks' \in [{"old"} \cup Holders -> Holders \cup {"free", "upload"}]
    BY <2>1, Zenon DEF ReceiptsTyped, NotHeld
  <2>3. move' \in [Holders -> Writers] /\ upload' \in [Holders -> Writers] /\ trial' \in [Holders -> Writers]
    BY <2>1, EndedFields DEF ReceiptsTyped
  <2>4. cut' \in BOOLEAN
    BY <2>1, Zenon DEF ReceiptsTyped, Published
  <2> QED  BY <2>1, <2>2, <2>3, <2>4, Zenon DEF ReceiptsTyped
<1>16. CASE Anchor
  <2>1. anchor' \in {1, 2}
    BY <1>16 DEF Anchor, ReceiptsTyped
  <2> QED  BY <1>16, <2>1, Zenon DEF Anchor, ReceiptsTyped, store
<1>17. CASE Edit \/ Register \/ (\E s \in Holders : ToggleEnrollment(s)) \/ UNCHANGED receiptsVars
  <2>1. UNCHANGED <<old, dir, locks, move, upload, trial, closed, anchor, runs, cut>>
    BY <1>17, Zenon DEF Edit, Register, ToggleEnrollment, receiptsVars, store, surroundings
  <2> QED  BY <2>1, Zenon DEF ReceiptsTyped
<1> QED
  BY <1>1, <1>2, <1>3, <1>4, <1>5, <1>6, <1>7, <1>8, <1>9, <1>10, <1>11, <1>12, <1>13, <1>14, <1>15,
     <1>16, <1>17, Zenon DEF ReceiptsNext

---------------------------------------------------------------------------
\* Files that are only replaced by the evidence of the receipts given leave a
\* whole receipt whole, and what a writer has brought in place.
Refilled(file2, file) == \A r \in Offered : \A f \in Names(r) : file2[f] \in {file[f], r.evidence[f]}

\* What a writer has brought stays in place when files are refilled.
LEMMA RefillKeepsBrought ==
    ASSUME NEW t, NEW file, NEW file2, Brought(t, file), Refilled(file2, file)
    PROVE  Brought(t, file2)
<1>1. t.of \in Offered
  BY Zenon DEF Brought
<1>2. \A f \in Names(t.of) : file[f] = t.of.evidence[f] => file2[f] = t.of.evidence[f]
  BY <1>1, Zenon DEF Refilled
<1> QED  BY <1>2, Zenon DEF Brought

\* A whole receipt stays whole when files are refilled.
LEMMA RefillKeepsWhole ==
    ASSUME NEW r \in Offered \cup {NoReceipt}, NEW file, NEW file2, Whole(r, file), Refilled(file2, file)
    PROVE  Whole(r, file2)
<1>1. CASE r = NoReceipt
  BY <1>1, NoReceiptNamesNothing, Zenon DEF Whole
<1>2. CASE r \in Offered
  BY <1>2, Zenon DEF Whole, Refilled
<1> QED  BY <1>1, <1>2, Zenon

\* A session whose files are refilled and whose receipt stays.
LEMMA RefillKeepsSession ==
    ASSUME NEW s \in Holders, SessionSound(s), Refilled(dir'[s].file, dir[s].file),
           dir'[s].receipt = dir[s].receipt
    PROVE  /\ dir'[s].receipt \in Offered \cup {NoReceipt}
           /\ Whole(dir'[s].receipt, dir'[s].file)
           /\ \A r \in Offered : \A f \in Names(r) : dir'[s].file[f] \in {0, r.evidence[f]}
           /\ move[s].pc \notin {"idle", "check"} => Brought(move[s], dir'[s].file)
           /\ upload[s].pc # "idle" => Brought(upload[s], dir'[s].file)
<1>1. dir[s].receipt \in Offered \cup {NoReceipt} /\ Whole(dir[s].receipt, dir[s].file)
  BY Zenon DEF SessionSound
<1>2. Whole(dir'[s].receipt, dir'[s].file)
  BY <1>1, RefillKeepsWhole, Zenon
<1>3. \A r \in Offered : \A f \in Names(r) : dir'[s].file[f] \in {0, r.evidence[f]}
  BY Zenon DEF SessionSound, Refilled
<1>4. /\ move[s].pc \notin {"idle", "check"} => Brought(move[s], dir'[s].file)
      /\ upload[s].pc # "idle" => Brought(upload[s], dir'[s].file)
  BY RefillKeepsBrought, Zenon DEF SessionSound
<1> QED  BY <1>1, <1>2, <1>3, <1>4, Zenon

\* The copy of a file refills.
LEMMA CopyRefills ==
    ASSUME NEW file \in [Files -> Nat], NEW q \in Offered, NEW g \in Names(q),
           NEW next, next = [file EXCEPT ![g] = q.evidence[g]]
    PROVE  Refilled(next, file)
<1>1. SUFFICES ASSUME NEW r \in Offered, NEW f \in Names(r)
               PROVE  next[f] \in {file[f], r.evidence[f]}
  BY Zenon DEF Refilled
<1>2. f \in Files /\ g \in Files
  BY Zenon DEF Names
<1>3. CASE f = g
  <2>1. q.evidence[g] = r.evidence[g]
    BY <1>1, <1>3, SharedEvidenceAgrees, Zenon DEF Offered
  <2> QED  BY <1>2, <1>3, <2>1, Zenon
<1>4. CASE f # g
  BY <1>2, <1>4, Zenon
<1> QED  BY <1>3, <1>4, Zenon

\* The publication of a whole directory refills, and makes the receipt whole.
LEMMA WithRefills ==
    ASSUME NEW file \in [Files -> Nat], NEW q \in Offered
    PROVE  Refilled(With(file, q), file) /\ Whole(q, With(file, q))
<1>1. \A f \in Files : With(file, q)[f] = IF f \in Names(q) THEN q.evidence[f] ELSE file[f]
  BY Zenon DEF With
<1>2. \A r \in Offered : Names(r) \subseteq Files
  BY Zenon DEF Names
<1>3. Whole(q, With(file, q))
  BY <1>1, <1>2, Zenon DEF Whole
<1>4. ASSUME NEW r \in Offered, NEW f \in Names(r)
      PROVE  With(file, q)[f] \in {file[f], r.evidence[f]}
  <2>1. CASE f \in Names(q)
    <3>1. q.evidence[f] = r.evidence[f]
      BY <1>4, <2>1, SharedEvidenceAgrees, Zenon DEF Offered
    <3> QED  BY <1>1, <1>2, <1>4, <2>1, <3>1, Zenon
  <2>2. CASE f \notin Names(q)
    BY <1>1, <1>2, <1>4, <2>2, Zenon
  <2> QED  BY <2>1, <2>2, Zenon
<1> QED  BY <1>3, <1>4, Zenon DEF Refilled

\* A writer's look at a file keeps what it brought, and adds a file that is there.
LEMMA LookBrings ==
    ASSUME ReceiptsTyped, NEW s \in Holders, NEW t \in Writers, NEW u \in Looks(t, s),
           t.pc = "files", Brought(t, dir[s].file)
    PROVE  u \in Writers /\ u.pc \in {"copy", "files", "failed"} /\ Brought(u, dir[s].file)
<1>1. PICK f \in t.left :
             /\ u \in Writers /\ u.of = t.of /\ u.left = t.left \ {f}
             /\ \/ u.pc = "copy" /\ u.file = f /\ dir[s].file[f] = 0
                \/ u.pc = "files" /\ dir[s].file[f] = t.of.evidence[f]
                \/ u.pc = "failed"
  BY LooksFields, Zenon
<1>2. f \in Names(t.of) /\ t.of \in Offered /\ u.left \subseteq Names(u.of)
  BY <1>1, Zenon DEF Brought
<1>3. \A g \in Names(t.of) \ t.left : dir[s].file[g] = t.of.evidence[g]
  BY Zenon DEF Brought
<1>4. CASE u.pc = "copy" /\ u.file = f
  <2>1. \A g \in Names(u.of) \ (u.left \cup {u.file}) : g \in Names(t.of) \ t.left
    BY <1>1, <1>4, Zenon
  <2>2. u.pc \notin {"publish", "merge", "lock"} /\ u.pc # "files"
    BY <1>4
  <2> QED  BY <1>1, <1>2, <1>3, <1>4, <2>1, <2>2, Zenon DEF Brought
<1>5. CASE u.pc = "files" /\ dir[s].file[f] = t.of.evidence[f]
  <2>1. \A g \in Names(u.of) \ u.left : g \in Names(t.of) \ t.left \/ g = f
    BY <1>1, Zenon
  <2>2. u.pc \notin {"publish", "merge", "lock"} /\ u.pc # "copy"
    BY <1>5
  <2> QED  BY <1>1, <1>2, <1>3, <1>5, <2>1, <2>2, Zenon DEF Brought
<1>6. CASE u.pc = "failed"
  <2>1. u.pc \notin {"publish", "merge", "lock"} /\ u.pc # "copy" /\ u.pc # "files"
    BY <1>6
  <2> QED  BY <1>1, <1>2, <1>6, <2>1, Zenon DEF Brought
<1> QED  BY <1>1, <1>4, <1>5, <1>6, Zenon

\* The copy of a file adds it to what the writer has brought.
LEMMA CopyBrings ==
    ASSUME NEW t, NEW u, NEW file \in [Files -> Nat], t.pc = "copy", Brought(t, file),
           u.pc = "files", u.of = t.of, u.left = t.left,
           NEW next, next = [file EXCEPT ![t.file] = t.of.evidence[t.file]]
    PROVE  Brought(u, next)
<1>1. t.file \in Names(t.of) /\ t.of \in Offered /\ t.left \subseteq Names(t.of)
  BY Zenon DEF Brought
<1>2. Names(t.of) \subseteq Files
  BY Zenon DEF Names
<1>3. ASSUME NEW g \in Names(t.of) \ t.left
      PROVE  next[g] = t.of.evidence[g]
  <2>1. CASE g = t.file
    BY <1>1, <1>2, <2>1, Zenon
  <2>2. CASE g # t.file
    <3>1. file[g] = t.of.evidence[g]
      BY <1>3, <2>2, Zenon DEF Brought
    <3> QED  BY <1>2, <1>3, <2>2, <3>1, Zenon
  <2> QED  BY <2>1, <2>2, Zenon
<1>4. u.pc \notin {"publish", "merge", "lock"} /\ u.pc # "copy"
  OBVIOUS
<1> QED  BY <1>1, <1>3, <1>4, Zenon DEF Brought

\* A writer that moves on to a step with nothing to bring.
LEMMA PassesOn ==
    ASSUME NEW t, NEW u, NEW file, Brought(t, file), u.of = t.of, u.left = t.left,
           u.pc \in {"verify", "unlink", "failed"}
    PROVE  Brought(u, file)
<1>1. u.pc \notin {"publish", "merge", "lock"} /\ u.pc # "copy" /\ u.pc # "files"
  OBVIOUS
<1> QED  BY <1>1, Zenon DEF Brought

\* A session that a step leaves alone stays sound.
LEMMA SessionAlone ==
    ASSUME NEW s \in Holders, SessionSound(s),
           dir'[s] = dir[s], move'[s] = move[s], upload'[s] = upload[s], trial'[s] = trial[s]
    PROVE  SessionSound(s)'
BY Zenon DEF SessionSound

\* Every step of a migration leaves the evidence of each receipt whole.
LEMMA EvidenceMove ==
    ASSUME ReceiptsTyped, NEW s \in Holders, SessionSound(s), old \in {Old, NoReceipt},
           \/ MoveBegin(s) \/ MoveCheck(s) \/ MovePublish(s) \/ MoveMerge(s) \/ MoveFile(s)
           \/ MoveReceipt(s) \/ MoveVerify(s) \/ MoveEnd(s)
    PROVE  SessionSound(s)' /\ UNCHANGED <<upload, trial, runs>> /\ old' \in {Old, NoReceipt}
           /\ \A x \in Holders \ {s} : dir'[x] = dir[x] /\ move'[x] = move[x]
<1>0. /\ Offered \subseteq AnyReceipt /\ NoReceipt \in AnyReceipt /\ NoReceipt \notin Offered /\ Old \in Offered
      /\ Still.pc = "idle" /\ Still \in Writers
      /\ move \in [Holders -> Writers] /\ dir \in [Holders -> AnyDir] /\ dir[s].file \in [Files -> Nat]
      /\ move[s] \in Writers
  <2>1. dir[s].file \in [Files -> Nat]
    BY DEF ReceiptsTyped, AnyDir
  <2> QED  BY <2>1, GivenShape, Zenon DEF ReceiptsTyped, Offered
<1>00. {"merge", "files", "verify", "unlink", "failed"} \subseteq WriterPcs
  BY Zenon DEF WriterPcs
<1>a. ASSUME dir' = dir, move' = Ended(move, s), UNCHANGED <<upload, trial>>
      PROVE  SessionSound(s)' /\ \A x \in Holders \ {s} : dir'[x] = dir[x] /\ move'[x] = move[x]
  <2>1. move'[s].pc = "idle"
    BY <1>0, <1>a, EndedFields
  <2>2. \A x \in Holders \ {s} : move'[x] = move[x]
    BY <1>0, <1>a, EndedFields
  <2> QED  BY <1>a, <2>1, <2>2, Zenon DEF SessionSound
<1>b. ASSUME dir' = dir, UNCHANGED <<upload, trial>>, move[s].pc \notin {"idle", "check"},
             NEW pc \in {"verify", "unlink", "failed"}, move' = StepTo(move, s, pc)
      PROVE  SessionSound(s)' /\ \A x \in Holders \ {s} : dir'[x] = dir[x] /\ move'[x] = move[x]
  <2>1. /\ move'[s].pc = pc /\ move'[s].of = move[s].of /\ move'[s].left = move[s].left
        /\ \A x \in Holders \ {s} : move'[x] = move[x]
    BY <1>0, <1>00, <1>b, StepToFields
  <2>2. Brought(move[s], dir[s].file)
    BY <1>b, Zenon DEF SessionSound
  <2>3. Brought(move'[s], dir[s].file)
    BY <1>b, <2>1, <2>2, PassesOn, Zenon
  <2> QED  BY <1>b, <2>1, <2>3, Zenon DEF SessionSound
<1>1. CASE MoveBegin(s)
  <2>1. /\ UNCHANGED <<dir, upload, trial, runs, old>>
        /\ move' = [move EXCEPT ![s] = [Still EXCEPT !.pc = "check"]]
    BY <1>1, Zenon DEF MoveBegin
  <2>2. [Still EXCEPT !.pc = "check"].pc = "check"
    BY <1>0 DEF Writers
  <2>3. move'[s].pc = "check" /\ \A x \in Holders \ {s} : move'[x] = move[x]
    BY <1>0, <2>1, <2>2, Zenon
  <2> QED  BY <2>1, <2>3, Zenon DEF SessionSound
<1>2. CASE MoveCheck(s)
  <2>1. /\ UNCHANGED <<dir, upload, trial, runs, old>>
        /\ \/ move' = Ended(move, s)
           \/ /\ old # NoReceipt
              /\ move' = [move EXCEPT ![s] = [Still EXCEPT !.pc = "publish", !.of = old, !.left = Names(old)]]
    BY <1>2, Zenon DEF MoveCheck
  <2>2. CASE move' = Ended(move, s)
    BY <1>a, <2>1, <2>2, Zenon
  <2>3. CASE /\ old # NoReceipt
             /\ move' = [move EXCEPT ![s] = [Still EXCEPT !.pc = "publish", !.of = old, !.left = Names(old)]]
    <3> DEFINE u == [Still EXCEPT !.pc = "publish", !.of = old, !.left = Names(old)]
    <3>1. u.pc = "publish" /\ u.of = old /\ u.left = Names(old)
      BY <1>0 DEF Writers
    <3> HIDE DEF u
    <3>2. move'[s] = u /\ \A x \in Holders \ {s} : move'[x] = move[x]
      BY <1>0, <2>3, Zenon DEF u
    <3>3. old \in Offered
      BY <1>0, <2>3, Zenon
    <3>4. u.pc # "files" /\ u.pc # "copy"
      BY <3>1
    <3>5. Brought(u, dir[s].file)
      BY <3>1, <3>3, <3>4, Zenon DEF Brought
    <3> QED  BY <2>1, <3>2, <3>5, Zenon DEF SessionSound
  <2> QED  BY <2>1, <2>2, <2>3, Zenon
<1>3. CASE MovePublish(s)
  <2> DEFINE r == move[s].of
  <2>0. move[s].pc = "publish" /\ UNCHANGED <<upload, trial, runs, old>>
    BY <1>3, Zenon DEF MovePublish
  <2>1. move[s].pc \notin {"idle", "check"}
    BY <2>0
  <2>2. Brought(move[s], dir[s].file)
    BY <2>1, Zenon DEF SessionSound
  <2>3. r \in Offered /\ move[s].left = Names(r)
    BY <2>0, <2>2, Zenon DEF Brought
  <2>4. CASE move' = Ended(move, s) /\ dir' = dir
    BY <1>a, <2>0, <2>4, Zenon
  <2>5. CASE move' = StepTo(move, s, "merge") /\ dir' = dir
    <3>1. /\ move'[s].pc = "merge" /\ move'[s].of = move[s].of /\ move'[s].left = move[s].left
          /\ \A x \in Holders \ {s} : move'[x] = move[x]
      BY <1>0, <1>00, <2>5, StepToFields
    <3>2. move'[s].pc # "files" /\ move'[s].pc # "copy"
      BY <3>1
    <3>3. Brought(move'[s], dir[s].file)
      BY <2>3, <3>1, <3>2, Zenon DEF Brought
    <3> QED  BY <2>0, <2>5, <3>1, <3>3, Zenon DEF SessionSound
  <2>6. CASE /\ move' = StepTo(move, s, "verify")
             /\ dir' = [dir EXCEPT ![s] = [made |-> TRUE, receipt |-> r, file |-> With(dir[s].file, r)]]
    <3> DEFINE d == [made |-> TRUE, receipt |-> r, file |-> With(dir[s].file, r)]
    <3>1. dir'[s] = d /\ \A x \in Holders \ {s} : dir'[x] = dir[x]
      BY <1>0, <2>6, Zenon
    <3>2. d.receipt = r /\ d.file = With(dir[s].file, r)
      BY Zenon
    <3>3. /\ move'[s].pc = "verify" /\ move'[s].of = move[s].of /\ move'[s].left = move[s].left
          /\ \A x \in Holders \ {s} : move'[x] = move[x]
      BY <1>0, <1>00, <2>6, StepToFields
    <3> HIDE DEF d, r
    <3>4. Refilled(dir'[s].file, dir[s].file) /\ Whole(r, dir'[s].file)
      BY <1>0, <2>3, <3>1, <3>2, WithRefills, Zenon
    <3>5. Brought(move[s], dir'[s].file)
      BY <2>2, <3>4, RefillKeepsBrought, Zenon
    <3>6. Brought(move'[s], dir'[s].file)
      BY <3>3, <3>5, PassesOn, Zenon
    <3>7. upload[s].pc # "idle" => Brought(upload[s], dir'[s].file)
      BY <3>4, RefillKeepsBrought, Zenon DEF SessionSound
    <3>8. \A q \in Offered : \A f \in Names(q) : dir'[s].file[f] \in {0, q.evidence[f]}
      BY <3>4, Zenon DEF SessionSound, Refilled
    <3> QED  BY <2>0, <2>3, <3>1, <3>2, <3>3, <3>4, <3>6, <3>7, <3>8, Zenon DEF SessionSound
  <2> QED  BY <1>3, <2>0, <2>4, <2>5, <2>6, Zenon DEF MovePublish
<1>4. CASE MoveMerge(s)
  <2>0. move[s].pc = "merge" /\ UNCHANGED <<dir, upload, trial, runs, old>>
    BY <1>4, Zenon DEF MoveMerge, store
  <2>1. move[s].pc \notin {"idle", "check"}
    BY <2>0
  <2>2. CASE move' = StepTo(move, s, "verify")
    BY <1>b, <2>0, <2>1, <2>2, Zenon
  <2>3. CASE move' = StepTo(move, s, "files")
    <3>1. /\ move'[s].pc = "files" /\ move'[s].of = move[s].of /\ move'[s].left = move[s].left
          /\ \A x \in Holders \ {s} : move'[x] = move[x]
      BY <1>0, <1>00, <2>3, StepToFields
    <3>2. Brought(move[s], dir[s].file)
      BY <2>1, Zenon DEF SessionSound
    <3>3. move[s].left = Names(move[s].of) /\ move[s].of \in Offered
      BY <2>0, <3>2, Zenon DEF Brought
    <3>4. move'[s].pc \notin {"publish", "merge", "lock"} /\ move'[s].pc # "copy"
      BY <3>1
    <3>5. Brought(move'[s], dir[s].file)
      BY <3>1, <3>3, <3>4, Zenon DEF Brought
    <3> QED  BY <2>0, <3>1, <3>5, Zenon DEF SessionSound
  <2> QED  BY <1>4, <2>0, <2>2, <2>3, Zenon DEF MoveMerge
<1>5. CASE MoveFile(s)
  <2>0. UNCHANGED <<upload, trial, runs, old>>
    BY <1>5, Zenon DEF MoveFile
  <2>1. ASSUME move[s].pc = "files", NEW t \in Looks(move[s], s), move' = [move EXCEPT ![s] = t], dir' = dir
        PROVE  SessionSound(s)' /\ \A x \in Holders \ {s} : dir'[x] = dir[x] /\ move'[x] = move[x]
    <3>1. move[s].pc \notin {"idle", "check"}
      BY <2>1
    <3>2. Brought(t, dir[s].file)
      BY <1>0, <2>1, <3>1, LookBrings, Zenon DEF SessionSound
    <3>3. move'[s] = t /\ \A x \in Holders \ {s} : move'[x] = move[x]
      BY <1>0, <2>1, Zenon
    <3> QED  BY <2>0, <2>1, <3>2, <3>3, Zenon DEF SessionSound
  <2>2. ASSUME move[s].pc = "copy", dir' = Copied(move[s], s), move' = StepTo(move, s, "files")
        PROVE  SessionSound(s)' /\ \A x \in Holders \ {s} : dir'[x] = dir[x] /\ move'[x] = move[x]
    <3>1. move[s].pc \notin {"idle", "check"}
      BY <2>2
    <3>2. Brought(move[s], dir[s].file)
      BY <3>1, Zenon DEF SessionSound
    <3>3. move[s].file \in Names(move[s].of) /\ move[s].of \in Offered
      BY <2>2, <3>2, Zenon DEF Brought
    <3>4. move[s].file \in Files
      BY <3>3, Zenon DEF Names
    <3>5. /\ dir'[s].receipt = dir[s].receipt
          /\ dir'[s].file = [dir[s].file EXCEPT ![move[s].file] = move[s].of.evidence[move[s].file]]
          /\ \A x \in Holders \ {s} : dir'[x] = dir[x]
      BY <1>0, <2>2, <3>4, CopiedFields
    <3>6. /\ move'[s].pc = "files" /\ move'[s].of = move[s].of /\ move'[s].left = move[s].left
          /\ \A x \in Holders \ {s} : move'[x] = move[x]
      BY <1>0, <1>00, <2>2, StepToFields
    <3>7. Refilled(dir'[s].file, dir[s].file)
      BY <1>0, <3>3, <3>5, CopyRefills, ZenonT(60)
    <3>8. Brought(move'[s], dir'[s].file)
      BY <1>0, <2>2, <3>2, <3>5, <3>6, CopyBrings
    <3> QED  BY <2>0, <3>5, <3>6, <3>7, <3>8, RefillKeepsSession, Zenon DEF SessionSound
  <2> QED  BY <1>5, <2>0, <2>1, <2>2, Zenon DEF MoveFile
<1>6. CASE MoveReceipt(s)
  <2>0. /\ move[s].pc = "files" /\ move[s].left = {} /\ UNCHANGED <<upload, trial, runs, old>>
        /\ dir' = [dir EXCEPT ![s].receipt = move[s].of] /\ move' = StepTo(move, s, "verify")
    BY <1>6, Zenon DEF MoveReceipt
  <2>1. move[s].pc \notin {"idle", "check"}
    BY <2>0
  <2>2. Brought(move[s], dir[s].file)
    BY <2>1, Zenon DEF SessionSound
  <2>3. move[s].of \in Offered /\ Whole(move[s].of, dir[s].file)
    BY <2>0, <2>2, Zenon DEF Brought, Whole
  <2>4. /\ dir'[s].receipt = move[s].of /\ dir'[s].file = dir[s].file
        /\ \A x \in Holders \ {s} : dir'[x] = dir[x]
    BY <1>0, <2>0, <2>3, ReceiptPut
  <2>5. /\ move'[s].pc = "verify" /\ move'[s].of = move[s].of /\ move'[s].left = move[s].left
        /\ \A x \in Holders \ {s} : move'[x] = move[x]
    <3>1. "verify" \in WriterPcs /\ move' = StepTo(move, s, "verify")
      BY <1>00, <2>0, Zenon
    <3> QED  BY <1>0, <3>1, StepToFields
  <2>6. Brought(move'[s], dir[s].file)
    BY <2>2, <2>5, PassesOn, Zenon
  <2> QED  BY <2>0, <2>3, <2>4, <2>5, <2>6, Zenon DEF SessionSound
<1>7. CASE MoveVerify(s)
  <2>0. /\ move[s].pc = "verify" /\ UNCHANGED <<dir, upload, trial, runs, old>>
        /\ \E pc \in {"verify", "unlink", "failed"} : move' = StepTo(move, s, pc)
    BY <1>7, Zenon DEF MoveVerify, store
  <2>1. move[s].pc \notin {"idle", "check"}
    BY <2>0
  <2> QED  BY <1>b, <2>0, <2>1, Zenon
<1>8. CASE MoveEnd(s)
  <2>0. UNCHANGED <<dir, upload, trial, runs>> /\ old' \in {old, NoReceipt} /\ move' = Ended(move, s)
    BY <1>8, Zenon DEF MoveEnd
  <2> QED  BY <1>a, <2>0, Zenon
<1> QED  BY <1>1, <1>2, <1>3, <1>4, <1>5, <1>6, <1>7, <1>8, Zenon

\* Every step of an upload leaves the evidence of each receipt whole.
LEMMA EvidenceUpload ==
    ASSUME ReceiptsTyped, NEW s \in Holders, SessionSound(s),
           (\E r \in Uploads : UploadBegin(s, r)) \/ UploadLock(s) \/ UploadFile(s) \/ UploadEnd(s)
    PROVE  SessionSound(s)' /\ UNCHANGED <<move, trial, runs, old>>
           /\ \A x \in Holders \ {s} : dir'[x] = dir[x] /\ upload'[x] = upload[x]
<1>0. /\ Offered \subseteq AnyReceipt /\ Still.pc = "idle" /\ Still \in Writers
      /\ upload \in [Holders -> Writers] /\ dir \in [Holders -> AnyDir] /\ dir[s].file \in [Files -> Nat]
      /\ upload[s] \in Writers
  <2>1. dir[s].file \in [Files -> Nat]
    BY DEF ReceiptsTyped, AnyDir
  <2> QED  BY <2>1, GivenShape, Zenon DEF ReceiptsTyped
<1>00. "files" \in WriterPcs
  BY Zenon DEF WriterPcs
<1>1. ASSUME NEW r \in Uploads, UploadBegin(s, r)
      PROVE  SessionSound(s)' /\ UNCHANGED <<move, trial, runs, old>>
             /\ \A x \in Holders \ {s} : dir'[x] = dir[x] /\ upload'[x] = upload[x]
  <2> DEFINE u == [Still EXCEPT !.pc = "lock", !.of = r, !.left = Names(r)]
  <2>1. UNCHANGED <<dir, move, trial, runs, old>> /\ upload' = [upload EXCEPT ![s] = u]
    BY <1>1, Zenon DEF UploadBegin, store
  <2>2. u.pc = "lock" /\ u.of = r /\ u.left = Names(r)
    BY <1>0 DEF Writers
  <2> HIDE DEF u
  <2>3. upload'[s] = u /\ \A x \in Holders \ {s} : upload'[x] = upload[x]
    BY <1>0, <2>1, Zenon
  <2>4. u.pc # "files" /\ u.pc # "copy"
    BY <2>2
  <2>5. Brought(u, dir[s].file)
    BY <2>2, <2>4, Zenon DEF Brought, Offered
  <2> QED  BY <2>1, <2>3, <2>5, Zenon DEF SessionSound
<1>2. CASE UploadLock(s)
  <2>0. /\ upload[s].pc = "lock" /\ UNCHANGED <<move, trial, runs, old>> /\ dir' = [dir EXCEPT ![s].made = TRUE]
        /\ upload' = Ended(upload, s) \/ upload' = StepTo(upload, s, "files")
    BY <1>2, Zenon DEF UploadLock
  <2>1. dir'[s].receipt = dir[s].receipt /\ dir'[s].file = dir[s].file /\ \A x \in Holders \ {s} : dir'[x] = dir[x]
    BY <2>0, MadeDirectory, Zenon
  <2>2. CASE upload' = Ended(upload, s)
    <3>1. upload'[s] = Still /\ \A x \in Holders \ {s} : upload'[x] = upload[x]
      BY <1>0, <2>2, EndedFields
    <3> QED  BY <1>0, <2>0, <2>1, <3>1, Zenon DEF SessionSound
  <2>3. CASE upload' = StepTo(upload, s, "files")
    <3>1. /\ upload'[s].pc = "files" /\ upload'[s].of = upload[s].of /\ upload'[s].left = upload[s].left
          /\ \A x \in Holders \ {s} : upload'[x] = upload[x]
      BY <1>0, <1>00, <2>3, StepToFields
    <3>2. Brought(upload[s], dir[s].file)
      BY <2>0, Zenon DEF SessionSound
    <3>3. upload[s].left = Names(upload[s].of) /\ upload[s].of \in Offered
      BY <2>0, <3>2, Zenon DEF Brought
    <3>4. upload'[s].pc \notin {"publish", "merge", "lock"} /\ upload'[s].pc # "copy"
      BY <3>1
    <3>5. Brought(upload'[s], dir[s].file)
      BY <3>1, <3>3, <3>4, Zenon DEF Brought
    <3> QED  BY <2>0, <2>1, <3>1, <3>5, Zenon DEF SessionSound
  <2> QED  BY <2>0, <2>2, <2>3, Zenon
<1>3. CASE UploadFile(s)
  <2>0. UNCHANGED <<move, trial, runs, old>>
    BY <1>3, Zenon DEF UploadFile
  <2>1. ASSUME upload[s].pc = "files", NEW t \in Looks(upload[s], s), upload' = [upload EXCEPT ![s] = t], dir' = dir
        PROVE  SessionSound(s)' /\ \A x \in Holders \ {s} : dir'[x] = dir[x] /\ upload'[x] = upload[x]
    <3>1. upload[s].pc # "idle"
      BY <2>1
    <3>2. Brought(t, dir[s].file)
      BY <1>0, <2>1, <3>1, LookBrings, Zenon DEF SessionSound
    <3>3. upload'[s] = t /\ \A x \in Holders \ {s} : upload'[x] = upload[x]
      BY <1>0, <2>1, Zenon
    <3> QED  BY <2>0, <2>1, <3>2, <3>3, Zenon DEF SessionSound
  <2>2. ASSUME upload[s].pc = "copy", dir' = Copied(upload[s], s), upload' = StepTo(upload, s, "files")
        PROVE  SessionSound(s)' /\ \A x \in Holders \ {s} : dir'[x] = dir[x] /\ upload'[x] = upload[x]
    <3>1. upload[s].pc # "idle"
      BY <2>2
    <3>2. Brought(upload[s], dir[s].file)
      BY <3>1, Zenon DEF SessionSound
    <3>3. upload[s].file \in Names(upload[s].of) /\ upload[s].of \in Offered
      BY <2>2, <3>2, Zenon DEF Brought
    <3>4. upload[s].file \in Files
      BY <3>3, Zenon DEF Names
    <3>5. /\ dir'[s].receipt = dir[s].receipt
          /\ dir'[s].file = [dir[s].file EXCEPT ![upload[s].file] = upload[s].of.evidence[upload[s].file]]
          /\ \A x \in Holders \ {s} : dir'[x] = dir[x]
      BY <1>0, <2>2, <3>4, CopiedFields
    <3>6. /\ upload'[s].pc = "files" /\ upload'[s].of = upload[s].of /\ upload'[s].left = upload[s].left
          /\ \A x \in Holders \ {s} : upload'[x] = upload[x]
      BY <1>0, <1>00, <2>2, StepToFields
    <3>7. Refilled(dir'[s].file, dir[s].file)
      BY <1>0, <3>3, <3>5, CopyRefills, ZenonT(60)
    <3>8. Brought(upload'[s], dir'[s].file)
      BY <1>0, <2>2, <3>2, <3>5, <3>6, CopyBrings
    <3> QED  BY <2>0, <3>5, <3>6, <3>7, <3>8, RefillKeepsSession, Zenon DEF SessionSound
  <2> QED  BY <1>3, <2>0, <2>1, <2>2, Zenon DEF UploadFile
<1>4. CASE UploadEnd(s)
  <2>0. /\ UNCHANGED <<move, trial, runs, old>> /\ upload' = Ended(upload, s)
        /\ \/ dir' = dir
           \/ /\ upload[s].pc = "files" /\ upload[s].left = {}
              /\ dir' = [dir EXCEPT ![s].receipt = upload[s].of]
    BY <1>4, Zenon DEF UploadEnd
  <2>1. upload'[s] = Still /\ \A x \in Holders \ {s} : upload'[x] = upload[x]
    BY <1>0, <2>0, EndedFields
  <2>2. CASE dir' = dir
    BY <1>0, <2>0, <2>1, <2>2, Zenon DEF SessionSound
  <2>3. CASE upload[s].pc = "files" /\ upload[s].left = {} /\ dir' = [dir EXCEPT ![s].receipt = upload[s].of]
    <3>1. upload[s].pc # "idle"
      BY <2>3
    <3>2. Brought(upload[s], dir[s].file)
      BY <3>1, Zenon DEF SessionSound
    <3>3. upload[s].of \in Offered /\ Whole(upload[s].of, dir[s].file)
      BY <2>3, <3>2, Zenon DEF Brought, Whole
    <3>4. /\ dir'[s].receipt = upload[s].of /\ dir'[s].file = dir[s].file
          /\ \A x \in Holders \ {s} : dir'[x] = dir[x]
      BY <1>0, <2>3, <3>3, ReceiptPut
    <3> QED  BY <1>0, <2>0, <2>1, <3>3, <3>4, Zenon DEF SessionSound
  <2> QED  BY <2>0, <2>2, <2>3, Zenon
<1> QED  BY <1>1, <1>2, <1>3, <1>4, Zenon

\* The evidence of a readable receipt stays whole until a validator runs.
LEMMA EvidenceStep ==
    ASSUME ReceiptsTyped, EvidenceInv, [ReceiptsNext]_receiptsVars
    PROVE  EvidenceInv'
<1>1. CASE runs # 0
  <2>1. runs' = runs \/ runs' = runs + 1
    BY ZenonT(60) DEF ReceiptsNext, receiptsVars, MoveBegin, MoveCheck, MovePublish, MoveMerge, MoveFile, MoveReceipt,
         MoveVerify, MoveEnd, UploadBegin, UploadLock, UploadFile, UploadEnd, RunBegin, RunFile, RunDigest,
         RunReceipt, Close, ToggleEnrollment, WriterDies, Edit, Anchor, Register
  <2>2. runs' # 0
    BY <1>1, <2>1 DEF ReceiptsTyped
  <2> QED  BY <2>2, Zenon DEF EvidenceInv
<1>2. CASE runs = 0
  <2>0. old \in {Old, NoReceipt} /\ (\A s \in Holders : SessionSound(s)) /\ Still.pc = "idle"
    BY <1>2, GivenShape, Zenon DEF EvidenceInv
  <2>1. ASSUME NEW s \in Holders,
               \/ MoveBegin(s) \/ MoveCheck(s) \/ MovePublish(s) \/ MoveMerge(s) \/ MoveFile(s)
               \/ MoveReceipt(s) \/ MoveVerify(s) \/ MoveEnd(s)
        PROVE  EvidenceInv'
    BY <2>0, <2>1, EvidenceMove, SessionAlone, Zenon DEF EvidenceInv
  <2>2. ASSUME NEW s \in Holders,
               (\E r \in Uploads : UploadBegin(s, r)) \/ UploadLock(s) \/ UploadFile(s) \/ UploadEnd(s)
        PROVE  EvidenceInv'
    BY <2>0, <2>2, EvidenceUpload, SessionAlone, Zenon DEF EvidenceInv
  <2>3. ASSUME NEW s \in Holders, RunBegin(s)
        PROVE  EvidenceInv'
    <3>1. runs' # 0
      BY <1>2, <2>3 DEF RunBegin
    <3> QED  BY <3>1, Zenon DEF EvidenceInv
  <2>4. ASSUME NEW s \in Holders, (\E f \in {Output, Report} : RunFile(s, f)) \/ RunDigest(s) \/ RunReceipt(s)
        PROVE  EvidenceInv'
    <3>1. trial[s].pc \in {"files", "receipt"}
      BY <2>4, Zenon DEF RunFile, RunDigest, RunReceipt
    <3>2. trial[s].pc = "idle"
      BY <2>0, Zenon DEF SessionSound
    <3> QED  BY <3>1, <3>2
  <2>5. ASSUME NEW s \in Holders, WriterDies(s)
        PROVE  EvidenceInv'
    <3>1. trial[s] = Still
      BY <2>0, Zenon DEF SessionSound
    <3>2. /\ UNCHANGED <<old, dir, trial, runs>>
          /\ \/ move' = Ended(move, s) /\ upload' = upload
             \/ upload' = Ended(upload, s) /\ move' = move
      BY <2>5, <3>1, Zenon DEF WriterDies
    <3>3. /\ move'[s] = move[s] \/ move'[s] = Still
          /\ upload'[s] = upload[s] \/ upload'[s] = Still
          /\ \A x \in Holders \ {s} : move'[x] = move[x] /\ upload'[x] = upload[x]
      BY <3>2, EndedFields DEF ReceiptsTyped
    <3>4. SessionSound(s)'
      BY <2>0, <3>2, <3>3, Zenon DEF SessionSound
    <3>5. \A x \in Holders \ {s} : SessionSound(x)'
      BY <2>0, <3>2, <3>3, SessionAlone, Zenon
    <3> QED  BY <2>0, <3>2, <3>4, <3>5, Zenon DEF EvidenceInv
  <2>6. CASE \/ \E s \in Holders : Close(s) \/ ToggleEnrollment(s)
             \/ Edit \/ Anchor \/ Register \/ UNCHANGED receiptsVars
    <3>1. UNCHANGED <<old, dir, move, upload, trial, runs>>
      BY <2>6, Zenon DEF Close, ToggleEnrollment, Edit, Anchor, Register, receiptsVars, store
    <3> QED  BY <2>0, <3>1, SessionAlone, Zenon DEF EvidenceInv
  <2> QED  BY <2>1, <2>2, <2>3, <2>4, <2>5, <2>6, Zenon DEF ReceiptsNext
<1> QED  BY <1>1, <1>2, Zenon

---------------------------------------------------------------------------
\* The lock of the old path admits one migration.
LEMMA SoleMover ==
    ASSUME MigrationInv, NEW s \in Holders, move[s] # Still
    PROVE  \A x \in Holders \ {s} : move[x] = Still
BY Zenon DEF MigrationInv

\* While a migration has not published, nobody has the old receipt.
LEMMA NobodyHasOldYet ==
    ASSUME MigrationInv, ~cut, old # NoReceipt, NEW s \in Holders, move[s] # Still, ~Published(s)
    PROVE  \A x \in Holders : ~HasOld(x)
<1>1. Still.pc \notin {"verify", "failed", "unlink"}
  BY GivenShape
<1>2. \A x \in Holders : ~Published(x)
  BY <1>1, SoleMover, Zenon DEF Published
<1> QED  BY <1>2, Zenon DEF MigrationInv

\* Steps that take no part in a migration.
LEMMA MigrationAlone ==
    ASSUME MigrationInv, UNCHANGED <<old, move, cut>>, locks'["old"] = locks["old"],
           \A x \in Holders : HasOld(x)' => HasOld(x),
           \A x \in Holders : upload'[x].of # Old /\ trial'[x].of # Old,
           \A x \in Holders : trial'[x].pc # "idle" => trial'[x].of.tree \in {1, 2}
    PROVE  MigrationInv'
BY Zenon DEF MigrationInv, Migrating, Published

\* The migration's own steps keep the old receipt with one session.
LEMMA MigrationMove ==
    ASSUME ReceiptsTyped, MigrationInv, NEW s \in Holders,
           \/ MoveBegin(s) \/ MoveCheck(s) \/ MovePublish(s) \/ MoveMerge(s) \/ MoveFile(s)
           \/ MoveReceipt(s) \/ MoveVerify(s) \/ MoveEnd(s)
    PROVE  MigrationInv'
<1>0. /\ NoReceipt # Old /\ Still.pc = "idle" /\ Still \in Writers /\ Old \in AnyReceipt /\ NoReceipt \in AnyReceipt
      /\ move \in [Holders -> Writers] /\ dir \in [Holders -> AnyDir] /\ move[s] \in Writers
      /\ DOMAIN locks = {"old"} \cup Holders
  BY GivenShape, Zenon DEF ReceiptsTyped, Offered
<1>00. {"merge", "files", "verify", "unlink", "failed"} \subseteq WriterPcs
  BY Zenon DEF WriterPcs
<1>000. UNCHANGED <<upload, trial, closed>>
  BY Zenon DEF MoveBegin, MoveCheck, MovePublish, MoveMerge, MoveFile, MoveReceipt, MoveVerify, MoveEnd
\* A step of a migration under way that goes on with it.
<1>a. ASSUME Migrating(s), NEW u, move' = [move EXCEPT ![s] = u], u.of = Old, u.pc \notin {"idle", "check"},
             UNCHANGED <<old, locks, cut>>,
             \A x \in Holders \ {s} : dir'[x] = dir[x],
             dir'[s].receipt = dir[s].receipt \/ u.pc \in {"verify", "failed", "unlink"},
             Published(s) => u.pc \in {"verify", "failed", "unlink"}
      PROVE  MigrationInv'
  <2>1. move[s] # Still
    BY <1>0, <1>a, Zenon DEF Migrating
  <2>2. move'[s] = u /\ \A x \in Holders \ {s} : move'[x] = move[x]
    BY <1>0, <1>a, Zenon
  <2>3. \A x \in Holders \ {s} : move[x] = Still
    BY <2>1, SoleMover, Zenon
  <2>4. old = Old /\ locks["old"] = s
    BY <1>a, <2>1, Zenon DEF MigrationInv
  <2>5. ASSUME NEW x \in Holders \ {s}, ~cut PROVE ~HasOld(x)
    <3>1. Still.pc \notin {"verify", "failed", "unlink"}
      BY <1>0
    <3>2. ~Published(x)
      BY <2>3, <3>1, Zenon DEF Published
    <3> QED  BY <1>0, <2>4, <2>5, <3>2, Zenon DEF MigrationInv
  <2>6. ASSUME NEW x \in Holders \ {s}, ~cut PROVE ~HasOld(x)'
    BY <1>000, <1>a, <2>5, <2>6, Zenon DEF HasOld
  <2>7. ~cut /\ HasOld(s)' => Published(s)'
    <3>1. CASE u.pc \in {"verify", "failed", "unlink"}
      BY <2>2, <3>1, Zenon DEF Published
    <3>2. CASE u.pc \notin {"verify", "failed", "unlink"}
      <4>1. ~Published(s) /\ dir'[s].receipt = dir[s].receipt
        BY <1>a, <3>2, Zenon
      <4>2. ~cut => ~HasOld(s)
        BY <1>0, <2>1, <2>4, <4>1, NobodyHasOldYet, Zenon
      <4> QED  BY <1>000, <4>1, <4>2, Zenon DEF HasOld
    <3> QED  BY <3>1, <3>2, Zenon
  <2>8. \A x \in Holders : /\ move'[x] # Still => locks'["old"] = x
                           /\ Migrating(x)' => move'[x].of = Old /\ old' = Old
    BY <1>0, <1>a, <2>2, <2>3, <2>4, Zenon DEF Migrating
  <2> QED  BY <1>000, <1>a, <2>4, <2>6, <2>7, <2>8, Zenon DEF MigrationInv
\* A migration that ends.
<1>b. ASSUME move[s] # Still, move' = Ended(move, s), locks' = [locks EXCEPT !["old"] = NotHeld], dir' = dir,
             old' = old \/ old' = NoReceipt,
             cut' \/ (cut' = cut /\ (old' = NoReceipt \/ ~Published(s)))
      PROVE  MigrationInv'
  <2>1. \A x \in Holders : move'[x] = Still
    BY <1>0, <1>b, SoleMover, EndedFields
  <2>2. ~cut' => \A x \in Holders : HasOld(x)' => old' = NoReceipt
    <3>1. SUFFICES ASSUME ~cut', old' # NoReceipt, NEW x \in Holders PROVE ~HasOld(x)'
      BY Zenon
    <3>2. ~cut /\ old # NoReceipt /\ ~Published(s)
      BY <1>b, <3>1
    <3>3. ~HasOld(x)
      BY <1>b, <3>2, NobodyHasOldYet, Zenon
    <3> QED  BY <1>000, <1>b, <3>3, Zenon DEF HasOld
  <2>3. ~cut' => ~cut
    BY <1>b, Zenon
  <2>4. \A x \in Holders : HasOld(x)' <=> HasOld(x)
    BY <1>000, <1>b, Zenon DEF HasOld
  <2>5. ~cut' => \A x, y \in Holders : HasOld(x)' /\ HasOld(y)' => x = y
    BY <2>3, <2>4, Zenon DEF MigrationInv
  <2>6. \A x \in Holders : ~Migrating(x)'
    BY <1>0, <2>1, Zenon DEF Migrating
  <2> QED  BY <1>0, <1>000, <1>b, <2>1, <2>2, <2>5, <2>6, Zenon DEF MigrationInv
<1>1. CASE MoveBegin(s)
  <2>1. /\ UNCHANGED <<old, dir, cut>> /\ old # NoReceipt /\ locks["old"] = "free"
        /\ locks' = [locks EXCEPT !["old"] = s] /\ move' = [move EXCEPT ![s] = [Still EXCEPT !.pc = "check"]]
    BY <1>1, Zenon DEF MoveBegin, NotHeld
  <2>2. \A x \in Holders : x # "free"
    BY GivenReceipts, Zenon
  <2>3. \A x \in Holders : move[x] = Still
    BY <2>1, <2>2, Zenon DEF MigrationInv
  <2>4. [Still EXCEPT !.pc = "check"].pc = "check"
    BY <1>0 DEF Writers
  <2>5. \A x \in Holders : ~Published(x)
    BY <1>0, <2>3, Zenon DEF Published
  <2>6. ~cut => \A x \in Holders : ~HasOld(x)
    BY <2>1, <2>5, Zenon DEF MigrationInv
  <2>7. ~cut' => \A x \in Holders : ~HasOld(x)'
    BY <1>000, <2>1, <2>6, Zenon DEF HasOld
  <2>8. move'[s].pc = "check" /\ \A x \in Holders \ {s} : move'[x] = Still
    BY <1>0, <2>1, <2>3, <2>4, Zenon
  <2>9. locks'["old"] = s
    BY <1>0, <2>1, Zenon
  <2>10. \A x \in Holders : ~Migrating(x)' /\ (move'[x] # Still => locks'["old"] = x)
    BY <1>0, <2>8, <2>9, Zenon DEF Migrating
  <2> QED  BY <1>000, <2>1, <2>7, <2>10, Zenon DEF MigrationInv
<1>2. CASE MoveCheck(s)
  <2>1. /\ UNCHANGED <<old, dir, cut>> /\ move[s].pc = "check"
        /\ \/ move' = Ended(move, s) /\ locks' = [locks EXCEPT !["old"] = NotHeld]
           \/ /\ old # NoReceipt /\ locks' = locks
              /\ move' = [move EXCEPT ![s] = [Still EXCEPT !.pc = "publish", !.of = old, !.left = Names(old)]]
    BY <1>2, Zenon DEF MoveCheck
  <2>2. move[s] # Still /\ ~Published(s)
    BY <1>0, <2>1, Zenon DEF Published
  <2>3. CASE move' = Ended(move, s) /\ locks' = [locks EXCEPT !["old"] = NotHeld]
    BY <1>b, <2>1, <2>2, <2>3, Zenon
  <2>4. CASE /\ old # NoReceipt /\ locks' = locks
             /\ move' = [move EXCEPT ![s] = [Still EXCEPT !.pc = "publish", !.of = old, !.left = Names(old)]]
    <3> DEFINE u == [Still EXCEPT !.pc = "publish", !.of = old, !.left = Names(old)]
    <3>1. u.pc = "publish" /\ u.of = old
      BY <1>0 DEF Writers
    <3> HIDE DEF u
    <3>2. move'[s] = u /\ \A x \in Holders \ {s} : move'[x] = Still
      BY <1>0, <2>2, <2>4, SoleMover, Zenon DEF u
    <3>3. old = Old /\ locks["old"] = s
      BY <2>2, <2>4, Zenon DEF MigrationInv
    <3>4. ~cut => \A x \in Holders : ~HasOld(x)
      BY <2>2, <2>4, NobodyHasOldYet, Zenon
    <3>5. ~cut' => \A x \in Holders : ~HasOld(x)'
      BY <1>000, <2>1, <3>4, Zenon DEF HasOld
    <3>6. \A x \in Holders : /\ move'[x] # Still => locks'["old"] = x
                             /\ Migrating(x)' => move'[x].of = Old /\ old' = Old
      BY <1>0, <2>1, <2>4, <3>1, <3>2, <3>3, Zenon DEF Migrating
    <3> QED  BY <1>000, <2>1, <3>3, <3>5, <3>6, Zenon DEF MigrationInv
  <2> QED  BY <2>1, <2>3, <2>4, Zenon
<1>3. CASE MovePublish(s)
  <2>1. move[s].pc = "publish" /\ UNCHANGED <<old, cut>>
    BY <1>3, Zenon DEF MovePublish
  <2>2. Migrating(s) /\ ~Published(s) /\ move[s] # Still
    BY <1>0, <2>1, Zenon DEF Migrating, Published
  <2>3. move[s].of = Old
    BY <2>2, Zenon DEF MigrationInv
  <2>4. CASE move' = Ended(move, s) /\ locks' = [locks EXCEPT !["old"] = NotHeld] /\ dir' = dir
    BY <1>b, <2>1, <2>2, <2>4, Zenon
  <2>5. CASE move' = StepTo(move, s, "merge") /\ locks' = locks /\ dir' = dir
    <3>1. move'[s].pc = "merge" /\ move'[s].of = Old
      BY <1>0, <1>00, <2>3, <2>5, StepToFields
    <3>2. move' = [move EXCEPT ![s] = move'[s]]
      BY <1>0, <2>5 DEF StepTo
    <3>3. move'[s].pc \notin {"idle", "check"}
      BY <3>1
    <3> QED  BY <1>a, <2>1, <2>2, <2>5, <3>1, <3>2, <3>3, Zenon
  <2>6. CASE /\ move' = StepTo(move, s, "verify") /\ locks' = locks
             /\ dir' = [dir EXCEPT ![s] = [made |-> TRUE, receipt |-> move[s].of, file |-> With(dir[s].file, move[s].of)]]
    <3>1. move'[s].pc = "verify" /\ move'[s].of = Old
      BY <1>0, <1>00, <2>3, <2>6, StepToFields
    <3>2. move' = [move EXCEPT ![s] = move'[s]]
      BY <1>0, <2>6 DEF StepTo
    <3>3. move'[s].pc \notin {"idle", "check"} /\ move'[s].pc \in {"verify", "failed", "unlink"}
      BY <3>1
    <3>4. \A x \in Holders \ {s} : dir'[x] = dir[x]
      BY <1>0, <2>6, Zenon
    <3> QED  BY <1>a, <2>1, <2>2, <2>6, <3>1, <3>2, <3>3, <3>4, Zenon
  <2> QED  BY <1>3, <2>4, <2>5, <2>6, Zenon DEF MovePublish
<1>4. CASE MoveMerge(s) \/ MoveVerify(s)
  <2>1. /\ UNCHANGED <<old, dir, locks, cut>> /\ move[s].pc \in {"merge", "verify"}
        /\ \E pc \in {"verify", "files", "unlink", "failed"} :
             move' = StepTo(move, s, pc) /\ (move[s].pc = "verify" => pc # "files")
    BY <1>4 DEF MoveMerge, MoveVerify, store
  <2>2. PICK pc \in {"verify", "files", "unlink", "failed"} :
             move' = StepTo(move, s, pc) /\ (move[s].pc = "verify" => pc # "files")
    BY <2>1, Zenon
  <2>3. Migrating(s) /\ move[s].of = Old
    BY <2>1 DEF Migrating, MigrationInv
  <2>4. move'[s].pc = pc /\ move'[s].of = Old
    BY <1>0, <1>00, <2>2, <2>3, StepToFields
  <2>5. move' = [move EXCEPT ![s] = move'[s]]
    BY <1>0, <2>2 DEF StepTo
  <2>6. move'[s].pc \notin {"idle", "check"}
    BY Zenon, SMTT(30), <2>4
  <2>7. Published(s) => move'[s].pc \in {"verify", "failed", "unlink"}
    BY <2>1, <2>2, <2>4 DEF Published
  <2> QED  BY <1>a, <2>1, <2>3, <2>4, <2>5, <2>6, <2>7, Zenon
<1>5. CASE MoveFile(s)
  <2>1. UNCHANGED <<old, locks, cut>> /\ move[s].pc \in {"files", "copy"}
    BY <1>5, Zenon DEF MoveFile
  <2>2. Migrating(s) /\ ~Published(s)
    BY <2>1 DEF Migrating, Published
  <2>3. move[s].of = Old
    BY <2>2, Zenon DEF MigrationInv
  <2>4. ASSUME NEW t \in Looks(move[s], s), move' = [move EXCEPT ![s] = t], dir' = dir
        PROVE  MigrationInv'
    <3>1. t.of = Old /\ t.pc \in {"copy", "files", "failed"}
      BY <1>0, <2>3, <2>4, LooksFields
    <3>2. t.pc \notin {"idle", "check"}
      BY <3>1
    <3> QED  BY <1>a, <2>1, <2>2, <2>4, <3>1, <3>2, ZenonT(60)
  <2>5. ASSUME dir' = Copied(move[s], s), move' = StepTo(move, s, "files")
        PROVE  MigrationInv'
    <3>1. move'[s].pc = "files" /\ move'[s].of = Old
      BY <1>0, <1>00, <2>3, <2>5, StepToFields
    <3>2. move' = [move EXCEPT ![s] = move'[s]]
      BY Zenon, SMTT(30), <1>0, <2>5 DEF StepTo
    <3>3. move'[s].pc \notin {"idle", "check"}
      BY <3>1
    <3>4. dir'[s].receipt = dir[s].receipt /\ \A x \in Holders \ {s} : dir'[x] = dir[x]
      BY <1>0, <2>5 DEF Copied, AnyDir
    <3> QED  BY <1>a, <2>1, <2>2, <3>1, <3>2, <3>3, <3>4, Zenon
  <2> QED  BY <1>5, <2>4, <2>5, Zenon DEF MoveFile
<1>6. CASE MoveReceipt(s)
  <2>1. /\ UNCHANGED <<old, locks, cut>> /\ move[s].pc = "files"
        /\ dir' = [dir EXCEPT ![s].receipt = move[s].of] /\ move' = StepTo(move, s, "verify")
    BY <1>6, Zenon DEF MoveReceipt
  <2>2. Migrating(s) /\ move[s].of = Old
    BY <2>1 DEF Migrating, MigrationInv
  <2>3. move'[s].pc = "verify" /\ move'[s].of = Old
    BY <1>0, <1>00, <2>1, <2>2, StepToFields
  <2>4. move' = [move EXCEPT ![s] = move'[s]]
    BY <1>0, <2>1 DEF StepTo
  <2>5. move'[s].pc \notin {"idle", "check"} /\ move'[s].pc \in {"verify", "failed", "unlink"}
    BY <2>3
  <2>6. \A x \in Holders \ {s} : dir'[x] = dir[x]
    BY <1>0, <2>1, Zenon
  <2> QED  BY <1>a, <2>1, <2>2, <2>3, <2>4, <2>5, <2>6, Zenon
<1>7. CASE MoveEnd(s)
  <2>1. /\ move[s].pc \in {"unlink", "failed"} /\ dir' = dir /\ move' = Ended(move, s)
        /\ locks' = [locks EXCEPT !["old"] = NotHeld]
        /\ old' = IF move[s].pc = "unlink" THEN NoReceipt ELSE old
        /\ cut' = (cut \/ move[s].pc = "failed")
    BY <1>7, Zenon DEF MoveEnd
  <2>2. move[s] # Still
    BY <1>0, <2>1
  <2>3. cut \in BOOLEAN
    BY Zenon DEF ReceiptsTyped
  <2>4. CASE move[s].pc = "unlink"
    <3>1. old' = NoReceipt /\ (cut' = cut)
      BY <2>1, <2>3, <2>4
    <3> QED  BY <1>b, <2>1, <2>2, <3>1, Zenon
  <2>5. CASE move[s].pc = "failed"
    <3>1. old' = old /\ cut'
      BY ZenonT(60), <2>1, <2>3, <2>5
    <3> QED  BY <1>b, <2>1, <2>2, <3>1, ZenonT(60)
  <2> QED  BY <2>1, <2>4, <2>5, Zenon
<1> QED  BY <1>1, <1>2, <1>3, <1>4, <1>5, <1>6, <1>7, Zenon

\* Every step keeps the old receipt with one session, as long as no migration
\* is cut off after it published.
LEMMA MigrationStep ==
    ASSUME ReceiptsTyped, MigrationInv, [ReceiptsNext]_receiptsVars
    PROVE  MigrationInv'
<1>0. /\ NoReceipt # Old /\ Still.pc = "idle" /\ Still.of = NoReceipt /\ Still \in Writers
      /\ upload \in [Holders -> Writers] /\ trial \in [Holders -> Writers] /\ dir \in [Holders -> AnyDir]
      /\ DOMAIN locks = {"old"} \cup Holders /\ "old" \notin Holders
      /\ NoReceipt \in AnyReceipt
  <2>1. "old" \notin Holders
    BY GivenReceipts, Zenon
  <2> QED  BY <2>1, GivenShape, Zenon DEF ReceiptsTyped
<1>1. ASSUME NEW s \in Holders,
             \/ MoveBegin(s) \/ MoveCheck(s) \/ MovePublish(s) \/ MoveMerge(s) \/ MoveFile(s)
             \/ MoveReceipt(s) \/ MoveVerify(s) \/ MoveEnd(s)
      PROVE  MigrationInv'
  BY <1>1, MigrationMove, Zenon
\* The part of the invariant that every other step works with.
<1>2. \A x \in Holders : /\ upload[x].of # Old /\ trial[x].of # Old
                         /\ trial[x].pc # "idle" => trial[x].of.tree \in {1, 2}
  BY Zenon DEF MigrationInv
<1>3. ASSUME NEW s \in Holders, NEW r \in Uploads, UploadBegin(s, r)
      PROVE  MigrationInv'
  <2> DEFINE u == [Still EXCEPT !.pc = "lock", !.of = r, !.left = Names(r)]
  <2>1. UNCHANGED <<old, dir, locks, move, trial, closed, cut>> /\ upload' = [upload EXCEPT ![s] = u]
    BY <1>3, Zenon DEF UploadBegin, store
  <2>2. u.of = r
    BY <1>0 DEF Writers
  <2>3. r # Old
    BY GivenReceipts, Zenon
  <2> HIDE DEF u
  <2>4. \A x \in Holders : upload'[x].of # Old
    BY <1>0, <1>2, <2>1, <2>2, <2>3, Zenon
  <2> QED  BY <1>2, <2>1, <2>4, MigrationAlone, Zenon DEF HasOld
<1>4. ASSUME NEW s \in Holders, UploadLock(s) \/ UploadEnd(s)
      PROVE  MigrationInv'
  <2>1. /\ UNCHANGED <<old, move, trial, closed, cut>>
        /\ locks' = locks \/ locks' = [locks EXCEPT ![s] = "upload"] \/ locks' = [locks EXCEPT ![s] = NotHeld]
        /\ upload' = Ended(upload, s) \/ upload' = StepTo(upload, s, "files")
        /\ dir' = dir \/ dir' = [dir EXCEPT ![s].made = TRUE] \/ dir' = [dir EXCEPT ![s].receipt = upload[s].of]
    BY <1>4, Zenon DEF UploadLock, UploadEnd
  <2>2. locks'["old"] = locks["old"]
    BY <1>0, <2>1, Zenon
  <2>3. "files" \in WriterPcs
    BY Zenon DEF WriterPcs
  <2>4. \A x \in Holders : upload'[x].of # Old
    <3>1. CASE upload' = Ended(upload, s)
      <4>1. upload'[s] = Still /\ \A x \in Holders \ {s} : upload'[x] = upload[x]
        BY <1>0, <3>1, EndedFields
      <4> QED  BY <1>0, <1>2, <4>1, Zenon
    <3>2. CASE upload' = StepTo(upload, s, "files")
      <4>1. upload'[s].of = upload[s].of /\ \A x \in Holders \ {s} : upload'[x] = upload[x]
        BY <1>0, <2>3, <3>2, StepToFields
      <4> QED  BY <1>2, <4>1, Zenon
    <3> QED  BY <2>1, <3>1, <3>2, Zenon
  <2>5. upload[s].of \in AnyReceipt
    BY <1>0 DEF Writers
  <2>6. \A x \in Holders : dir'[x].receipt = Old => dir[x].receipt = Old
    BY <1>2, <2>1, <2>5, MadeDirectory, ReceiptPut
  <2>7. \A x \in Holders : HasOld(x)' => HasOld(x)
    BY <2>1, <2>6, Zenon DEF HasOld
  <2> QED  BY <1>2, <2>1, <2>2, <2>4, <2>7, MigrationAlone, Zenon
<1>5. ASSUME NEW s \in Holders, UploadFile(s)
      PROVE  MigrationInv'
  <2>1. /\ UNCHANGED <<old, locks, move, trial, closed, cut>>
        /\ \/ dir' = dir /\ \E t \in Looks(upload[s], s) : upload' = [upload EXCEPT ![s] = t]
           \/ dir' = Copied(upload[s], s) /\ upload' = StepTo(upload, s, "files")
    BY <1>5, Zenon DEF UploadFile
  <2>2. upload[s] \in Writers /\ "files" \in WriterPcs
    BY <1>0, Zenon DEF WriterPcs
  <2>3. \A x \in Holders : upload'[x].of # Old
    <3>1. ASSUME NEW t \in Looks(upload[s], s), upload' = [upload EXCEPT ![s] = t]
          PROVE  \A x \in Holders : upload'[x].of # Old
      <4>1. t.of = upload[s].of
        BY <1>2, <2>2, LooksFields
      <4> QED  BY <1>0, <1>2, <3>1, <4>1, Zenon
    <3>2. CASE upload' = StepTo(upload, s, "files")
      <4>1. upload'[s].of = upload[s].of /\ \A x \in Holders \ {s} : upload'[x] = upload[x]
        BY <1>0, <2>2, <3>2, StepToFields
      <4> QED  BY <1>2, <4>1, Zenon
    <3> QED  BY <2>1, <3>1, <3>2, Zenon
  <2>4. \A x \in Holders : Copied(upload[s], s)[x].receipt = dir[x].receipt
    BY <1>0 DEF Copied, AnyDir
  <2>5. \A x \in Holders : HasOld(x)' => HasOld(x)
    BY <2>1, <2>4, Zenon DEF HasOld
  <2> QED  BY <1>2, <2>1, <2>3, <2>5, MigrationAlone, Zenon
<1>6. ASSUME NEW s \in Holders, RunBegin(s)
      PROVE  MigrationInv'
  <2> DEFINE r == [status |-> IF pinned /\ green THEN "PASS" ELSE "FAIL",
                   evidence |-> [f \in Files |-> IF f \in {Output, Report} THEN runs' ELSE 0], tree |-> anchor]
             u == [Still EXCEPT !.pc = "files", !.left = {Output, Report}, !.of = r]
  <2>1. UNCHANGED <<old, dir, locks, move, upload, closed, cut>> /\ trial' = [trial EXCEPT ![s] = u]
    BY <1>6, Zenon DEF RunBegin, store
  <2>2. r.tree = anchor
    BY Zenon
  <2> HIDE DEF r
  <2>3. u.of = r
    BY <1>0 DEF Writers
  <2> HIDE DEF u
  <2>4. r.tree \in {1, 2} /\ r # Old
    BY <2>2, GivenReceipts DEF ReceiptsTyped
  <2>5. \A x \in Holders : trial'[x].of # Old /\ (trial'[x].pc # "idle" => trial'[x].of.tree \in {1, 2})
    BY <1>0, <1>2, <2>1, <2>3, <2>4, Zenon
  <2> QED  BY <1>2, <2>1, <2>5, MigrationAlone, Zenon DEF HasOld
<1>7. ASSUME NEW s \in Holders, NEW f \in {Output, Report}, RunFile(s, f)
      PROVE  MigrationInv'
  <2>1. /\ UNCHANGED <<old, locks, move, upload, closed, cut>>
        /\ dir' = [dir EXCEPT ![s].made = TRUE, ![s].file[f] = trial[s].of.evidence[f]]
        /\ trial' = [trial EXCEPT ![s].left = @ \ {f}]
    BY <1>7, Zenon DEF RunFile
  <2>2. \A x \in Holders : trial'[x].of = trial[x].of /\ trial'[x].pc = trial[x].pc
    BY <1>0, <2>1 DEF Writers
  <2>3. \A x \in Holders : dir'[x].receipt = dir[x].receipt
    BY <1>0, <2>1 DEF AnyDir
  <2> QED  BY <1>2, <2>1, <2>2, <2>3, MigrationAlone, Zenon DEF HasOld
<1>8. ASSUME NEW s \in Holders, RunDigest(s)
      PROVE  MigrationInv'
  <2> DEFINE e == [f \in Files |-> IF trial[s].of.evidence[f] = 0 THEN 0 ELSE dir[s].file[f]]
  <2>1. /\ UNCHANGED <<old, dir, locks, move, upload, closed, cut>> /\ trial[s].pc = "files"
        /\ trial' = [trial EXCEPT ![s].pc = "receipt", ![s].of.evidence = e]
    BY <1>8 DEF RunDigest, store
  <2> HIDE DEF e
  <2>2. trial'[s].of.tree = trial[s].of.tree /\ \A x \in Holders \ {s} : trial'[x] = trial[x]
    BY <1>0, <2>1 DEF Writers, AnyReceipt
  <2>3. trial'[s].of.tree \in {1, 2}
    BY <1>2, <2>1, <2>2
  <2>4. trial'[s].of # Old
    BY <2>3, GivenReceipts
  <2>5. \A x \in Holders : trial'[x].of # Old /\ (trial'[x].pc # "idle" => trial'[x].of.tree \in {1, 2})
    BY <1>2, <2>2, <2>3, <2>4, Zenon
  <2> QED  BY <1>2, <2>1, <2>5, MigrationAlone, Zenon DEF HasOld
<1>9. ASSUME NEW s \in Holders, RunReceipt(s)
      PROVE  MigrationInv'
  <2>1. /\ UNCHANGED <<old, locks, move, upload, closed, cut>>
        /\ dir' = [dir EXCEPT ![s].receipt = trial[s].of] /\ trial' = Ended(trial, s)
    BY <1>9, Zenon DEF RunReceipt
  <2>2. \A x \in Holders : trial'[x].of # Old /\ (trial'[x].pc # "idle" => trial'[x].of.tree \in {1, 2})
    BY <1>0, <1>2, <2>1, EndedFields
  <2>3. trial[s].of \in AnyReceipt
    BY <1>0 DEF Writers
  <2>4. \A x \in Holders : dir'[x].receipt = Old => dir[x].receipt = Old
    BY <1>2, <2>1, <2>3, ReceiptPut
  <2>5. \A x \in Holders : HasOld(x)' => HasOld(x)
    BY <2>1, <2>4, Zenon DEF HasOld
  <2> QED  BY <1>2, <2>1, <2>2, <2>5, MigrationAlone, Zenon
<1>10. ASSUME NEW s \in Holders, Close(s)
       PROVE  MigrationInv'
  <2>1. /\ UNCHANGED <<old, dir, locks, move, upload, trial, cut>>
        /\ closed' = [closed EXCEPT ![s] = dir[s].receipt]
    BY <1>10, Zenon DEF Close, store
  <2>2. \A x \in Holders : closed'[x] \in {closed[x], dir[x].receipt}
    BY <2>1, Zenon DEF ReceiptsTyped
  <2>3. \A x \in Holders : HasOld(x)' => HasOld(x)
    BY <2>1, <2>2, Zenon DEF HasOld
  <2> QED  BY <1>2, <2>1, <2>3, MigrationAlone, Zenon
<1>11. ASSUME NEW s \in Holders, WriterDies(s)
       PROVE  MigrationInv'
  <2>0. UNCHANGED <<old, dir, closed>>
    BY <1>11, Zenon DEF WriterDies
  <2>1. CASE /\ move[s] # Still /\ move' = Ended(move, s)
             /\ locks' = [locks EXCEPT !["old"] = NotHeld] /\ cut' = (cut \/ Published(s)) /\ UNCHANGED <<upload, trial>>
    <3>1. \A x \in Holders : move'[x] = Still
      <4>1. \A x \in Holders \ {s} : move[x] = Still
        BY <2>1, SoleMover, Zenon
      <4>2. move'[s] = Still /\ \A x \in Holders \ {s} : move'[x] = move[x]
        BY <2>1, EndedFields DEF ReceiptsTyped
      <4> QED  BY <4>1, <4>2, Zenon
    <3>2. ~cut' => ~cut /\ ~Published(s)
      BY <2>1, Zenon
    <3>3. ASSUME ~cut', old # NoReceipt, NEW x \in Holders PROVE ~HasOld(x)
      BY <2>1, <3>2, <3>3, NobodyHasOldYet, Zenon
    <3>4. \A x \in Holders : HasOld(x)' <=> HasOld(x)
      BY <2>0, Zenon DEF HasOld
    <3>5. \A x \in Holders : ~Migrating(x)'
      BY <1>0, <3>1, Zenon DEF Migrating
    <3>6. ~cut' => \A x, y \in Holders : HasOld(x)' /\ HasOld(y)' => x = y
      BY <3>2, <3>4, Zenon DEF MigrationInv
    <3>7. ~cut' => \A x \in Holders : HasOld(x)' => old' = NoReceipt
      BY <2>0, <3>3, <3>4, Zenon
    <3>8. old' \in {Old, NoReceipt}
      BY <2>0, Zenon DEF MigrationInv
    <3> QED  BY <1>2, <2>1, <3>1, <3>5, <3>6, <3>7, <3>8, Zenon DEF MigrationInv
  <2>2. CASE /\ upload' = Ended(upload, s) /\ UNCHANGED <<move, trial, cut>>
             /\ locks' = [locks EXCEPT ![s] = IF locks[s] = "upload" THEN NotHeld ELSE locks[s]]
    <3>1. locks'["old"] = locks["old"]
      BY <1>0, <2>2, Zenon
    <3>2. \A x \in Holders : upload'[x].of # Old
      BY <1>0, <1>2, <2>2, EndedFields
    <3> QED  BY <1>2, <2>0, <2>2, <3>1, <3>2, MigrationAlone, Zenon DEF HasOld
  <2>3. CASE trial' = Ended(trial, s) /\ UNCHANGED <<move, upload, locks, cut>>
    <3>1. \A x \in Holders : trial'[x].of # Old /\ (trial'[x].pc # "idle" => trial'[x].of.tree \in {1, 2})
      <4>1. trial'[s] = Still /\ \A x \in Holders \ {s} : trial'[x] = trial[x]
        BY <1>0, <2>3, EndedFields
      <4> QED  BY <1>0, <1>2, <4>1, Zenon
    <3> QED  BY <1>2, <2>0, <2>3, <3>1, MigrationAlone, Zenon DEF HasOld
  <2> QED  BY <1>11, <2>1, <2>2, <2>3, Zenon DEF WriterDies
<1>12. CASE \/ \E s \in Holders : ToggleEnrollment(s)
            \/ Edit \/ Anchor \/ Register \/ UNCHANGED receiptsVars
  <2>1. UNCHANGED <<old, dir, locks, move, upload, trial, closed, cut>>
    BY <1>12, Zenon DEF ToggleEnrollment, Edit, Anchor, Register, receiptsVars, store
  <2> QED  BY <1>2, <2>1, MigrationAlone, Zenon DEF HasOld
<1> QED
  BY <1>1, <1>3, <1>4, <1>5, <1>6, <1>7, <1>8, <1>9, <1>10, <1>11, <1>12, Zenon DEF ReceiptsNext

\* The invariant of the receipt store, for any sessions, files, receipts, runs
\* and deaths of writers.
THEOREM ReceiptsInvariant == ReceiptsSpec => [](ReceiptsTyped /\ EvidenceInv /\ MigrationInv)
<1>1. ReceiptsInit => ReceiptsTyped /\ EvidenceInv /\ MigrationInv
  <2> SUFFICES ASSUME ReceiptsInit PROVE ReceiptsTyped /\ EvidenceInv /\ MigrationInv
    OBVIOUS
  <2>0. /\ Old \in AnyReceipt /\ NoReceipt \in AnyReceipt /\ Still \in Writers /\ Empty \in AnyDir
        /\ Still.pc = "idle" /\ Still.of = NoReceipt /\ NoReceipt # Old
    BY GivenShape, Zenon DEF Offered
  <2>1. /\ old = Old /\ runs = 0 /\ cut = FALSE /\ anchor = 1
        /\ \A s \in Holders : /\ dir[s] = Empty /\ move[s] = Still /\ upload[s] = Still /\ trial[s] = Still
                              /\ closed[s] = NoReceipt
    BY Zenon DEF ReceiptsInit
  <2>2. ReceiptsTyped
    <3>1. /\ dir \in [Holders -> AnyDir] /\ closed \in [Holders -> AnyReceipt]
          /\ move \in [Holders -> Writers] /\ upload \in [Holders -> Writers] /\ trial \in [Holders -> Writers]
          /\ locks \in [{"old"} \cup Holders -> Holders \cup {"free", "upload"}]
      BY <2>0, Zenon DEF ReceiptsInit, NotHeld
    <3>2. runs \in Nat /\ anchor \in {1, 2} /\ cut \in BOOLEAN
      BY ZenonT(60), <2>1
    <3> QED  BY <2>0, <2>1, <3>1, <3>2, Zenon DEF ReceiptsTyped
  <2>3. Empty.receipt = NoReceipt /\ \A f \in Files : Empty.file[f] = 0
    BY DEF Empty
  <2>4. EvidenceInv
    <3>1. \A r \in Offered : Names(r) \subseteq Files
      BY Zenon DEF Names
    <3>2. Whole(NoReceipt, Empty.file)
      BY NoReceiptNamesNothing, Zenon DEF Whole
    <3>3. ASSUME NEW s \in Holders PROVE SessionSound(s)
      BY <2>0, <2>1, <2>3, <3>1, <3>2, Zenon DEF SessionSound
    <3> QED  BY <2>1, <3>3, Zenon DEF EvidenceInv
  <2>5. MigrationInv
    <3>1. \A s \in Holders : ~HasOld(s) /\ ~Migrating(s)
      BY <2>0, <2>1, <2>3, Zenon DEF HasOld, Migrating
    <3> QED  BY <2>0, <2>1, <3>1, Zenon DEF MigrationInv
  <2> QED  BY <2>2, <2>4, <2>5, Zenon
<1>2. ReceiptsTyped /\ EvidenceInv /\ MigrationInv /\ [ReceiptsNext]_receiptsVars
      => (ReceiptsTyped /\ EvidenceInv /\ MigrationInv)'
  BY ReceiptsTypes, EvidenceStep, MigrationStep, Zenon
<1> QED  BY <1>1, <1>2, PTL DEF ReceiptsSpec

\* For any sessions and receipts: as long as no migration fails or dies after it
\* published, at most one session has or closes on the receipt of the old layout
\* (_migrate_legacy_receipt, the unlink under the old path's lock).
THEOREM OldReceiptProvesOneGoal == ReceiptsSpec => []OldProvesOneGoal
<1>1. MigrationInv => OldProvesOneGoal
  BY Zenon DEF MigrationInv, HasOld, OldProvesOneGoal
<1> QED  BY <1>1, ReceiptsInvariant, PTL

\* For any sessions, uploads and deaths of writers: until a validator runs, a
\* receipt that can be read has all its evidence (ingest_receipt and
\* _migrate_legacy_receipt write the receipt last).
THEOREM StoredReceiptsAreWhole == ReceiptsSpec => []StoredReceiptIsWhole
<1>1. EvidenceInv => StoredReceiptIsWhole
  BY Zenon DEF EvidenceInv, SessionSound, StoredReceiptIsWhole
<1> QED  BY <1>1, ReceiptsInvariant, PTL

-----------------------------------------------------------------------------
Markers == [digest : Docs, gen : Nat, heart : Nat, boot : Nat, complete : BOOLEAN]
Pcs == {"idle", "goals", "marker", "fence", "known", "unknown"}
Work == [pc : Pcs, from : {"", "caller", "observer", "petra"}, sess : SessionRefs \cup {""},
         boot : Nat, given : SUBSET Nat, doc : Docs, mark : Markers]
Answers == [boot : Nat, gen : Nat, doc : Docs]

OwnershipTyped ==
    /\ now \in Nat /\ boot \in Nat
    /\ goals \in Docs /\ marker \in Markers /\ draft \in Markers /\ counter \in Nat
    /\ fence \in [boot : Nat, gen : Nat, digest : Docs]
    /\ prov \in [Providers -> Work]
    /\ answered \in SUBSET Answers

\* Fence f of boot b stands at generation g with document d, or beyond g.
Behind(f, b, g, d) == f.boot = b /\ g <= f.gen /\ (g = f.gen => d = f.digest)

\* Every answer of this boot, and every provider about to give one, is behind the fence; what is
\* at one generation is of one document; and a provider that passed the fence did so with a
\* generation no lower than those answered before its question arrived.
FenceInv ==
    /\ fence.boot <= boot
    /\ \A x \in answered : x.boot <= boot
    /\ \A x \in answered : x.boot = boot => Behind(fence, boot, x.gen, x.doc)
    /\ \A x, y \in answered : x.boot = y.boot /\ x.gen = y.gen => x.doc = y.doc
    /\ \A p \in Providers : prov[p].pc = "known" => Behind(fence, boot, prov[p].mark.gen, prov[p].doc)
    /\ \A p \in Providers : prov[p].pc = "known" =>
         \A x \in answered : x.boot = boot /\ x.gen = prov[p].mark.gen => x.doc = prov[p].doc
    /\ \A p, q \in Providers :
         prov[p].pc = "known" /\ prov[q].pc = "known" /\ prov[p].mark.gen = prov[q].mark.gen =>
             prov[p].doc = prov[q].doc
    /\ \A p \in Providers : \A g \in prov[p].given : fence.boot = boot /\ g <= fence.gen
    /\ \A p \in Providers : prov[p].pc = "known" =>
         \A g \in prov[p].given : prov[p].mark.gen >= g

OwnershipInv == OwnershipTyped /\ FenceInv

\* What FenceInv says of the providers that know, one fact at a time.
LEMMA KnownProviders ==
    ASSUME OwnershipInv, NEW p \in Providers, prov[p].pc = "known"
    PROVE  /\ Behind(fence, boot, prov[p].mark.gen, prov[p].doc)
           /\ \A x \in answered : x.boot = boot /\ x.gen = prov[p].mark.gen => x.doc = prov[p].doc
           /\ \A q \in Providers : prov[q].pc = "known" /\ prov[p].mark.gen = prov[q].mark.gen =>
                prov[p].doc = prov[q].doc
BY Zenon DEF OwnershipInv, FenceInv

\* The values of a provider with nothing to do.
LEMMA NoWorkTyped ==
    /\ NoDoc \in Docs /\ NoMarker \in Markers
    /\ NoWork \in Work /\ NoWork.pc = "idle" /\ NoWork.given = {} /\ NoMarker.complete = FALSE
<1>1. NoDoc \in Docs
  BY OwnershipAssumption DEF NoDoc, Docs
<1>2. NoMarker \in Markers /\ NoMarker.complete = FALSE
  BY Zenon, <1>1 DEF NoMarker, Markers
<1> QED
  BY Zenon, <1>1, <1>2 DEF NoWork, Work, Pcs

\* Before the first call nothing was answered.
LEMMA OwnershipInitHolds == OwnershipInit => OwnershipInv
<1> SUFFICES ASSUME OwnershipInit PROVE OwnershipInv
  BY Zenon
<1>1. fence = NoFence /\ NoFence \in [boot : Nat, gen : Nat, digest : Docs] /\ fence.boot = 0
  BY Zenon, NoWorkTyped DEF OwnershipInit, NoFence
<1>2. OwnershipTyped
  BY Zenon, <1>1, NoWorkTyped DEF OwnershipInit, OwnershipTyped
<1>3. FenceInv
  BY <1>1, NoWorkTyped DEF OwnershipInit, FenceInv
<1> QED
  BY Zenon, <1>2, <1>3 DEF OwnershipInv

\* A step that leaves the boot, the fence and the answers alone, and lets no provider through.
LEMMA QuietStep ==
    ASSUME OwnershipInv, OwnershipTyped', UNCHANGED <<boot, fence, answered>>,
           \A p \in Providers :
               \/ prov'[p] = prov[p]
               \/ prov'[p].pc # "known" /\ prov'[p].given \subseteq prov[p].given \cup Given
    PROVE  OwnershipInv'
<1>1. \A g \in Given : fence.boot = boot /\ g <= fence.gen
  BY Zenon DEF OwnershipInv, FenceInv, Given, Behind
<1>2. FenceInv'
  BY <1>1 DEF OwnershipInv, FenceInv, Behind
<1> QED
  BY Zenon, <1>2 DEF OwnershipInv

\* The clock and the goal files move without the services.
LEMMA OutsideKeeps ==
    ASSUME OwnershipInv, Outside PROVE OwnershipInv' /\ UNCHANGED services
<1>1. UNCHANGED <<boot, fence, prov, inst, answered>>
  BY Zenon DEF Outside, Tick, WriteGoals, BuildMarker, PublishMarker, ManagerRestarts, services
<1>2. OwnershipTyped'
  <2>1. CASE Tick
    BY <1>1, <2>1 DEF Tick, OwnershipInv, OwnershipTyped, ownedFiles
  <2>2. ASSUME NEW d \in Docs, WriteGoals(d) PROVE OwnershipTyped'
    BY Zenon, <1>1, <2>2 DEF WriteGoals, OwnershipInv, OwnershipTyped
  <2>3. ASSUME NEW complete \in BOOLEAN, BuildMarker(complete) PROVE OwnershipTyped'
    <3> DEFINE again == counter # 0 /\ marker.digest = goals /\ marker.gen = counter
               gen == IF again THEN counter ELSE counter + 1
    <3>1. gen \in Nat /\ counter' = gen /\ UNCHANGED <<now, goals, marker>>
          /\ draft' = [digest |-> goals, gen |-> gen, heart |-> now, boot |-> boot, complete |-> complete]
      BY <2>3 DEF BuildMarker, OwnershipInv, OwnershipTyped
    <3> HIDE DEF gen
    <3>2. draft' \in Markers
      BY Zenon, <3>1 DEF Markers, OwnershipInv, OwnershipTyped
    <3> QED
      BY Zenon, <1>1, <3>1, <3>2 DEF OwnershipInv, OwnershipTyped
  <2>4. CASE PublishMarker
    BY Zenon, <1>1, <2>4, NoWorkTyped DEF PublishMarker, OwnershipInv, OwnershipTyped
  <2>5. CASE ManagerRestarts
    BY Zenon, <1>1, <2>5, NoWorkTyped DEF ManagerRestarts, OwnershipInv, OwnershipTyped
  <2> QED
    BY Zenon, <2>1, <2>2, <2>3, <2>4, <2>5 DEF Outside
<1> QED
  BY Zenon, <1>1, <1>2, QuietStep DEF services

\* One provider changes, the files stay.
LEMMA ProviderTyped ==
    ASSUME OwnershipInv, NEW p \in Providers, NEW x \in Work, Does(p, x),
           UNCHANGED <<now, boot, ownedFiles, fence, answered>>
    PROVE  OwnershipTyped' /\ prov'[p] = x /\ \A q \in Providers \ {p} : prov'[q] = prov[q]
  BY Zenon DEF Does, OwnershipInv, OwnershipTyped, ownedFiles

\* A provider takes a call.
LEMMA AcceptKeeps ==
    ASSUME OwnershipInv, NEW p \in Providers, NEW from \in {"caller", "observer", "petra"},
           NEW s \in SessionRefs \cup {""}, NEW b \in Nat, Accept(p, from, s, b),
           UNCHANGED <<now, boot, ownedFiles, fence, answered>>
    PROVE  OwnershipInv'
<1> DEFINE x == [NoWork EXCEPT !.pc = "goals", !.from = from, !.sess = s, !.boot = b, !.given = Given]
<1>1. Given \in SUBSET Nat
  <2>1. \A y \in answered : y.gen \in Nat
    BY Zenon DEF OwnershipInv, OwnershipTyped, Answers
  <2> QED
    BY Zenon, <2>1 DEF Given
<1>2. x \in Work /\ x.pc = "goals" /\ x.given = Given
  BY Zenon, <1>1, NoWorkTyped DEF Work, Pcs
<1>3. Does(p, x)
  BY Zenon DEF Accept
<1> HIDE DEF x
<1> QED
  BY Zenon, <1>2, <1>3, ProviderTyped, QuietStep

\* A provider reads, writes its marker and drafts its answer.
LEMMA ProviderStepKeeps ==
    ASSUME OwnershipInv, NEW p \in Providers, ProviderStep(p)
    PROVE  OwnershipInv'
<1>a. prov[p] \in Work
  BY Zenon DEF OwnershipInv, OwnershipTyped
<1>1. CASE ReadGoals(p)
  <2> DEFINE x == [prov[p] EXCEPT !.pc = "marker", !.doc = goals]
  <2>1. x \in Work /\ x.pc = "marker" /\ x.given = prov[p].given
    BY Zenon, <1>a DEF Work, Pcs, OwnershipInv, OwnershipTyped
  <2>2. Does(p, x) /\ UNCHANGED <<now, boot, ownedFiles, fence, answered>>
    BY Zenon, <1>1 DEF ReadGoals
  <2> HIDE DEF x
  <2> QED
    BY Zenon, <2>1, <2>2, ProviderTyped, QuietStep
<1>2. CASE ReadMarker(p)
  <2> DEFINE x == [prov[p] EXCEPT !.mark = marker,
                                  !.pc = IF MarkedDoc(prov[p].doc, marker) THEN "fence" ELSE "unknown"]
  <2>1. x \in Work /\ x.pc \in {"fence", "unknown"} /\ x.given = prov[p].given
    BY Zenon, <1>a DEF Work, Pcs, OwnershipInv, OwnershipTyped
  <2>2. Does(p, x) /\ UNCHANGED <<now, boot, ownedFiles, fence, answered>>
    BY Zenon, <1>2 DEF ReadMarker
  <2> HIDE DEF x
  <2> QED
    BY Zenon, <2>1, <2>2, ProviderTyped, QuietStep
<1>3. ASSUME Does(p, [prov[p] EXCEPT !.pc = "unknown"]), UNCHANGED <<now, boot, ownedFiles, fence, answered>>
      PROVE  OwnershipInv'
  <2> DEFINE x == [prov[p] EXCEPT !.pc = "unknown"]
  <2>1. x \in Work /\ x.pc = "unknown" /\ x.given = prov[p].given
    BY Zenon, <1>a DEF Work, Pcs
  <2>2. Does(p, x)
    BY Zenon, <1>3
  <2> HIDE DEF x
  <2> QED
    BY Zenon, <1>3, <2>1, <2>2, ProviderTyped, QuietStep
<1>4. CASE ReadFails(p)
  BY Zenon, <1>3, <1>4 DEF ReadFails
<1>5. CASE EnforceFence(p)
  <2> DEFINE m == prov[p].mark
             d == prov[p].doc
             stands == fence.boot = boot /\ fence.gen = m.gen
             x == [prov[p] EXCEPT !.pc = "known"]
  <2>1. UNCHANGED <<now, boot, ownedFiles, answered>>
    BY Zenon, <1>5 DEF EnforceFence
  <2>2. CASE Does(p, [prov[p] EXCEPT !.pc = "unknown"]) /\ UNCHANGED fence
    BY Zenon, <1>3, <2>1, <2>2
  <2>3. CASE MayPass(m, d) /\ Does(p, x)
             /\ fence' = IF stands THEN fence ELSE [boot |-> boot, gen |-> m.gen, digest |-> d]
    <3>1. x \in Work /\ x.pc = "known" /\ x.given = prov[p].given /\ x.mark = m /\ x.doc = d
      BY Zenon, <1>a DEF Work, Pcs
    <3>2. m.gen \in Nat /\ d \in Docs /\ fence.gen \in Nat
      BY Zenon, <1>a DEF Work, Markers, OwnershipInv, OwnershipTyped
    <3>3. prov'[p] = x /\ \A q \in Providers \ {p} : prov'[q] = prov[q]
      BY Zenon, <2>3 DEF Does, OwnershipInv, OwnershipTyped
    <3>4. fence' \in [boot : Nat, gen : Nat, digest : Docs]
      BY Zenon, <2>3, <3>2 DEF OwnershipInv, OwnershipTyped
    <3>5. OwnershipTyped'
      <4> HIDE DEF x
      <4> QED
        BY Zenon, <2>1, <2>3, <3>1, <3>4 DEF Does, OwnershipInv, OwnershipTyped, ownedFiles
    <3>6. /\ fence'.boot = boot /\ fence'.gen = m.gen /\ fence'.digest = d
          /\ fence.boot = boot => fence.gen < m.gen \/ (fence.gen = m.gen /\ fence.digest = d)
      BY <2>3, <3>2 DEF MayPass
    <3>7. ASSUME NEW g \in Nat, NEW e, Behind(fence, boot, g, e)
          PROVE  Behind(fence', boot', g, e) /\ (g = m.gen => e = d)
      BY <2>1, <3>2, <3>6, <3>7 DEF Behind
    <3>8. \A q \in Providers : prov[q] \in Work /\ prov[q].mark.gen \in Nat /\ prov[q].given \in SUBSET Nat
      BY Zenon DEF OwnershipInv, OwnershipTyped, Work, Markers
    <3>9. \A y \in answered : y.gen \in Nat /\ y.boot \in Nat
      BY Zenon DEF OwnershipInv, OwnershipTyped, Answers
    <3>10. Behind(fence', boot', m.gen, d)
      BY <2>1, <3>2, <3>6 DEF Behind
    <3> HIDE DEF x, m, d, stands
    <3>11. FenceInv'
      <4>1. fence'.boot <= boot' /\ (\A y \in answered' : y.boot <= boot')
        BY <2>1, <3>6 DEF OwnershipInv, OwnershipTyped, FenceInv
      <4>2. \A y \in answered' : y.boot = boot' => Behind(fence', boot', y.gen, y.doc)
        BY Zenon, <2>1, <3>7, <3>9 DEF OwnershipInv, FenceInv
      <4>3. \A y, z \in answered' : y.boot = z.boot /\ y.gen = z.gen => y.doc = z.doc
        BY Zenon, <2>1 DEF OwnershipInv, FenceInv
      <4>4. \A q \in Providers : prov'[q].pc = "known" => Behind(fence', boot', prov'[q].mark.gen, prov'[q].doc)
        <5> SUFFICES ASSUME NEW q \in Providers, prov'[q].pc = "known"
                     PROVE  Behind(fence', boot', prov'[q].mark.gen, prov'[q].doc)
          BY Zenon
        <5>1. CASE q = p
          BY Zenon, <5>1, <3>1, <3>3, <3>10
        <5>2. CASE q # p
          BY <5>2, <3>3, <3>7, <3>8 DEF OwnershipInv, FenceInv
        <5> QED
          BY Zenon, <5>1, <5>2
      <4>5. \A q \in Providers : prov'[q].pc = "known" =>
              \A y \in answered' : y.boot = boot' /\ y.gen = prov'[q].mark.gen => y.doc = prov'[q].doc
        <5> SUFFICES ASSUME NEW q \in Providers, prov'[q].pc = "known", NEW y \in answered,
                            y.boot = boot, y.gen = prov'[q].mark.gen
                     PROVE  y.doc = prov'[q].doc
          BY Zenon, <2>1
        <5>1. CASE q = p
          <6>1. y.gen \in Nat /\ Behind(fence, boot, y.gen, y.doc)
            BY Zenon, <3>9 DEF OwnershipInv, FenceInv
          <6>2. y.gen = m.gen => y.doc = d
            BY Zenon, <3>7, <6>1
          <6> QED  BY Zenon, <5>1, <3>1, <3>3, <6>2
        <5>2. CASE q # p
          <6>1. prov'[q] = prov[q]
            BY Zenon, <5>2, <3>3
          <6> QED  BY Zenon, <6>1, KnownProviders
        <5> QED
          BY Zenon, <5>1, <5>2
      <4>6. \A q, r \in Providers :
              prov'[q].pc = "known" /\ prov'[r].pc = "known" /\ prov'[q].mark.gen = prov'[r].mark.gen =>
                  prov'[q].doc = prov'[r].doc
        <5>1. ASSUME NEW q \in Providers, q # p, prov'[q].pc = "known", prov'[q].mark.gen = m.gen
              PROVE  prov'[q].doc = d
          BY <5>1, <3>3, <3>7, <3>8 DEF OwnershipInv, FenceInv
        <5>2. prov'[p].mark.gen = m.gen /\ prov'[p].doc = d
          BY Zenon, <3>1, <3>3
        <5> QED
          <6> SUFFICES ASSUME NEW q \in Providers, NEW r \in Providers, prov'[q].pc = "known",
                              prov'[r].pc = "known", prov'[q].mark.gen = prov'[r].mark.gen
                       PROVE  prov'[q].doc = prov'[r].doc
            BY Zenon
          <6>1. CASE q # p /\ r # p
            <7>1. prov'[q] = prov[q] /\ prov'[r] = prov[r]
              BY Zenon, <6>1, <3>3
            <7> QED  BY Zenon, <7>1, KnownProviders
          <6>2. CASE q = p \/ r = p
            BY Zenon, <5>1, <5>2, <6>2
          <6> QED  BY Zenon, <6>1, <6>2
      <4>7. \A q \in Providers : prov'[q].given = prov[q].given
        BY Zenon, <3>1, <3>3
      <4>8. \A q \in Providers : \A g \in prov'[q].given : fence'.boot = boot' /\ g <= fence'.gen
        BY <2>1, <3>2, <3>6, <3>8, <4>7 DEF OwnershipInv, FenceInv
      <4>9. \A q \in Providers : prov'[q].pc = "known" =>
              \A g \in prov'[q].given : prov'[q].mark.gen >= g
        <5>1. \A g \in prov'[p].given : prov'[p].mark.gen >= g
          BY Zenon, <3>1, <3>2, <3>3, <3>6, <3>8, <4>7, <4>8
        <5> QED
          BY Zenon, <5>1, <3>3 DEF OwnershipInv, FenceInv
      <4> QED
        BY Zenon, <4>1, <4>2, <4>3, <4>4, <4>5, <4>6, <4>8, <4>9 DEF FenceInv
    <3> QED
      BY Zenon, <3>5, <3>11 DEF OwnershipInv
  <2> QED
    BY Zenon, <1>5, <2>2, <2>3 DEF EnforceFence
<1> QED
  BY Zenon, <1>1, <1>2, <1>4, <1>5 DEF ProviderStep

\* An answer leaves the provider.
LEMMA AnswerKeeps ==
    ASSUME OwnershipInv, NEW p \in Providers, Answer(p)
    PROVE  OwnershipInv'
<1> DEFINE new == [boot |-> boot, gen |-> prov[p].mark.gen, doc |-> prov[p].doc]
<1>1. /\ Does(p, NoWork) /\ UNCHANGED <<now, boot, ownedFiles, fence>>
      /\ \/ UNCHANGED answered
         \/ prov[p].pc = "known" /\ answered' = answered \cup {new}
  BY Zenon DEF Answer, Result
<1>2. CASE UNCHANGED answered
  BY Zenon, <1>1, <1>2, NoWorkTyped, ProviderTyped, QuietStep
<1>3. CASE prov[p].pc = "known" /\ answered' = answered \cup {new}
  <2>1. new \in Answers /\ new.boot = boot /\ new.gen = prov[p].mark.gen /\ new.doc = prov[p].doc
    BY Zenon DEF Answers, OwnershipInv, OwnershipTyped, Work, Markers
  <2>2. prov'[p] = NoWork /\ \A q \in Providers \ {p} : prov'[q] = prov[q]
    BY Zenon, <1>1 DEF Does, OwnershipInv, OwnershipTyped
  <2> HIDE DEF new
  <2>3. OwnershipTyped'
    BY Zenon, <1>1, <1>3, <2>1, NoWorkTyped DEF Does, OwnershipInv, OwnershipTyped, ownedFiles
  <2>4. \A q \in Providers : prov'[q].pc = "known" => q # p
    BY ZenonT(60), <2>2, NoWorkTyped
  <2>5. FenceInv'
    <3>a. boot' = boot /\ fence' = fence /\ answered' = answered \cup {new} /\ FenceInv /\ boot \in Nat
      BY Zenon, <1>1, <1>3 DEF OwnershipInv, OwnershipTyped
    <3>b. boot <= boot
      BY <3>a
    <3>c. /\ Behind(fence, boot, new.gen, new.doc)
          /\ \A y \in answered : y.boot = boot /\ y.gen = new.gen => y.doc = new.doc
          /\ \A q \in Providers : prov[q].pc = "known" /\ prov[q].mark.gen = new.gen => new.doc = prov[q].doc
      BY Zenon, <1>3, <2>1, KnownProviders
    <3>1. fence'.boot <= boot' /\ (\A y \in answered' : y.boot <= boot')
      BY Zenon, <2>1, <3>a, <3>b DEF FenceInv
    <3>2. \A y \in answered' : y.boot = boot' => Behind(fence', boot', y.gen, y.doc)
      BY Zenon, <3>a, <3>c DEF FenceInv
    <3>3. \A y, z \in answered' : y.boot = z.boot /\ y.gen = z.gen => y.doc = z.doc
      BY ZenonT(60), <2>1, <3>a, <3>c DEF FenceInv
    <3>4. \A q \in Providers : prov'[q].pc = "known" => Behind(fence', boot', prov'[q].mark.gen, prov'[q].doc)
      BY Zenon, <2>2, <2>4, <3>a DEF FenceInv
    <3>5. \A q \in Providers : prov'[q].pc = "known" =>
            \A y \in answered' : y.boot = boot' /\ y.gen = prov'[q].mark.gen => y.doc = prov'[q].doc
      <4> SUFFICES ASSUME NEW q \in Providers, prov'[q].pc = "known", NEW y \in answered',
                          y.boot = boot', y.gen = prov'[q].mark.gen
                   PROVE  y.doc = prov'[q].doc
        BY Zenon
      <4>1. prov'[q] = prov[q] /\ prov[q].pc = "known"
        BY Zenon, <2>2, <2>4
      <4>2. CASE y \in answered
        BY Zenon, <3>a, <4>1, <4>2, KnownProviders
      <4>3. CASE y = new
        BY Zenon, <3>c, <4>1, <4>3
      <4> QED
        BY Zenon, <3>a, <4>2, <4>3
    <3>6. \A q, r \in Providers :
            prov'[q].pc = "known" /\ prov'[r].pc = "known" /\ prov'[q].mark.gen = prov'[r].mark.gen =>
                prov'[q].doc = prov'[r].doc
      <4> SUFFICES ASSUME NEW q \in Providers, NEW r \in Providers, prov'[q].pc = "known",
                          prov'[r].pc = "known", prov'[q].mark.gen = prov'[r].mark.gen
                   PROVE  prov'[q].doc = prov'[r].doc
        BY Zenon
      <4>1. prov'[q] = prov[q] /\ prov'[r] = prov[r]
        BY Zenon, <2>2, <2>4
      <4> QED
        BY Zenon, <4>1, KnownProviders
    <3>7. \A q \in Providers : \A g \in prov'[q].given : fence'.boot = boot' /\ g <= fence'.gen
      BY Zenon, <1>1, <2>2, NoWorkTyped DEF OwnershipInv, FenceInv
    <3>8. \A q \in Providers : prov'[q].pc = "known" =>
            \A g \in prov'[q].given : prov'[q].mark.gen >= g
      BY Zenon, <2>2, <2>4 DEF OwnershipInv, FenceInv
    <3> QED
      BY Zenon, <3>1, <3>2, <3>3, <3>4, <3>5, <3>6, <3>7, <3>8 DEF FenceInv
  <2> QED
    BY Zenon, <2>3, <2>5 DEF OwnershipInv
<1> QED
  BY Zenon, <1>1, <1>2, <1>3

\* A provider restarts and reads its marker back.
LEMMA ProviderRestartsKeeps ==
    ASSUME OwnershipInv, NEW p \in Providers, ProviderRestarts(p)
    PROVE  OwnershipInv'
  BY Zenon, NoWorkTyped, ProviderTyped, QuietStep DEF ProviderRestarts

\* The host reboots, and every provider with it.
LEMMA RebootKeeps == ASSUME OwnershipInv, Reboot PROVE OwnershipInv'
<1>1. /\ boot' = boot + 1 /\ UNCHANGED <<now, goals, marker, fence, answered>>
      /\ draft' = NoMarker /\ counter' = 0 /\ prov' = [p \in Providers |-> NoWork]
  BY ZenonT(60) DEF Reboot
<1>2. OwnershipTyped'
  BY <1>1, NoWorkTyped DEF OwnershipInv, OwnershipTyped
<1>3. FenceInv'
  <2>1. \A q \in Providers : prov'[q].pc # "known" /\ prov'[q].given = {}
    BY Zenon, <1>1, NoWorkTyped
  <2>2. boot \in Nat /\ fence.boot \in Nat /\ fence.boot <= boot
        /\ \A y \in answered : y.boot \in Nat /\ y.boot <= boot
    BY Zenon DEF OwnershipInv, OwnershipTyped, FenceInv, Answers
  <2>3. fence'.boot <= boot' /\ (\A y \in answered' : y.boot <= boot' /\ y.boot # boot')
    BY <1>1, <2>2
  <2>4. \A y, z \in answered' : y.boot = z.boot /\ y.gen = z.gen => y.doc = z.doc
    BY Zenon, <1>1 DEF OwnershipInv, FenceInv
  <2> QED
    BY Zenon, <2>1, <2>3, <2>4 DEF FenceInv
<1> QED
  BY Zenon, <1>2, <1>3 DEF OwnershipInv

\* Every step preserves the invariant.
LEMMA OwnershipStep == OwnershipInv /\ [OwnershipNext]_ownership => OwnershipInv'
<1> SUFFICES ASSUME OwnershipInv, [OwnershipNext]_ownership PROVE OwnershipInv'
  BY Zenon
<1>1. ASSUME NEW p \in Providers, NEW s \in SessionRefs, NEW b \in 1 .. boot, Query(p, "caller", s, b)
      PROVE  OwnershipInv'
  <2>1. b \in Nat
    BY DEF OwnershipInv, OwnershipTyped
  <2> QED
    BY Zenon, <1>1, <2>1, AcceptKeeps DEF Query
<1>2. CASE UNCHANGED ownership
  BY Zenon, <1>2, QuietStep DEF ownership, services, ownedFiles, OwnershipInv, OwnershipTyped
<1> QED
  BY Zenon, <1>1, <1>2, OutsideKeeps, RebootKeeps, ProviderStepKeeps, AnswerKeeps, ProviderRestartsKeeps
     DEF OwnershipNext

\* The invariant implies the property.
LEMMA OwnershipInvIsHistory == OwnershipInv => AnswersFollowOneHistory
  BY Zenon DEF OwnershipInv, OwnershipTyped, FenceInv, AnswersFollowOneHistory

\* For any sessions, any number of providers behind one fence file and any number of writes,
\* restarts and reboots: within a boot the authoritative answers of one generation come from one
\* document, and generations are not answered backwards (_enforce_generation_fence).
THEOREM OwnershipAnswersFollowOneHistory == OwnershipSpec => []AnswersFollowOneHistory
<1>1. OwnershipSpec => []OwnershipInv
  BY OwnershipInitHolds, OwnershipStep, PTL DEF OwnershipSpec
<1> QED
  BY <1>1, OwnershipInvIsHistory, PTL

-----------------------------------------------------------------------------
\* A set of places in a list of at most 8 checks that is not empty has its least element.
LEMMA FirstOfFew ==
    ASSUME NEW S \in SUBSET (1 .. 8), S # {}
    PROVE  Min(S) \in S
<1>1. \E x \in S : \A y \in S : x <= y
  <2> SUFFICES ASSUME \A x \in S : \E y \in S : y < x PROVE FALSE
    OBVIOUS
  <2>1. ASSUME NEW n \in 1 .. 8, S \subseteq n .. 8 PROVE S \subseteq (n + 1) .. 8
    BY <2>1
  <2>2. S \subseteq 2 .. 8
    BY <2>1
  <2>3. S \subseteq 3 .. 8
    BY <2>1, <2>2
  <2>4. S \subseteq 4 .. 8
    BY <2>1, <2>3
  <2>5. S \subseteq 5 .. 8
    BY <2>1, <2>4
  <2>6. S \subseteq 6 .. 8
    BY <2>1, <2>5
  <2>7. S \subseteq 7 .. 8
    BY <2>1, <2>6
  <2>8. S \subseteq 8 .. 8
    BY <2>1, <2>7
  <2>9. S \subseteq 9 .. 8
    BY <2>1, <2>8
  <2>10. \A x : x \notin 9 .. 8
    OBVIOUS
  <2> QED
    BY Zenon, <2>9, <2>10
<1> QED
  BY Zenon, <1>1 DEF Min

\* A verdict is "ok" when no check is raised, and else the name of one that is.
LEMMA FirstOfIsRaised ==
    ASSUME NEW n \in 1 .. 8, NEW checks, DOMAIN checks = 1 .. n
    PROVE  \/ FirstOf(checks) = "ok" /\ \A i \in 1 .. n : ~checks[i][1]
           \/ \E i \in 1 .. n : checks[i][1] /\ FirstOf(checks) = checks[i][2]
<1> DEFINE raised == {i \in DOMAIN checks : checks[i][1]}
<1>1. raised \in SUBSET (1 .. 8)
  OBVIOUS
<1>2. raised # {} => Min(raised) \in raised
  <2> HIDE DEF raised
  <2> QED
    BY Zenon, <1>1, FirstOfFew
<1>3. FirstOf(checks) = IF raised = {} THEN "ok" ELSE checks[Min(raised)][2]
  BY Zenon DEF FirstOf
<1> QED
  BY Zenon, <1>2, <1>3

\* validate_ownership_fence makes eight checks.
LEMMA EightLong ==
    ASSUME NEW a, NEW b, NEW c, NEW d, NEW e, NEW f, NEW g, NEW h
    PROVE  DOMAIN <<a, b, c, d, e, f, g, h>> = 1 .. 8
OBVIOUS

FenceCodes ==
    {"ownership_not_authoritative", "ownership_not_ready", "ownership_not_owned",
     "ownership_instance_mismatch", "ownership_generation_mismatch", "ownership_unavailable",
     "ownership_expired"}

\* What validate_ownership_fence has established when it accepts.
LEMMA FenceVerdictSays ==
    ASSUME NEW o, NEW a
    PROVE  /\ FenceVerdict(o, a) \in FenceCodes \cup {"ok"}
           /\ FenceVerdict(o, a) = "ok" =>
                /\ a.version # 0 /\ a.version = o.cites.version
                /\ ~(now - a.heart > MaxAge)
<1> DEFINE c == FenceChecks(o, a)
<1>0. DOMAIN c = 1 .. 8
  <2> DEFINE b(i) == c[i]
  <2>1. c = <<b(1), b(2), b(3), b(4), b(5), b(6), b(7), b(8)>>
    BY Zenon DEF FenceChecks
  <2> HIDE DEF b, c
  <2> QED  BY <2>1, EightLong
<1>1. /\ DOMAIN c = 1 .. 8
      /\ c[1][2] \in FenceCodes /\ c[2][2] \in FenceCodes /\ c[3][2] \in FenceCodes /\ c[4][2] \in FenceCodes
      /\ c[5][2] \in FenceCodes /\ c[6][2] \in FenceCodes /\ c[7][2] \in FenceCodes /\ c[8][2] \in FenceCodes
  BY <1>0, Zenon DEF FenceChecks, FenceCodes
<1>2. /\ c[3][1] <=> a.version = 0
      /\ c[5][1] <=> a.version # o.cites.version \/ a.gen # o.cites.gen
      /\ c[7][1] <=> now - a.heart > MaxAge
  BY Zenon DEF FenceChecks
<1> HIDE DEF c
<1>3. \/ FirstOf(c) = "ok" /\ \A i \in 1 .. 8 : ~c[i][1]
      \/ \E i \in 1 .. 8 : c[i][1] /\ FirstOf(c) = c[i][2]
  BY SMT, <1>1, FirstOfIsRaised
<1>4. \A i \in 1 .. 8 : c[i][2] \in FenceCodes
  BY <1>1
<1>5. "ok" \notin FenceCodes
  BY Zenon DEF FenceCodes
<1>6. FenceVerdict(o, a) = FirstOf(c)
  BY Zenon DEF FenceVerdict, c
<1> QED
  BY <1>2, <1>3, <1>4, <1>5, <1>6

\* What record_observation's transaction has found.
LEMMA LedgerVerdictSays ==
    ASSUME NEW o
    PROVE  LET v == FirstOf(LedgerChecks(o))
           IN  /\ v \in {"ok", "conflicting_duplicate", "duplicate", "ledger_capacity"}
               /\ v = "ok" => \A r \in rows : r.obs.id # o.id
               /\ v = "duplicate" => \E r \in rows : r.obs = o
<1> DEFINE c == LedgerChecks(o)
<1>1. /\ DOMAIN c = 1 .. 3
      /\ c[1][2] = "conflicting_duplicate" /\ c[2][2] = "duplicate" /\ c[3][2] = "ledger_capacity"
      /\ c[1][1] <=> \E r \in rows : r.obs.id = o.id /\ r.obs # o
      /\ c[2][1] <=> \E r \in rows : r.obs = o
  BY DEF LedgerChecks
<1> HIDE DEF c
<1>2. \/ FirstOf(c) = "ok" /\ \A i \in 1 .. 3 : ~c[i][1]
      \/ \E i \in 1 .. 3 : c[i][1] /\ FirstOf(c) = c[i][2]
  BY SMT, <1>1, FirstOfIsRaised
<1>3. /\ FirstOf(c) \in {"ok", "conflicting_duplicate", "duplicate", "ledger_capacity"}
      /\ FirstOf(c) = "ok" => ~c[1][1] /\ ~c[2][1]
      /\ FirstOf(c) = "duplicate" => c[2][1]
  BY <1>1, <1>2
<1> QED
  BY Zenon, <1>1, <1>3 DEF c

-----------------------------------------------------------------------------
Instances == (Providers \X Nat) \cup {<<>>}
Citations == [sess : SessionRefs \cup {""}, boot : Nat, inst : Instances, version : Nat, gen : Nat]
ObservationSet == [id : EventIds \cup {""}, cites : Citations, at : Nat, expires : Nat]
FenceAnswers == [sess : SessionRefs \cup {""}, boot : Nat, inst : Instances, at : Nat, until : Nat,
                 schema : {AnswerSchema, ""}, sure : BOOLEAN, gen : Nat, heart : Nat, version : Nat]
Verdicts == FenceCodes \cup
    {"", "accepted", "duplicate", "conflicting_duplicate", "ledger_capacity", "ledger_unavailable",
     "expired_observation"}
Cases == [pc : {"idle", "asking", "waiting", "answered", "done"}, obs : ObservationSet,
          to : Providers \cup {""}, ans : FenceAnswers, verdict : Verdicts]

PetraTyped ==
    /\ inst \in [Providers -> Nat]
    /\ sent \in SUBSET ObservationSet
    /\ petra \in Cases
    /\ now \in 0 .. MaxTime
    /\ past \in [0 .. MaxTime -> SUBSET Docs]

\* goals.json held what marker m was built from, at the time m says.
Marked(m, h) == m.heart \in 0 .. MaxTime /\ m.digest \in h[m.heart]

\* What the markers and the providers hold was in goals.json at the heartbeat they carry.
PastInv ==
    /\ goals \in past[now]
    /\ draft.complete => Marked(draft, past)
    /\ marker.complete => Marked(marker, past)
    /\ \A p \in Providers : prov[p].pc \in {"fence", "known"} =>
         prov[p].mark.digest = prov[p].doc /\ Marked(prov[p].mark, past)

\* The session had this goal version when the heartbeat was taken.
Grounded(h, heart, sess, version) ==
    heart \in 0 .. MaxTime /\ \E d \in h[heart] : d[sess] = version

Waits ==
    petra.pc = "waiting" =>
        /\ petra.to \in Providers
        /\ prov[petra.to].from = "petra" /\ prov[petra.to].pc # "idle"
        /\ prov[petra.to].sess = petra.obs.cites.sess

CaseIsGrounded ==
    petra.pc = "answered" =>
        /\ petra.ans.sess = petra.obs.cites.sess
        /\ petra.ans.version # 0 =>
             Grounded(past, petra.ans.heart, petra.ans.sess, petra.ans.version)

CaseIsRecorded ==
    petra.pc = "done" /\ petra.verdict \in {"accepted", "duplicate"} =>
        \E r \in rows : r.obs = petra.obs

RowsAreGrounded ==
    \A r \in rows :
        /\ r.at < r.obs.expires
        /\ r.at - r.ans.heart <= MaxAge
        /\ Grounded(past, r.ans.heart, r.obs.cites.sess, r.obs.cites.version)
        /\ r.obs.cites.version # 0

LedgerInv ==
    /\ RowsAreGrounded
    /\ \A q, r \in rows : q.obs.id = r.obs.id => q = r
    /\ outbox = {r.obs.id : r \in rows}
    /\ health.ready => \E r \in rows : r.obs.cites.inst = health.inst /\ r.obs.cites.gen = health.gen

\* Whoever is at work works for a session.
SessionsNamed ==
    /\ \A p \in Providers : prov[p].pc # "idle" => prov[p].sess \in SessionRefs
    /\ \A o \in sent : o.cites.sess \in SessionRefs
    /\ petra.pc # "idle" => petra.obs.cites.sess \in SessionRefs

PetraInv ==
    OwnershipInv /\ PetraTyped /\ SessionsNamed /\ PastInv /\ Waits /\ CaseIsGrounded /\ CaseIsRecorded /\ LedgerInv

\* The invariant implies the property.
LEMMA PetraInvIsGrounded == PetraInv => RecordsAreGrounded
<1> SUFFICES ASSUME PetraInv PROVE RecordsAreGrounded
  BY Zenon
<1>1. \A r \in rows :
        /\ r.at < r.obs.expires
        /\ r.at - r.ans.heart <= MaxAge
        /\ \E d \in past[r.ans.heart] : d[r.obs.cites.sess] = r.obs.cites.version /\ r.obs.cites.version # 0
  BY Zenon DEF PetraInv, LedgerInv, RowsAreGrounded, Grounded
<1> QED
  BY Zenon, <1>1 DEF PetraInv, LedgerInv, RecordsAreGrounded

\* The values of an idle Petra.
LEMMA NothingTyped ==
    /\ NoObservation \in ObservationSet /\ NoFenceAnswer \in FenceAnswers
    /\ NoCase \in Cases /\ NoCase.pc = "idle" /\ NotReady.ready = FALSE
<1>1. NoCitation \in Citations
  BY Zenon DEF NoCitation, Citations, Instances
<1>2. NoObservation \in ObservationSet
  BY Zenon, <1>1 DEF NoObservation, ObservationSet
<1>3. NoFenceAnswer \in FenceAnswers
  BY Zenon DEF NoFenceAnswer, FenceAnswers, Instances
<1>4. NoCase \in Cases /\ NoCase.pc = "idle"
  BY Zenon, <1>2, <1>3 DEF NoCase, Cases, Verdicts
<1> QED
  BY Zenon, <1>2, <1>3, <1>4 DEF NotReady

\* Before the first case there are no records.
LEMMA PetraInitHolds == PetraInit => PetraInv
<1> SUFFICES ASSUME PetraInit PROVE PetraInv
  BY Zenon
<1>1. OwnershipInv
  BY Zenon, OwnershipInitHolds DEF PetraInit
<1>2. PetraTyped
  BY <1>1, NothingTyped, OwnershipAssumption
     DEF PetraInit, OwnershipInit, LedgerInit, PetraTyped, OwnershipInv, OwnershipTyped
<1>3. PastInv
  BY NoWorkTyped, OwnershipAssumption DEF PetraInit, OwnershipInit, LedgerInit, PastInv
<1>4. petra.pc = "idle" /\ rows = {} /\ outbox = {} /\ health.ready = FALSE
  BY Zenon, NothingTyped DEF PetraInit, LedgerInit
<1>5. SessionsNamed
  BY Zenon, <1>4, NoWorkTyped DEF SessionsNamed, PetraInit, OwnershipInit, LedgerInit
<1> QED
  BY Zenon, <1>1, <1>2, <1>3, <1>4, <1>5
     DEF PetraInv, Waits, CaseIsGrounded, CaseIsRecorded, LedgerInv, RowsAreGrounded

\* What was in goals.json at some time stays recorded in the history.
Grows == \A t \in 0 .. MaxTime : past[t] \subseteq past'[t]

\* What was marked once stays in the history.
LEMMA MarkedGrows == ASSUME Grows, NEW m, Marked(m, past) PROVE Marked(m, past')
  BY Zenon DEF Grows, Marked

\* Records stay grounded while the history only grows.
LEMMA LedgerGrows ==
    ASSUME Grows, UNCHANGED <<rows, outbox, health>>, LedgerInv PROVE LedgerInv'
<1>1. RowsAreGrounded'
  BY Zenon DEF Grows, LedgerInv, RowsAreGrounded, Grounded
<1> QED
  BY Zenon, <1>1 DEF LedgerInv

\* The clock and the goal files move.
LEMMA OutsideStepKeeps == ASSUME PetraInv, OutsideStep PROVE PetraInv'
<1>1. OwnershipInv' /\ UNCHANGED services
  BY Zenon, OutsideKeeps DEF PetraInv, OutsideStep
<1>2. UNCHANGED advisory /\ past' = [past EXCEPT ![now'] = @ \cup {goals'}] /\ Outside
  BY ZenonT(60) DEF OutsideStep
<1>3. now \in 0 .. MaxTime /\ now' \in 0 .. MaxTime
  BY <1>2, OwnershipAssumption DEF PetraInv, PetraTyped, Outside, Tick, WriteGoals, BuildMarker, PublishMarker, ManagerRestarts
<1>4. Grows /\ goals' \in past'[now']
  BY Zenon, <1>2, <1>3 DEF PetraInv, PetraTyped, Grows
<1>5. PetraTyped'
  <2>1. goals' \in Docs
    BY Zenon, <1>1 DEF OwnershipInv, OwnershipTyped
  <2> QED
    BY Zenon, <1>1, <1>2, <1>3, <2>1 DEF PetraInv, PetraTyped, services, advisory
<1>6. PastInv'
  <2>1. (draft'.complete => Marked(draft', past')) /\ (marker'.complete => Marked(marker', past'))
    <3>1. (draft.complete => Marked(draft, past')) /\ (marker.complete => Marked(marker, past'))
      BY Zenon, <1>4, MarkedGrows DEF PetraInv, PastInv
    <3>2. CASE Tick \/ \E d \in Docs : WriteGoals(d)
      BY Zenon, <3>1, <3>2 DEF Tick, WriteGoals, ownedFiles
    <3>3. ASSUME NEW complete \in BOOLEAN, BuildMarker(complete)
          PROVE  Marked(draft', past') /\ UNCHANGED marker
      <4>1. draft'.digest = goals /\ draft'.heart = now /\ UNCHANGED <<marker, goals, now>>
        BY Zenon, <3>3 DEF BuildMarker
      <4> QED
        BY Zenon, <1>3, <1>4, <4>1 DEF Marked
    <3>4. CASE PublishMarker
      BY Zenon, <3>1, <3>4, NoWorkTyped DEF PublishMarker
    <3>5. CASE ManagerRestarts
      BY Zenon, <3>1, <3>5, NoWorkTyped DEF ManagerRestarts
    <3> QED
      BY Zenon, <1>2, <3>1, <3>2, <3>3, <3>4, <3>5 DEF Outside
  <2>2. \A p \in Providers : prov[p].pc \in {"fence", "known"} => Marked(prov[p].mark, past')
    BY Zenon, <1>4, MarkedGrows DEF PetraInv, PastInv
  <2> QED
    BY Zenon, <1>1, <1>4, <2>1, <2>2 DEF PetraInv, PastInv, services
<1>7. SessionsNamed' /\ Waits' /\ CaseIsRecorded'
  BY Zenon, <1>1, <1>2 DEF PetraInv, SessionsNamed, Waits, CaseIsRecorded, services, advisory
<1>8. CaseIsGrounded'
  BY Zenon, <1>2, <1>4 DEF PetraInv, CaseIsGrounded, advisory, Grows, Grounded
<1>9. LedgerInv'
  BY Zenon, <1>2, <1>4, LedgerGrows DEF PetraInv, advisory
<1> QED
  BY Zenon, <1>1, <1>5, <1>6, <1>7, <1>8, <1>9 DEF PetraInv

\* A provider works on a call, whoever made it.
LEMMA ProviderWorks ==
    ASSUME PetraInv, NEW p \in Providers, ProviderStep(p), UNCHANGED <<advisory, past>>
    PROVE  PetraInv'
<1>1. OwnershipInv'
  BY Zenon, ProviderStepKeeps DEF PetraInv
<1>2. UNCHANGED <<now, goals, marker, draft, inst>>
  BY Zenon DEF ProviderStep, ReadGoals, ReadMarker, ReadFails, EnforceFence, ownedFiles
<1>3. prov[p] \in Work /\ prov \in [Providers -> Work] /\ marker \in Markers
  BY Zenon, SMTT(30) DEF PetraInv, OwnershipInv, OwnershipTyped
<1>4. PICK x \in Work : Does(p, x) /\ x.from = prov[p].from /\ x.sess = prov[p].sess
        /\ x.pc # "idle" /\ prov[p].pc # "idle"
        /\ \/ x.pc \notin {"fence", "known"}
           \/ x.pc = "fence" /\ x.mark = marker /\ x.doc = prov[p].doc /\ MarkedDoc(prov[p].doc, marker)
           \/ x.pc = "known" /\ prov[p].pc = "fence" /\ x.mark = prov[p].mark /\ x.doc = prov[p].doc
  <2>1. ASSUME NEW g \in Docs
        PROVE  LET x == [prov[p] EXCEPT !.pc = "marker", !.doc = g]
               IN  x \in Work /\ x.pc = "marker" /\ x.from = prov[p].from /\ x.sess = prov[p].sess
    BY Zenon, <1>3 DEF Work, Pcs
  <2>3. LET x == [prov[p] EXCEPT !.pc = "unknown"]
        IN  x \in Work /\ x.pc = "unknown" /\ x.from = prov[p].from /\ x.sess = prov[p].sess
    BY Zenon, <1>3 DEF Work, Pcs
  <2>4. LET x == [prov[p] EXCEPT !.pc = "known"]
        IN  x \in Work /\ x.pc = "known" /\ x.from = prov[p].from /\ x.sess = prov[p].sess
            /\ x.mark = prov[p].mark /\ x.doc = prov[p].doc
    BY Zenon, <1>3 DEF Work, Pcs
  <2>5. CASE ReadGoals(p)
    <3>1. goals \in Docs
      BY Zenon DEF PetraInv, OwnershipInv, OwnershipTyped
    <3> QED
      BY Zenon, <2>1, <2>5, <3>1 DEF ReadGoals
  <2>6. CASE ReadMarker(p)
    <3> DEFINE x == [prov[p] EXCEPT !.mark = marker,
                                    !.pc = IF MarkedDoc(prov[p].doc, marker) THEN "fence" ELSE "unknown"]
    <3>1. Does(p, x) /\ prov[p].pc = "marker"
      BY Zenon, <2>6 DEF ReadMarker
    <3>2. /\ x \in Work /\ x.from = prov[p].from /\ x.sess = prov[p].sess
          /\ x.mark = marker /\ x.doc = prov[p].doc
          /\ x.pc = IF MarkedDoc(prov[p].doc, marker) THEN "fence" ELSE "unknown"
      BY Zenon, <1>3 DEF Work, Pcs
    <3> HIDE DEF x
    <3> QED
      BY Zenon, <3>1, <3>2
  <2>7. CASE ReadFails(p)
    BY Zenon, <2>3, <2>7 DEF ReadFails
  <2>8. CASE EnforceFence(p)
    BY Zenon, <2>3, <2>4, <2>8 DEF EnforceFence
  <2> QED
    BY Zenon, <2>5, <2>6, <2>7, <2>8 DEF ProviderStep
<1>5. prov'[p] = x /\ \A q \in Providers \ {p} : prov'[q] = prov[q]
  BY Zenon, <1>3, <1>4 DEF Does
<1>6. PetraTyped'
  BY Zenon, <1>2 DEF PetraInv, PetraTyped, advisory
<1>7. PastInv'
  <2>1. x.pc \in {"fence", "known"} => x.mark.digest = x.doc /\ Marked(x.mark, past)
    BY Zenon, <1>4 DEF PetraInv, PastInv, MarkedDoc
  <2> QED
    BY Zenon, <1>2, <1>5, <2>1 DEF PetraInv, PastInv
<1>8. SessionsNamed' /\ Waits'
  BY Zenon, <1>4, <1>5 DEF PetraInv, SessionsNamed, Waits, advisory
<1>9. CaseIsGrounded' /\ CaseIsRecorded'
  BY Zenon DEF PetraInv, CaseIsGrounded, CaseIsRecorded, advisory
<1>10. LedgerInv'
  BY Zenon, LedgerGrows DEF PetraInv, advisory, Grows
<1> QED
  BY Zenon, <1>1, <1>6, <1>7, <1>8, <1>9, <1>10 DEF PetraInv

\* An answer is about the session it was asked for, and says owned only of a goal that was in
\* goals.json at the heartbeat it carries.
LEMMA ResultIsGrounded ==
    ASSUME PetraInv, NEW p \in Providers, prov[p].pc # "idle"
    PROVE  /\ Result(p) \in FenceAnswers
           /\ Result(p).sess = prov[p].sess
           /\ Result(p).version # 0 =>
                Grounded(past, Result(p).heart, Result(p).sess, Result(p).version)
<1> DEFINE q == prov[p]
           sure == q.pc = "known" /\ q.boot = boot
           v == IF sure THEN q.doc[q.sess] ELSE 0
<1>1. q \in Work /\ q.sess \in SessionRefs /\ q.boot \in Nat /\ q.doc \in Docs /\ q.mark.gen \in Nat
      /\ q.mark.heart \in Nat /\ now \in Nat /\ <<p, inst[p]>> \in Instances
  BY Zenon DEF PetraInv, SessionsNamed, OwnershipInv, OwnershipTyped, PetraTyped, Work, Markers, Instances
<1>2. v \in Nat
  BY SMTT(30), <1>1 DEF Docs
<1>3. \E su \in BOOLEAN :
        Result(p) = [sess |-> q.sess, boot |-> q.boot, inst |-> <<p, inst[p]>>, at |-> now,
           until |-> now + Validity, schema |-> AnswerSchema, sure |-> su,
           gen |-> q.mark.gen, heart |-> q.mark.heart, version |-> v]
  <2>1. CASE sure
    <3>1. sure = TRUE
      BY Zenon, <2>1
    <3> QED
      BY Zenon, <3>1 DEF Result
  <2>2. CASE ~sure
    <3>1. sure = FALSE
      BY Zenon, <2>2
    <3> QED
      BY Zenon, <3>1 DEF Result
  <2> QED
    BY Zenon, SMTT(30), <2>1, <2>2
<1>4. v # 0 => Grounded(past, q.mark.heart, q.sess, v)
  BY Zenon, <1>1 DEF PetraInv, PastInv, Marked, Grounded
<1>5. now + Validity \in Nat
  BY <1>1, PetraAssumption
<1> HIDE DEF q, sure, v
<1>6. Result(p) \in FenceAnswers
  <2>1. PICK su \in BOOLEAN :
          Result(p) = [sess |-> q.sess, boot |-> q.boot, inst |-> <<p, inst[p]>>, at |-> now,
             until |-> now + Validity, schema |-> AnswerSchema, sure |-> su,
             gen |-> q.mark.gen, heart |-> q.mark.heart, version |-> v]
    BY Zenon, <1>3
  <2> DEFINE i == <<p, inst[p]>>
             u == now + Validity
             g == q.mark.gen
             h == q.mark.heart
             x == [sess |-> q.sess, boot |-> q.boot, inst |-> i, at |-> now, until |-> u,
                   schema |-> AnswerSchema, sure |-> su, gen |-> g, heart |-> h, version |-> v]
  <2>2. i \in Instances /\ u \in Nat /\ g \in Nat /\ h \in Nat /\ q.boot \in Nat /\ q.sess \in SessionRefs
        /\ now \in Nat
    BY Zenon, <1>1, <1>5
  <2>3. Result(p) = x
    BY Zenon, <2>1
  <2> HIDE DEF i, u, g, h
  <2>4. x \in FenceAnswers
    BY Zenon, <1>2, <2>2 DEF FenceAnswers
  <2> QED
    BY Zenon, <2>3, <2>4
<1>7. Result(p).sess = q.sess /\ Result(p).version = v /\ Result(p).heart = q.mark.heart
  <2>1. PICK su \in BOOLEAN :
          Result(p) = [sess |-> q.sess, boot |-> q.boot, inst |-> <<p, inst[p]>>, at |-> now,
             until |-> now + Validity, schema |-> AnswerSchema, sure |-> su,
             gen |-> q.mark.gen, heart |-> q.mark.heart, version |-> v]
    BY Zenon, <1>3
  <2> DEFINE i == <<p, inst[p]>>
             u == now + Validity
             g == q.mark.gen
             h == q.mark.heart
             x == [sess |-> q.sess, boot |-> q.boot, inst |-> i, at |-> now, until |-> u,
                   schema |-> AnswerSchema, sure |-> su, gen |-> g, heart |-> h, version |-> v]
  <2>2. Result(p) = x
    BY Zenon, <2>1
  <2>3. h = q.mark.heart
    OBVIOUS
  <2> HIDE DEF i, u, g, h
  <2>4. x.sess = q.sess /\ x.version = v /\ x.heart = h
    BY Zenon
  <2> HIDE DEF x
  <2> QED
    BY ZenonT(60), <2>2, <2>3, <2>4
<1> QED
  BY Zenon, <1>4, <1>6, <1>7 DEF q

\* What an answer changes, and what it leaves alone.
LEMMA AnswerChanges ==
    ASSUME PetraInv, NEW p \in Providers, Answer(p)
    PROVE  /\ OwnershipInv' /\ UNCHANGED <<now, goals, marker, draft, inst, boot>>
           /\ prov[p].pc # "idle" /\ prov'[p] = NoWork
           /\ \A q \in Providers \ {p} : prov'[q] = prov[q]
  BY Zenon, AnswerKeeps DEF PetraInv, OwnershipInv, OwnershipTyped, Answer, Does, ownedFiles

\* Providers that change go idle or start; past, files and clock stay.
LEMMA ProvidersQuiet ==
    ASSUME PetraInv, UNCHANGED <<now, goals, marker, past>>, draft' \in {draft, NoMarker},
           \A q \in Providers : prov'[q] = prov[q] \/ prov'[q].pc \in {"idle", "goals"}
    PROVE  PastInv' /\ Grows
  BY Zenon, NoWorkTyped DEF PetraInv, PastInv, Grows

\* The steps that leave Petra's own state alone and let providers start or go idle.
LEMMA PetraUntouched ==
    ASSUME PetraInv, OwnershipInv', UNCHANGED <<now, goals, marker, past, petra, rows, outbox, health>>,
           draft' \in {draft, NoMarker}, inst' \in [Providers -> Nat], sent' \in SUBSET ObservationSet,
           \A o \in sent' : o.cites.sess \in SessionRefs,
           \A q \in Providers :
               \/ prov'[q] = prov[q]
               \/ /\ prov'[q].pc \in {"idle", "goals"}
                  /\ prov'[q].pc # "idle" => prov'[q].sess \in SessionRefs
                  /\ ~(petra.pc = "waiting" /\ petra.to = q)
    PROVE  PetraInv'
<1>1. PastInv' /\ Grows
  BY Zenon, ProvidersQuiet
<1>2. PetraTyped'
  BY Zenon DEF PetraInv, PetraTyped
<1>3. SessionsNamed' /\ Waits' /\ CaseIsGrounded' /\ CaseIsRecorded'
  BY Zenon DEF PetraInv, SessionsNamed, Waits, CaseIsGrounded, CaseIsRecorded
<1>4. LedgerInv'
  BY Zenon, <1>1, LedgerGrows DEF PetraInv
<1> QED
  BY Zenon, <1>1, <1>2, <1>3, <1>4 DEF PetraInv

\* An observer is answered, and its observation is on its way.
LEMMA AnswerObserverKeeps ==
    ASSUME PetraInv, NEW p \in Providers, AnswerObserver(p) PROVE PetraInv'
<1> DEFINE a == Result(p)
<1>1. Answer(p) /\ prov[p].from = "observer" /\ UNCHANGED <<petra, rows, outbox, health, past>>
  BY Zenon, SMTT(30) DEF AnswerObserver
<1>2. /\ OwnershipInv' /\ UNCHANGED <<now, goals, marker, draft, inst>>
      /\ prov[p].pc # "idle" /\ prov'[p] = NoWork /\ \A q \in Providers \ {p} : prov'[q] = prov[q]
  BY Zenon, <1>1, AnswerChanges
<1>3. a \in FenceAnswers /\ a.sess = prov[p].sess /\ a.sess \in SessionRefs
  BY Zenon, <1>2, ResultIsGrounded DEF PetraInv, SessionsNamed
<1>4. sent' = sent \/ \E o \in Observations(a) : sent' = sent \cup {o}
  BY Zenon DEF AnswerObserver
<1> HIDE DEF a
<1>5. \A o \in Observations(a) : o \in ObservationSet /\ o.cites.sess \in SessionRefs
  <2> TAKE o \in Observations(a)
  <2> DEFINE c == [sess |-> a.sess, boot |-> a.boot, inst |-> a.inst, version |-> a.version, gen |-> a.gen]
  <2>1. PICK id \in EventIds : o = [id |-> id, at |-> now, expires |-> now + Lifetime, cites |-> c]
    BY Zenon DEF Observations
  <2>2. c \in Citations /\ c.sess \in SessionRefs
    BY Zenon, <1>3 DEF Citations, FenceAnswers
  <2>3. now \in Nat /\ now + Lifetime \in Nat
    BY PetraAssumption DEF PetraInv, OwnershipInv, OwnershipTyped
  <2> HIDE DEF c
  <2> QED
    BY Zenon, <2>1, <2>2, <2>3 DEF ObservationSet
<1>6. sent' \in SUBSET ObservationSet /\ \A o \in sent' : o.cites.sess \in SessionRefs
  BY Zenon, <1>4, <1>5 DEF PetraInv, PetraTyped, SessionsNamed
<1>7. ~(petra.pc = "waiting" /\ petra.to = p)
  BY Zenon, <1>1 DEF PetraInv, Waits
<1>8. inst' \in [Providers -> Nat]
  BY Zenon, SMTT(30), <1>2 DEF PetraInv, PetraTyped
<1> QED
  BY Zenon, <1>1, <1>2, <1>6, <1>7, <1>8, NoWorkTyped, PetraUntouched

\* An observer asks a provider.
LEMMA ObserverAsksKeeps ==
    ASSUME PetraInv, NEW p \in Providers, NEW s \in SessionRefs, ObserverAsks(p, s) PROVE PetraInv'
<1> DEFINE x == [NoWork EXCEPT !.pc = "goals", !.from = "observer", !.sess = s, !.boot = boot, !.given = Given]
<1>1. Accept(p, "observer", s, boot) /\ UNCHANGED <<now, boot, ownedFiles, fence, inst, answered, advisory, past>>
  BY Zenon DEF ObserverAsks, Query
<1>2. OwnershipInv'
  <2>1. boot \in Nat
    BY Zenon DEF PetraInv, OwnershipInv, OwnershipTyped
  <2> QED
    BY Zenon, <1>1, <2>1, AcceptKeeps DEF PetraInv
<1>3. x.pc = "goals" /\ x.sess = s
  BY Zenon, NoWorkTyped DEF Work
<1>4. prov[p].pc = "idle" /\ prov'[p] = x /\ \A q \in Providers \ {p} : prov'[q] = prov[q]
  BY Zenon, <1>1 DEF Accept, Does, PetraInv, OwnershipInv, OwnershipTyped
<1> HIDE DEF x
<1>5. ~(petra.pc = "waiting" /\ petra.to = p)
  BY Zenon, <1>4 DEF PetraInv, Waits
<1> QED
  BY Zenon, <1>1, <1>2, <1>3, <1>4, <1>5, PetraUntouched DEF PetraInv, PetraTyped, SessionsNamed, advisory, ownedFiles

\* The steps that change Petra's case and leave the rest, providers going idle or starting.
LEMMA CaseChanges ==
    ASSUME PetraInv, OwnershipInv', UNCHANGED <<now, goals, marker, past, sent, rows, outbox>>,
           draft' \in {draft, NoMarker}, inst' \in [Providers -> Nat],
           \A q \in Providers :
               \/ prov'[q] = prov[q]
               \/ /\ prov'[q].pc \in {"idle", "goals"}
                  /\ prov'[q].pc # "idle" => prov'[q].sess \in SessionRefs,
           petra' \in Cases, petra'.pc # "idle" => petra'.obs.cites.sess \in SessionRefs,
           Waits', CaseIsGrounded', CaseIsRecorded',
           health' = health \/ health'.ready = FALSE \/
               \E r \in rows : r.obs.cites.inst = health'.inst /\ r.obs.cites.gen = health'.gen
    PROVE  PetraInv'
<1>1. PastInv' /\ Grows
  BY Zenon, ProvidersQuiet
<1>2. PetraTyped' /\ SessionsNamed'
  BY Zenon DEF PetraInv, PetraTyped, SessionsNamed
<1>3. RowsAreGrounded'
  BY Zenon, <1>1 DEF PetraInv, LedgerInv, RowsAreGrounded, Grows, Grounded
<1>4. LedgerInv'
  BY Zenon, <1>3 DEF PetraInv, LedgerInv
<1> QED
  BY Zenon, SMTT(30), <1>1, <1>2, <1>4 DEF PetraInv

\* Petra is answered by the provider it waits for.
LEMMA AnswerPetraKeeps ==
    ASSUME PetraInv, NEW p \in Providers, AnswerPetra(p) PROVE PetraInv'
<1> DEFINE a == Result(p)
           x == [petra EXCEPT !.pc = "answered", !.ans = a]
<1>1. Answer(p) /\ UNCHANGED <<sent, rows, outbox, health, past>>
      /\ petra' = IF petra.pc = "waiting" /\ petra.to = p THEN x ELSE petra
  BY Zenon DEF AnswerPetra
<1>2. /\ OwnershipInv' /\ UNCHANGED <<now, goals, marker, draft, inst>>
      /\ prov[p].pc # "idle" /\ prov'[p] = NoWork /\ \A q \in Providers \ {p} : prov'[q] = prov[q]
  BY Zenon, SMTT(30), <1>1, AnswerChanges
<1>3. /\ a \in FenceAnswers /\ a.sess = prov[p].sess
      /\ a.version # 0 => Grounded(past, a.heart, a.sess, a.version)
  BY Zenon, <1>2, ResultIsGrounded
<1> HIDE DEF a
<1>4. x \in Cases /\ x.pc = "answered" /\ x.ans = a /\ x.obs = petra.obs
  BY Zenon, <1>3 DEF PetraInv, PetraTyped, Cases
<1>5. inst' \in [Providers -> Nat] /\ petra \in Cases
  BY Zenon, <1>2 DEF PetraInv, PetraTyped
<1> HIDE DEF x
<1>6. CASE petra.pc = "waiting" /\ petra.to = p
  <2>1. prov[p].sess = petra.obs.cites.sess
    BY Zenon, SMTT(30), <1>6 DEF PetraInv, Waits
  <2>2. Waits' /\ CaseIsGrounded' /\ CaseIsRecorded' /\ petra'.obs.cites.sess \in SessionRefs
    BY Zenon, SMTT(30), <1>1, <1>3, <1>4, <1>6, <2>1 DEF PetraInv, SessionsNamed, Waits, CaseIsGrounded, CaseIsRecorded
  <2> QED
    BY Zenon, <1>1, <1>2, <1>4, <1>5, <1>6, <2>2, NoWorkTyped, CaseChanges
<1>7. CASE ~(petra.pc = "waiting" /\ petra.to = p)
  BY Zenon, <1>1, <1>2, <1>5, <1>7, NoWorkTyped, PetraUntouched DEF PetraInv, PetraTyped, SessionsNamed
<1> QED
  BY Zenon, <1>6, <1>7

\* A provider restarts, and its callers wait in vain.
LEMMA ProviderStopsKeeps ==
    ASSUME PetraInv, NEW p \in Providers, ProviderStops(p) PROVE PetraInv'
<1> DEFINE x == [petra EXCEPT !.pc = "done", !.verdict = "ownership_unavailable"]
<1>1. /\ ProviderRestarts(p) /\ UNCHANGED <<sent, rows, outbox, health, past>>
      /\ petra' = IF petra.pc = "waiting" /\ petra.to = p THEN x ELSE petra
  BY Zenon DEF ProviderStops
<1>2. OwnershipInv'
  BY Zenon, <1>1, ProviderRestartsKeeps DEF PetraInv
<1>3. /\ UNCHANGED <<now, goals, marker, draft>> /\ inst' \in [Providers -> Nat]
      /\ prov'[p] = NoWork /\ \A q \in Providers \ {p} : prov'[q] = prov[q]
  BY <1>1 DEF ProviderRestarts, Does, PetraInv, PetraTyped, OwnershipInv, OwnershipTyped, ownedFiles
<1>4. x \in Cases /\ x.pc = "done" /\ x.verdict = "ownership_unavailable" /\ x.obs = petra.obs
  BY Zenon DEF PetraInv, PetraTyped, Cases, Verdicts, FenceCodes
<1> HIDE DEF x
<1>5. CASE petra.pc = "waiting" /\ petra.to = p
  <2>1. Waits' /\ CaseIsGrounded' /\ CaseIsRecorded' /\ petra'.obs.cites.sess \in SessionRefs
    BY Zenon, SMTT(30), <1>1, <1>4, <1>5 DEF PetraInv, SessionsNamed, Waits, CaseIsGrounded, CaseIsRecorded
  <2> QED
    BY Zenon, <1>1, <1>2, <1>3, <1>4, <1>5, <2>1, NoWorkTyped, CaseChanges
<1>6. CASE ~(petra.pc = "waiting" /\ petra.to = p)
  BY Zenon, SMTT(30), <1>1, <1>2, <1>3, <1>6, NoWorkTyped, PetraUntouched DEF PetraInv, PetraTyped, SessionsNamed
<1> QED
  BY Zenon, <1>5, <1>6

\* Petra asks a provider for the fence.
LEMMA AskProviderKeeps ==
    ASSUME PetraInv, NEW p \in Providers, AskProvider(p) PROVE PetraInv'
<1> DEFINE s == petra.obs.cites.sess
           b == petra.obs.cites.boot
           x == [NoWork EXCEPT !.pc = "goals", !.from = "petra", !.sess = s, !.boot = b, !.given = Given]
           y == [petra EXCEPT !.pc = "waiting", !.to = p]
<1>1. /\ Accept(p, "petra", s, b) /\ petra.pc = "asking" /\ petra' = y
      /\ UNCHANGED <<now, boot, ownedFiles, fence, inst, answered, sent, rows, outbox, health, past>>
  BY Zenon DEF AskProvider
<1>2. s \in SessionRefs /\ b \in Nat /\ petra \in Cases
  BY Zenon, <1>1 DEF PetraInv, PetraTyped, SessionsNamed, Cases, ObservationSet, Citations
<1>3. OwnershipInv'
  BY Zenon, <1>1, <1>2, AcceptKeeps DEF PetraInv
<1>4. x.pc = "goals" /\ x.sess = s /\ x.from = "petra"
  BY Zenon, NoWorkTyped DEF Work
<1>5. prov'[p] = x /\ \A q \in Providers \ {p} : prov'[q] = prov[q]
  BY Zenon, <1>1 DEF Accept, Does, PetraInv, OwnershipInv, OwnershipTyped
<1>6. y \in Cases /\ y.pc = "waiting" /\ y.to = p /\ y.obs = petra.obs
  BY Zenon, <1>2 DEF Cases
<1> HIDE DEF x, y
<1>7. Waits' /\ CaseIsGrounded' /\ CaseIsRecorded'
  BY Zenon, <1>1, <1>4, <1>5, <1>6 DEF Waits, CaseIsGrounded, CaseIsRecorded
<1>8. inst' \in [Providers -> Nat] /\ UNCHANGED <<goals, marker, draft>>
  BY Zenon, SMTT(30), <1>1 DEF PetraInv, PetraTyped, ownedFiles
<1> QED
  BY Zenon, <1>1, <1>2, <1>3, <1>4, <1>5, <1>6, <1>7, <1>8, CaseChanges

\* The host reboots with a case under way.
LEMMA HostRebootsKeeps == ASSUME PetraInv, HostReboots PROVE PetraInv'
<1>1. OwnershipInv'
  BY Zenon, RebootKeeps DEF PetraInv, HostReboots
<1>2. /\ UNCHANGED <<now, goals, marker, past, sent, rows, outbox>> /\ draft' = NoMarker
      /\ prov' = [p \in Providers |-> NoWork] /\ inst' \in [Providers -> Nat]
      /\ petra' = NoCase /\ health' = NotReady
  BY SMTT(30) DEF HostReboots, Reboot, PetraInv, PetraTyped
<1>3. Waits' /\ CaseIsGrounded' /\ CaseIsRecorded'
  BY Zenon, <1>2, NothingTyped DEF Waits, CaseIsGrounded, CaseIsRecorded
<1> QED
  BY Zenon, <1>1, <1>2, <1>3, NoWorkTyped, NothingTyped, CaseChanges

\* The steps of Petra itself, which leave providers, files and clock alone.
LEMMA PetraAlone ==
    ASSUME PetraInv, UNCHANGED <<now, boot, ownedFiles, services, past>>
    PROVE  OwnershipInv' /\ UNCHANGED <<goals, marker, draft, prov, inst>> /\ inst' \in [Providers -> Nat]
<1>1. UNCHANGED <<goals, marker, draft, prov, inst>> /\ inst' \in [Providers -> Nat]
  BY Zenon DEF ownedFiles, services, PetraInv, PetraTyped
<1>2. OwnershipTyped'
  BY Zenon DEF PetraInv, OwnershipInv, OwnershipTyped, ownedFiles, services
<1>3. OwnershipInv'
  BY Zenon, <1>2, QuietStep DEF PetraInv, services
<1> QED
  BY Zenon, <1>1, <1>3

\* A step that records no answer lets the history grow by nothing.
LEMMA QuietGrows == ASSUME UNCHANGED past PROVE Grows
  BY Zenon DEF Grows

\* The end of Decide: the case is judged, the ledger is in order.
LEMMA CaseDecided ==
    ASSUME PetraInv, UNCHANGED <<now, boot, ownedFiles, services, past, sent>>, petra' \in Cases,
           petra'.pc = "done", petra'.obs.cites.sess \in SessionRefs, LedgerInv',
           petra'.verdict \in {"accepted", "duplicate"} => \E r \in rows' : r.obs = petra'.obs
    PROVE  PetraInv'
<1>1. OwnershipInv' /\ UNCHANGED <<goals, marker, draft, prov, inst>> /\ inst' \in [Providers -> Nat]
  BY Zenon, PetraAlone
<1>2. PastInv'
  BY Zenon, SMTT(30), <1>1, ProvidersQuiet
<1>3. PetraTyped' /\ SessionsNamed' /\ Waits' /\ CaseIsGrounded' /\ CaseIsRecorded'
  BY Zenon, SMTT(30), <1>1 DEF PetraInv, PetraTyped, SessionsNamed, Waits, CaseIsGrounded, CaseIsRecorded
<1> QED
  BY Zenon, SMTT(30), <1>1, <1>2, <1>3 DEF PetraInv

\* An observation arrives, once or again.
LEMMA ReceiveKeeps == ASSUME PetraInv, NEW o \in sent, Receive(o) PROVE PetraInv'
<1> DEFINE x == [NoCase EXCEPT !.pc = "asking", !.obs = o]
<1>1. petra' = x /\ UNCHANGED <<now, boot, ownedFiles, services, past, sent, rows, outbox, health>>
  BY Zenon DEF Receive, ownership
<1>2. x \in Cases /\ x.pc = "asking" /\ x.obs = o
  BY Zenon, NothingTyped DEF PetraInv, PetraTyped, Cases
<1>3. o.cites.sess \in SessionRefs
  BY Zenon, SMTT(30) DEF PetraInv, SessionsNamed
<1> HIDE DEF x
<1>4. Waits' /\ CaseIsGrounded' /\ CaseIsRecorded'
  BY Zenon, SMTT(30), <1>1, <1>2 DEF Waits, CaseIsGrounded, CaseIsRecorded
<1> QED
  BY Zenon, <1>1, <1>2, <1>3, <1>4, PetraAlone, CaseChanges

\* The fence answer does not come.
LEMMA AskFailsKeeps == ASSUME PetraInv, AskFails PROVE PetraInv'
<1> DEFINE x == [petra EXCEPT !.pc = "done", !.verdict = "ownership_unavailable"]
<1>1. petra' = x /\ UNCHANGED <<now, boot, ownedFiles, services, past, sent, rows, outbox, health>>
      /\ petra.pc # "idle"
  BY Zenon DEF AskFails
<1>2. x \in Cases /\ x.pc = "done" /\ x.verdict = "ownership_unavailable" /\ x.obs = petra.obs
  BY Zenon DEF PetraInv, PetraTyped, Cases, Verdicts, FenceCodes
<1> HIDE DEF x
<1>3. Waits' /\ CaseIsGrounded' /\ CaseIsRecorded' /\ petra'.obs.cites.sess \in SessionRefs
  BY Zenon, SMTT(30), <1>1, <1>2 DEF PetraInv, SessionsNamed, Waits, CaseIsGrounded, CaseIsRecorded
<1> QED
  BY Zenon, <1>1, <1>2, <1>3, PetraAlone, CaseChanges

\* A case ends with the ledger as it is.
LEMMA PetraGoesIdle ==
    ASSUME PetraInv, petra' = NoCase,
           UNCHANGED <<now, boot, ownedFiles, services, past, sent, rows, outbox>>,
           health' = health \/ health'.ready = FALSE \/
               \E r \in rows : r.obs.cites.inst = health'.inst /\ r.obs.cites.gen = health'.gen
    PROVE  PetraInv'
<1>1. Waits' /\ CaseIsGrounded' /\ CaseIsRecorded'
  BY Zenon, NothingTyped DEF Waits, CaseIsGrounded, CaseIsRecorded
<1> QED
  BY Zenon, <1>1, NothingTyped, PetraAlone, CaseChanges

\* The health record is published.
LEMMA PublishHealthKeeps == ASSUME PetraInv, PublishHealth PROVE PetraInv'
<1>1. petra' = NoCase /\ UNCHANGED <<now, boot, ownedFiles, services, past, sent, rows, outbox>>
  BY Zenon DEF PublishHealth, ownership
<1>2. CASE petra.verdict \in {"accepted", "duplicate"}
  <2>1. PICK r \in rows : r.obs = petra.obs
    BY Zenon, <1>2 DEF PublishHealth, PetraInv, CaseIsRecorded
  <2>2. health'.inst = petra.obs.cites.inst /\ health'.gen = petra.obs.cites.gen
    BY Zenon, <1>2 DEF PublishHealth
  <2> QED
    BY Zenon, <1>1, <2>1, <2>2, PetraGoesIdle
<1>3. CASE petra.verdict \notin {"accepted", "duplicate"}
  <2>1. health'.ready = FALSE
    BY Zenon, <1>3, NothingTyped DEF PublishHealth
  <2> QED
    BY Zenon, <1>1, <2>1, PetraGoesIdle
<1> QED
  BY Zenon, <1>2, <1>3

\* Petra restarts and loses its case.
LEMMA PetraRestartsKeeps == ASSUME PetraInv, PetraRestarts PROVE PetraInv'
  BY Zenon, NothingTyped, PetraGoesIdle DEF PetraRestarts

\* Decide: an accepted observation becomes the one row of its event id.
LEMMA RowAppended ==
    ASSUME PetraInv, UNCHANGED <<past, health>>, NEW r,
           r.at < r.obs.expires, r.at - r.ans.heart <= MaxAge, r.obs.cites.version # 0,
           Grounded(past, r.ans.heart, r.obs.cites.sess, r.obs.cites.version),
           \A q \in rows : q.obs.id # r.obs.id,
           rows' = rows \cup {r}, outbox' = outbox \cup {r.obs.id}
    PROVE  LedgerInv'
<1>1. LedgerInv
  BY Zenon DEF PetraInv
<1>2. RowsAreGrounded'
  BY Zenon, SMTT(30), <1>1 DEF LedgerInv, RowsAreGrounded
<1>3. (\A q, s \in rows : q.obs.id = s.obs.id => q = s)'
  BY Zenon, <1>1 DEF LedgerInv
<1>4. outbox' = {q.obs.id : q \in rows'}
  BY Zenon, <1>1 DEF LedgerInv
<1>5. (health.ready => \E q \in rows : q.obs.cites.inst = health.inst /\ q.obs.cites.gen = health.gen)'
  BY Zenon, <1>1 DEF LedgerInv
<1> QED
  BY Zenon, <1>2, <1>3, <1>4, <1>5 DEF LedgerInv

\* A case is decided: the row and the outbox cite what was answered.
LEMMA DecideKeeps == ASSUME PetraInv, Decide PROVE PetraInv'
<1> DEFINE o == petra.obs
           a == petra.ans
           verdict == IF ~Timely(o) THEN "expired_observation"
                      ELSE IF FenceVerdict(o, a) # "ok" THEN FenceVerdict(o, a)
                      ELSE IF FirstOf(LedgerChecks(o)) # "ok" THEN FirstOf(LedgerChecks(o))
                      ELSE "accepted"
           After(v) == [petra EXCEPT !.pc = "done", !.verdict = v]
           row == [obs |-> o, ans |-> a, at |-> now]
<1>1. /\ petra.pc = "answered"
      /\ UNCHANGED <<now, boot, ownedFiles, services, past, sent, health>>
      /\ \/ /\ petra' = After(verdict)
            /\ rows' = IF verdict = "accepted" THEN rows \cup {row} ELSE rows
            /\ outbox' = IF verdict = "accepted" THEN outbox \cup {o.id} ELSE outbox
         \/ petra' = After("ledger_unavailable") /\ UNCHANGED <<rows, outbox>>
  BY Zenon DEF Decide
<1>2. /\ petra \in Cases /\ o \in ObservationSet /\ a \in FenceAnswers /\ now \in Nat
      /\ o.cites.sess \in SessionRefs
  BY Zenon, <1>1 DEF PetraInv, PetraTyped, SessionsNamed, Cases, OwnershipInv, OwnershipTyped
<1>3. ASSUME NEW v \in Verdicts
      PROVE  After(v) \in Cases /\ After(v).pc = "done" /\ After(v).obs = o /\ After(v).verdict = v
  BY Zenon, <1>2 DEF Cases
<1>4. /\ verdict \in Verdicts
      /\ verdict = "duplicate" => \E r \in rows : r.obs = o
      /\ verdict = "accepted" =>
           Timely(o) /\ FenceVerdict(o, a) = "ok" /\ \A r \in rows : r.obs.id # o.id
  <2>1. /\ FenceVerdict(o, a) \in FenceCodes \cup {"ok"}
        /\ FirstOf(LedgerChecks(o)) \in {"ok", "conflicting_duplicate", "duplicate", "ledger_capacity"}
        /\ FirstOf(LedgerChecks(o)) = "ok" => \A r \in rows : r.obs.id # o.id
        /\ FirstOf(LedgerChecks(o)) = "duplicate" => \E r \in rows : r.obs = o
    BY Zenon, FenceVerdictSays, LedgerVerdictSays
  <2>2. "accepted" \notin FenceCodes /\ "duplicate" \notin FenceCodes
    BY Zenon, SMTT(30) DEF FenceCodes
  <2> QED
    BY Zenon, <2>1, <2>2 DEF Verdicts
<1> HIDE DEF o, a, verdict, After
<1>5. CASE petra' = After(verdict) /\ verdict = "accepted" /\ rows' = rows \cup {row}
           /\ outbox' = outbox \cup {o.id}
  <2>1. /\ now < o.expires /\ a.version # 0 /\ a.version = o.cites.version /\ now - a.heart <= MaxAge
    <3>1. ~(now - a.heart > MaxAge) /\ a.version # 0 /\ a.version = o.cites.version
      BY Zenon, <1>4, <1>5, FenceVerdictSays
    <3>2. a.heart \in Nat
      BY Zenon, <1>2 DEF FenceAnswers
    <3> QED
      BY SMTT(30), <1>2, <1>4, <1>5, <3>1, <3>2, PetraAssumption DEF Timely
  <2>2. Grounded(past, a.heart, o.cites.sess, o.cites.version)
    BY Zenon, <1>1, <2>1 DEF PetraInv, CaseIsGrounded, o, a
  <2>3. row.obs = o /\ row.ans = a /\ row.at = now
    BY Zenon, SMTT(30)
  <2> HIDE DEF row
  <2>4. LedgerInv'
    BY Zenon, <1>1, <1>4, <1>5, <2>1, <2>2, <2>3, RowAppended
  <2>5. \E r \in rows' : r.obs = petra'.obs
    BY Zenon, SMTT(30), <1>3, <1>4, <1>5, <2>3
  <2> QED
    BY Zenon, SMTT(30), <1>1, <1>2, <1>3, <1>4, <1>5, <2>4, <2>5, CaseDecided
<1>6. CASE petra' = After(verdict) /\ verdict # "accepted" /\ UNCHANGED <<rows, outbox>>
  <2>1. LedgerInv'
    BY Zenon, SMTT(30), <1>1, <1>6, QuietGrows, LedgerGrows DEF PetraInv
  <2> QED
    BY Zenon, SMTT(30), <1>1, <1>2, <1>3, <1>4, <1>6, <2>1, CaseDecided
<1>7. CASE petra' = After("ledger_unavailable") /\ UNCHANGED <<rows, outbox>>
  <2>1. LedgerInv'
    BY Zenon, <1>1, <1>7, QuietGrows, LedgerGrows DEF PetraInv
  <2>2. "ledger_unavailable" \in Verdicts
    BY Zenon DEF Verdicts
  <2> QED
    BY Zenon, SMTT(30), <1>1, <1>2, <1>3, <1>7, <2>1, <2>2, CaseDecided
<1> QED
  BY Zenon, <1>1, <1>5, <1>6, <1>7

\* Every step preserves the invariant.
LEMMA PetraStep == PetraInv /\ [PetraNext]_petraVars => PetraInv'
<1> SUFFICES ASSUME PetraInv, [PetraNext]_petraVars PROVE PetraInv'
  BY Zenon, SMTT(30)
<1>1. CASE UNCHANGED petraVars
  <2>1. UNCHANGED <<now, boot, ownedFiles, services, past, sent, petra, rows, outbox, health>>
    BY Zenon, <1>1 DEF petraVars, ownership, advisory
  <2> QED
    BY Zenon, <2>1, PetraAlone, PetraUntouched DEF PetraInv, PetraTyped, SessionsNamed
<1> QED
  BY Zenon, SMTT(30), <1>1, OutsideStepKeeps, HostRebootsKeeps, ProviderWorks, AnswerObserverKeeps, AnswerPetraKeeps,
     ProviderStopsKeeps, AskProviderKeeps, ObserverAsksKeeps, ReceiveKeeps, AskFailsKeeps, DecideKeeps,
     PublishHealthKeeps, PetraRestartsKeeps DEF PetraNext

\* For any sessions, providers, event ids, lifetimes and ledger size, with lost answers, provider
\* restarts and reboots at any point: every row of petra_observations was true at the manager's
\* heartbeat at most MAX_OWNERSHIP_AGE_SECONDS before, one event id has one row and one outbox
\* entry, and health.json claims readiness only with a row to show for it (observation_handler).
THEOREM PetraRecordsAreGrounded == PetraSpec => []RecordsAreGrounded
<1>1. PetraSpec => []PetraInv
  BY PetraInitHolds, PetraStep, PTL DEF PetraSpec
<1> QED
  BY <1>1, PetraInvIsGrounded, PTL

=============================================================================
