--------------------------- MODULE Guard_proofs -----------------------------
(***************************************************************************)
(* Theorems about the pause and resume transactions of RateLimitGuard for  *)
(* any set of lanes and any number of crashes, failed deliveries and       *)
(* operator actions. GuardInv is inductive: a transaction names at most    *)
(* the youngest order of its lane, what a lane was told follows from the   *)
(* phase and the result in hand, and what a sweep remembers still holds    *)
(* when it is used.                                                        *)
(***************************************************************************)
EXTENDS RateLimitGuard, TLAPS

\* The pause and resume transactions (RateLimitGuard).

Tags == {"mine", "draft", "stray"}
Orders == [kind : Kinds, tag : Tags]
Sending == {"checkpoint_sent", "stop_sent", "resume_sent"}
KindOf(phase) == IF phase = "checkpoint_sent" THEN "checkpoint" ELSE IF phase = "stop_sent" THEN "stop" ELSE "resume"

Covered(s) == s \in meddled \/ hold[s] \in Frozen

\* The lane was told to stop, and nothing on its way tells it to go on.
Calm(s) == told[s] = "stop" /\ \A i \in DOMAIN queue[s] : queue[s][i].kind # "resume"

\* What reached the lane when the order of a phase has this result.
Reached(s, phase, result) ==
    /\ phase \in {"awaiting_quiescence", "held"} => Calm(s)
    /\ phase = "stop_sent" /\ (result = "sent" \/ s \in codex) => Calm(s)
    /\ phase = "checkpoint_sent" /\ result = "sent" /\ s \in codex => Calm(s)
    /\ phase = "resume_sent" /\ result = "sent" => told[s] = "go" /\ queue[s] = <<>>

\* The youngest order of the lane.
Youngest(s, kind, tag) ==
    queue[s] # <<>> /\ queue[s][Len(queue[s])].kind = kind /\ queue[s][Len(queue[s])].tag = tag

LaneInv(s) ==
    /\ mail[s] = "pending" => Youngest(s, KindOf(txn[s].phase), "mine")
    /\ \A i \in DOMAIN queue[s] : queue[s][i].tag = "mine" => i = Len(queue[s]) /\ mail[s] = "pending"
    /\ \A i \in DOMAIN queue[s] : queue[s][i].tag = "draft" =>
          i = Len(queue[s]) /\ pc = "write" /\ lane = s /\ draft = "pending"
    /\ mail[s] # "none" => txn[s].phase \in Sending
    /\ Reached(s, txn[s].phase, mail[s])
    /\ txn[s].backend = "codex" => s \in codex
    /\ s \notin meddled => hold[s] \in {"none"} \cup Frozen
    /\ txn[s].phase # "none" =>
          Covered(s) \/ (txn[s].phase = "resume_sent" /\ mail[s] = "sent")

\* Between the order and the record that names it.
WriteInv ==
    /\ mail[lane] # "pending" /\ draft # "none" /\ next.phase \in Sending
    /\ next.backend = "codex" => lane \in codex
    /\ draft = "pending" => Youngest(lane, KindOf(next.phase), "draft")
    /\ Covered(lane)
    /\ Reached(lane, next.phase, draft)

\* What a sweep remembers still holds when it is used.
MemoryInv ==
    /\ pc \in {"clear", "forget"} => todo \subseteq meddled
    /\ pc = "reconcile" => \A s \in todo : known[s] \in Frozen /\ Covered(s)
    /\ pc \in {"hold", "begin"} => \A s \in todo : verdict[s] \in Limits
    /\ pc = "begin" => verdict[lane] \in Limits
    /\ pc \in {"begin", "shedbegin"} => Covered(lane)
    /\ pc = "write" => WriteInv

GuardInv == TypeOK /\ (\A s \in Lanes : LaneInv(s)) /\ MemoryInv

\* The value of a lane without a transaction.
LEMMA NoTxnTyped == NoTxn \in Txns /\ NoTxn.phase = "none" /\ NoTxn.backend = "claude"
  BY Zenon DEF NoTxn, Txn, Txns

\* Retag renames tags and leaves everything else.
LEMMA Retagged ==
    ASSUME NEW q \in Seq(Orders), NEW from \in Tags, NEW to \in Tags
    PROVE  /\ Retag(q, from, to) \in Seq(Orders)
           /\ Len(Retag(q, from, to)) = Len(q)
           /\ DOMAIN Retag(q, from, to) = DOMAIN q
           /\ q = <<>> <=> Retag(q, from, to) = <<>>
           /\ \A i \in DOMAIN q :
                 /\ Retag(q, from, to)[i].kind = q[i].kind
                 /\ Retag(q, from, to)[i].tag = IF q[i].tag = from THEN to ELSE q[i].tag
<1> DEFINE r == Retag(q, from, to)
<1>1. \A i \in DOMAIN q : q[i] \in Orders
  OBVIOUS
<1>2. \A i \in DOMAIN q : r[i] \in Orders /\ r[i].kind = q[i].kind /\ r[i].tag = IF q[i].tag = from THEN to ELSE q[i].tag
  BY Zenon, <1>1 DEF Retag, Orders, Tags
<1>3. DOMAIN q = 1..Len(q) /\ Len(q) \in Nat
  OBVIOUS
<1>4. r = [i \in 1..Len(q) |-> r[i]] /\ DOMAIN r = DOMAIN q
  BY Zenon, <1>3 DEF Retag
<1> HIDE DEF r
<1>5. r \in Seq(Orders) /\ Len(r) = Len(q)
  BY <1>2, <1>3, <1>4
<1>6. q = <<>> <=> r = <<>>
  BY <1>5
<1>7. QED
  BY Zenon, SMTT(30), <1>2, <1>4, <1>5, <1>6 DEF r

\* Nothing about the lane changed.
LEMMA LaneUntouched ==
    ASSUME NEW s \in Lanes, LaneInv(s), txn'[s] = txn[s], mail'[s] = mail[s], told'[s] = told[s],
           queue'[s] = queue[s], hold'[s] = hold[s], s \in meddled <=> s \in meddled', codex' = codex,
           pc = "write" /\ lane = s /\ draft = "pending" => pc' = "write" /\ lane' = s /\ draft' = "pending"
    PROVE  LaneInv(s)'
  BY Zenon DEF LaneInv, Reached, Calm, Youngest, Covered

\* Another transaction for a lane, with no order of its own.
LEMMA LaneReplaced ==
    ASSUME NEW s \in Lanes, LaneInv(s), TypeOK, pc # "write", NEW t \in Txns, Replace(s, t),
           UNCHANGED <<hold, meddled>>, t.phase \notin Sending,
           t.phase \in {"awaiting_quiescence", "held"} => Calm(s),
           t.backend = "codex" => s \in codex,
           t.phase # "none" => Covered(s)
    PROVE  LaneInv(s)'
<1> DEFINE q == queue[s]
<1>1. q \in Seq(Orders)
  BY Zenon DEF TypeOK, Orders, Tags
<1>2. txn'[s] = t /\ mail'[s] = "none" /\ queue'[s] = Retag(q, "mine", "stray") /\ told' = told /\ codex' = codex
  BY Zenon DEF Replace, TypeOK
<1>3. \A i \in DOMAIN q : q[i].tag # "draft"
  BY Zenon DEF LaneInv
<1> HIDE DEF q
<1>4. /\ DOMAIN queue'[s] = DOMAIN q
      /\ \A i \in DOMAIN q : queue'[s][i].kind = q[i].kind /\ queue'[s][i].tag \notin {"mine", "draft"}
  BY <1>1, <1>2, <1>3, Retagged DEF Tags
<1>5. Calm(s) => Calm(s)'
  BY Zenon, <1>2, <1>4 DEF Calm, q
<1>6. Covered(s) => Covered(s)'
  BY Zenon DEF Covered
<1>7. QED
  BY Zenon, <1>2, <1>4, <1>5, <1>6 DEF LaneInv, Reached, Sending

\* The transaction of a lane changes and keeps its phase and its backend.
LEMMA LaneWaits ==
    ASSUME NEW s \in Lanes, LaneInv(s), txn'[s].phase = txn[s].phase, txn'[s].backend = txn[s].backend,
           UNCHANGED <<hold, meddled, mail, told, queue, codex>>, pc # "write"
    PROVE  LaneInv(s)'
  BY Zenon DEF LaneInv, Reached, Calm, Youngest, Covered

\* Types of what Replace writes.
LEMMA ReplaceTyped ==
    ASSUME TypeOK, NEW s \in Lanes, NEW t \in Txns, Replace(s, t)
    PROVE  /\ txn' \in [Lanes -> Txns] /\ mail' \in [Lanes -> Results]
           /\ queue' \in [Lanes -> Seq(Orders)] /\ told' \in [Lanes -> {"go", "stop"}] /\ codex' \subseteq Lanes
           /\ watch' \in [Lanes -> {"unseen", "same", "quiet", "changed"}] /\ late' \subseteq Lanes
           /\ usage' \in [Lanes -> UsageLevels]
           /\ \A l \in Lanes \ {s} : txn'[l] = txn[l] /\ mail'[l] = mail[l] /\ queue'[l] = queue[l]
<1>1. queue \in [Lanes -> Seq(Orders)]
  BY Zenon DEF TypeOK, Orders, Tags
<1>2. Retag(queue[s], "mine", "stray") \in Seq(Orders)
  BY Zenon, <1>1, Retagged DEF Tags
<1>3. queue' \in [Lanes -> Seq(Orders)]
  BY Zenon, <1>1, <1>2 DEF Replace
<1>4. QED
  BY Zenon, <1>3 DEF Replace, TypeOK, Results

\* A step that replaces the transaction of one lane.
LEMMA Replaced ==
    ASSUME TypeOK, \A l \in Lanes : LaneInv(l), pc # "write", NEW s \in Lanes, NEW t \in Txns, Replace(s, t),
           UNCHANGED <<hold, meddled>>, t.phase \notin Sending,
           t.phase \in {"awaiting_quiescence", "held"} => Calm(s),
           t.backend = "codex" => s \in codex,
           t.phase # "none" => Covered(s)
    PROVE  \A l \in Lanes : LaneInv(l)'
<1> SUFFICES ASSUME NEW l \in Lanes PROVE LaneInv(l)'
  BY Zenon
<1>1. CASE l = s
  BY Zenon, <1>1, LaneReplaced
<1>2. CASE l # s
  <2>1. txn'[l] = txn[l] /\ mail'[l] = mail[l] /\ queue'[l] = queue[l]
    BY Zenon, <1>2, ReplaceTyped
  <2>2. told' = told /\ codex' = codex
    BY Zenon DEF Replace
  <2>3. QED
    BY Zenon, <2>1, <2>2, LaneUntouched
<1>3. QED
  BY Zenon, <1>1, <1>2

\* A step outside "write" that changes nothing about any lane.
LEMMA Untouched ==
    ASSUME \A l \in Lanes : LaneInv(l), pc # "write", UNCHANGED <<hold, meddled, txn, mail, told, queue, codex>>
    PROVE  \A l \in Lanes : LaneInv(l)'
<1> SUFFICES ASSUME NEW l \in Lanes PROVE LaneInv(l)'
  BY Zenon
<1>1. QED
  BY Zenon, LaneUntouched

\* A step beside the sweep that changes nothing about any lane.
LEMMA Beside ==
    ASSUME \A l \in Lanes : LaneInv(l), UNCHANGED <<hold, meddled, txn, mail, told, queue, codex, pc, lane, draft>>
    PROVE  \A l \in Lanes : LaneInv(l)'
<1> SUFFICES ASSUME NEW l \in Lanes PROVE LaneInv(l)'
  BY Zenon
<1>1. QED
  BY Zenon, LaneUntouched

\* A sweep that ends remembers nothing.
LEMMA EndTyped ==
    ASSUME EndSweep
    PROVE  /\ MemoryInv' /\ pc' \in Steps /\ todo' \subseteq Lanes /\ lane' \in Lanes /\ draft' \in Results /\ next' \in Txns
           /\ verdict' \in [Lanes -> UsageLevels] /\ known' \in [Lanes -> Holds] /\ fresh' \subseteq Lanes \X Lanes
<1>1. SomeLane \in Lanes
  BY Zenon, GuardAssumption DEF SomeLane
<1>2. MemoryInv'
  BY Zenon DEF EndSweep, MemoryInv
<1>3. QED
  BY Zenon, <1>1, <1>2, NoTxnTyped, GuardAssumption DEF EndSweep, Steps, Results, Holds, Empty

\* An exception leaves sweep().
LEMMA RaiseKeeps ==
    ASSUME GuardInv, pc # "write", Raise
    PROVE  GuardInv'
<1>1. \A l \in Lanes : LaneInv(l)'
  BY Zenon, Untouched DEF GuardInv, Raise, goals, outbox, world
<1>2. TypeOK'
  BY Zenon, EndTyped DEF GuardInv, TypeOK, Raise, goals, outbox, world, bounds
<1>3. QED
  BY Zenon, <1>1, <1>2, EndTyped DEF GuardInv, Raise

\* shed_lanes stays an order of lanes.
LEMMA StackTyped ==
    ASSUME NEW stack \in SUBSET (Lanes \X Lanes)
    PROVE  /\ \A kept : Restricted(stack, kept) \subseteq Lanes \X Lanes
           /\ \A lanes \in SUBSET Lanes, later \in SUBSET (Lanes \X Lanes) :
                 Followed(stack, lanes, later) \subseteq Lanes \X Lanes
<1>1. On(stack) \subseteq Lanes
  BY Zenon DEF On
<1> QED
  BY Zenon, <1>1 DEF Restricted, Followed

\* advance_load_state stays within the levels.
LEMMA LoadTyped ==
    ASSUME TypeOK, NEW observed \in 0..MaxLevel, NEW clear \in BOOLEAN
    PROVE  advance_load_state(observed, clear)
             \in [level : 0..MaxLevel, observed : 0..MaxLevel, breach : Nat, clear : Nat]
<1>1. /\ load.level \in 0..MaxLevel /\ load.observed \in 0..MaxLevel /\ load.breach \in Nat /\ load.clear \in Nat
      /\ load.breach + 1 \in Nat /\ load.clear + 1 \in Nat
  BY DEF TypeOK
<1> DEFINE b == IF load.observed = observed THEN load.breach + 1 ELSE 1
<1>2. b \in Nat
  BY Zenon, <1>1
<1>3. advance_load_state(observed, clear) =
        IF observed > load.level
        THEN [level |-> IF b >= Sweeps THEN observed ELSE load.level, observed |-> observed,
              breach |-> IF b >= Sweeps THEN 0 ELSE b, clear |-> 0]
        ELSE IF load.level > 0 /\ clear
        THEN [level |-> IF load.clear + 1 >= Sweeps THEN 0 ELSE load.level, observed |-> observed,
              breach |-> 0, clear |-> IF load.clear + 1 >= Sweeps THEN 0 ELSE load.clear + 1]
        ELSE [level |-> load.level, observed |-> observed, breach |-> 0, clear |-> 0]
  BY Zenon DEF advance_load_state
<1> HIDE DEF b
<1>4. QED
  BY <1>1, <1>2, <1>3, GuardAssumption

\* A sweep begins; only what somebody else superseded is to be cleared.
LEMMA BeginSweepKeeps ==
    ASSUME GuardInv, BeginSweep
    PROVE  GuardInv'
<1>1. pc # "write" /\ pc = "idle"
  BY Zenon DEF BeginSweep
<1>2. \A l \in Lanes : LaneInv(l)'
  BY Zenon, <1>1, Untouched DEF GuardInv, BeginSweep, goals, world
<1>3. load' \in [level : 0..MaxLevel, observed : 0..MaxLevel, breach : Nat, clear : Nat]
  BY Zenon, LoadTyped DEF GuardInv, BeginSweep
<1>4. TypeOK'
  BY Zenon, <1>3 DEF GuardInv, TypeOK, BeginSweep, goals, world, bounds, Steps
<1>5. MemoryInv'
  BY Zenon DEF GuardInv, LaneInv, MemoryInv, BeginSweep, goals, TypeOK, Frozen, Limits
<1>6. QED
  BY Zenon, <1>2, <1>4, <1>5 DEF GuardInv

\* A superseded goal is closed.
LEMMA ClearKeeps ==
    ASSUME GuardInv, NEW s \in Lanes, clear_superseded_holds(s)
    PROVE  GuardInv'
<1>1. pc = "clear" /\ s \in todo
  BY Zenon DEF clear_superseded_holds
<1>2. CASE Raise
  BY Zenon, <1>1, <1>2, RaiseKeeps
<1>3. CASE ~Raise
  <2>1. /\ hold' = [hold EXCEPT ![s] = "gone"] /\ due' = due \ {s} /\ pc' = "forget" /\ lane' = s
        /\ UNCHANGED <<meddled, outbox, world, bounds, todo, draft, next, verdict, known, fresh>>
    BY Zenon, <1>3 DEF clear_superseded_holds
  <2>2. TypeOK'
    BY Zenon, <2>1 DEF GuardInv, TypeOK, outbox, world, bounds, Steps, Holds
  <2>3. s \in meddled
    BY Zenon, <1>1 DEF GuardInv, MemoryInv
  <2>4. ASSUME NEW l \in Lanes PROVE LaneInv(l)'
    <3>1. CASE l = s
      BY Zenon, <1>1, <2>1, <2>3, <3>1 DEF GuardInv, LaneInv, Reached, Calm, Youngest, Covered, outbox, world
    <3>2. CASE l # s
      <4>1. hold'[l] = hold[l]
        BY Zenon, <2>1, <3>2 DEF GuardInv, TypeOK
      <4>2. QED
        BY Zenon, <1>1, <2>1, <4>1, LaneUntouched DEF GuardInv, outbox, world
    <3>3. QED
      BY Zenon, <3>1, <3>2
  <2>5. MemoryInv'
    BY Zenon, <1>1, <2>1 DEF GuardInv, MemoryInv
  <2>6. QED
    BY Zenon, <2>2, <2>4, <2>5 DEF GuardInv
<1>4. QED
  BY Zenon, <1>2, <1>3

\* A step that replaces a transaction and goes on with its loop.
LEMMA ReplaceContinues ==
    ASSUME GuardInv, pc # "write", NEW s \in Lanes, NEW t \in Txns, Replace(s, t),
           UNCHANGED <<goals, load, shed, bounds>>,
           NEW at \in {"clear", "reconcile", "pause", "hold", "resume"}, Continue(at, s),
           at = "clear" => pc \in {"clear", "forget"}, at = "reconcile" => pc = "reconcile",
           at = "hold" => pc \in {"hold", "begin"},
           t.phase \notin Sending,
           t.phase \in {"awaiting_quiescence", "held"} => Calm(s),
           t.backend = "codex" => s \in codex,
           t.phase # "none" => Covered(s)
    PROVE  GuardInv'
<1>1. \A l \in Lanes : LaneInv(l)'
  BY Zenon, Replaced DEF GuardInv, goals
<1>2. TypeOK'
  <2>1. /\ txn' \in [Lanes -> Txns] /\ mail' \in [Lanes -> Results]
        /\ queue' \in [Lanes -> Seq(Orders)] /\ told' \in [Lanes -> {"go", "stop"}] /\ codex' \subseteq Lanes
        /\ watch' \in [Lanes -> {"unseen", "same", "quiet", "changed"}] /\ late' \subseteq Lanes
        /\ usage' \in [Lanes -> UsageLevels]
    BY Zenon, ReplaceTyped DEF GuardInv
  <2>2. QED
    BY Zenon, <2>1 DEF GuardInv, TypeOK, Continue, goals, bounds, Steps, Orders, Tags
<1>3. MemoryInv'
  BY Zenon DEF GuardInv, MemoryInv, Continue, goals, Covered
<1>4. QED
  BY Zenon, <1>1, <1>2, <1>3 DEF GuardInv

\* The transaction of a superseded goal is removed.
LEMMA ForgetKeeps ==
    ASSUME GuardInv, ForgetSuperseded
    PROVE  GuardInv'
  BY Zenon, ReplaceContinues, NoTxnTyped
     DEF ForgetSuperseded, remove_transaction, Sending, GuardInv, TypeOK

\* The goals are read once for the rest of the sweep.
LEMMA ReadGoalsKeeps ==
    ASSUME GuardInv, ReadGoals
    PROVE  GuardInv'
<1>1. pc # "write"
  BY Zenon DEF ReadGoals
<1>2. \A l \in Lanes : LaneInv(l)'
  BY Zenon, <1>1, Untouched DEF GuardInv, ReadGoals, goals, world
<1>3. shed' \subseteq Lanes \X Lanes
  BY Zenon, StackTyped DEF ReadGoals, GuardInv, TypeOK
<1>4. TypeOK'
  BY Zenon, <1>3 DEF GuardInv, TypeOK, ReadGoals, goals, world, bounds, Steps
<1>5. MemoryInv'
  BY Zenon DEF MemoryInv, ReadGoals, goals, Covered
<1>6. QED
  BY Zenon, <1>2, <1>4, <1>5 DEF GuardInv

\* A hold without a transaction gets one.
LEMMA ReconcileKeeps ==
    ASSUME GuardInv, NEW s \in Lanes, Reconcile(s)
    PROVE  GuardInv'
<1>1. pc = "reconcile" /\ s \in todo /\ Continue("reconcile", s) /\ UNCHANGED <<goals, load, shed, bounds>>
  BY Zenon DEF Reconcile
<1>2. known[s] \in Frozen /\ Covered(s)
  BY Zenon, <1>1 DEF GuardInv, MemoryInv
<1>3. CASE Replace(s, Txn("pause_requested", "claude", known[s], FALSE))
  <2> DEFINE t == Txn("pause_requested", "claude", known[s], FALSE)
  <2>1. t \in Txns /\ t.phase = "pause_requested" /\ t.backend = "claude"
    BY Zenon, <1>2 DEF Phases, PausePhases, Txn, Txns
  <2> HIDE DEF t
  <2>2. Replace(s, t)
    BY Zenon, <1>3 DEF t
  <2>3. QED
    BY Zenon, <1>1, <1>2, <2>1, <2>2, ReplaceContinues DEF Sending
<1>4. CASE UNCHANGED <<txn, world>>
  <2>1. \A l \in Lanes : LaneInv(l)'
    BY Zenon, <1>1, <1>4, Untouched DEF GuardInv, goals, world
  <2>2. TypeOK'
    BY Zenon, <1>1, <1>4 DEF GuardInv, TypeOK, Continue, goals, world, bounds, Steps
  <2>3. MemoryInv'
    BY Zenon, <1>1 DEF GuardInv, MemoryInv, Continue, goals, Covered
  <2>4. QED
    BY Zenon, <2>1, <2>2, <2>3 DEF GuardInv
<1>5. QED
  BY Zenon, <1>3, <1>4 DEF Reconcile

\* The loop over the pausing lanes begins.
LEMMA PauseLoopKeeps ==
    ASSUME GuardInv, PauseLoop
    PROVE  GuardInv'
<1>1. pc # "write"
  BY Zenon DEF PauseLoop
<1>2. \A l \in Lanes : LaneInv(l)'
  BY Zenon, <1>1, Untouched DEF GuardInv, PauseLoop, goals, world, outbox
<1>3. TypeOK'
  BY Zenon DEF GuardInv, TypeOK, PauseLoop, goals, world, outbox, bounds, Steps, Holds
<1>4. MemoryInv'
  BY Zenon DEF MemoryInv, PauseLoop
<1>5. QED
  BY Zenon, <1>2, <1>3, <1>4 DEF GuardInv

\* The transaction of a goal that is gone is removed.
LEMMA AbandonKeeps ==
    ASSUME GuardInv, NEW s \in Lanes, NEW at \in {"pause", "resume"}, pc = at, Abandon(at, s)
    PROVE  GuardInv'
  BY Zenon, ReplaceContinues, NoTxnTyped DEF Abandon, remove_transaction, Sending

\* The last order of a pause is confirmed, so the lane was told to stop.
LEMMA StoppedKeeps ==
    ASSUME GuardInv, NEW s \in Lanes, pc = "pause", Stopped(s), mail[s] = "sent",
           txn[s].phase = "stop_sent" \/ (txn[s].phase = "checkpoint_sent" /\ txn[s].backend = "codex")
    PROVE  GuardInv'
<1>1. PICK transcript \in BOOLEAN :
         Replace(s, Txn("awaiting_quiescence", txn[s].backend, txn[s].why, transcript))
  BY Zenon DEF Stopped
<1> DEFINE t == Txn("awaiting_quiescence", txn[s].backend, txn[s].why, transcript)
<1>2. txn[s] \in Txns /\ txn[s].backend \in {"claude", "codex"} /\ txn[s].why \in Frozen \cup {"none"}
  BY Zenon DEF GuardInv, TypeOK, Txns
<1>3. t \in Txns /\ t.phase = "awaiting_quiescence" /\ t.backend = txn[s].backend
  BY Zenon, <1>2 DEF Phases, PausePhases, Txn, Txns
<1>4. LaneInv(s)
  BY Zenon, SMTT(30) DEF GuardInv
<1>5. Calm(s) /\ Covered(s) /\ (txn[s].backend = "codex" => s \in codex)
  BY Zenon, SMTT(30), <1>4 DEF LaneInv, Reached
<1> HIDE DEF t
<1>6. Replace(s, t)
  BY Zenon, <1>1 DEF t
<1>7. QED
  BY Zenon, <1>3, <1>5, <1>6, ReplaceContinues DEF Stopped, Sending

\* A quiet lane is recorded as held.
LEMMA HeldKeeps ==
    ASSUME GuardInv, NEW s \in Lanes, pc = "pause", Held(s), txn[s].phase = "awaiting_quiescence"
    PROVE  GuardInv'
<1> DEFINE t == Phase(s, "held")
<1>2. txn[s] \in Txns /\ txn[s].backend \in {"claude", "codex"} /\ txn[s].why \in Frozen \cup {"none"} /\ txn[s].transcript \in BOOLEAN
  BY Zenon DEF GuardInv, TypeOK, Txns
<1>3. t \in Txns /\ t.phase = "held" /\ t.backend = txn[s].backend
  BY Zenon, <1>2 DEF Phases, Phase, Txn, Txns
<1>4. LaneInv(s)
  BY Zenon, SMTT(30) DEF GuardInv
<1>5. Calm(s) /\ Covered(s) /\ (txn[s].backend = "codex" => s \in codex)
  BY Zenon, <1>4 DEF LaneInv, Reached
<1> HIDE DEF t
<1>6. Replace(s, t)
  BY Zenon DEF t, Held
<1>7. QED
  BY Zenon, <1>3, <1>5, <1>6, ReplaceContinues DEF Held, Sending

\* A retry or an escalation keeps the phase and the backend.
LEMMA EscalateTyped ==
    ASSUME NEW t \in Txns, NEW max
    PROVE  /\ escalate_or_retry(t, max) \in Txns
           /\ escalate_or_retry(t, max).phase = t.phase
           /\ escalate_or_retry(t, max).backend = t.backend
<1>1. t.attempts \in Nat /\ t.attempts + 1 \in Nat
  BY DEF Txns
<1>2. /\ [t EXCEPT !.escalated = TRUE] \in Txns /\ [t EXCEPT !.escalated = TRUE].phase = t.phase
      /\ [t EXCEPT !.escalated = TRUE].backend = t.backend
  BY Zenon DEF Txns
<1>3. /\ [t EXCEPT !.attempts = t.attempts + 1] \in Txns /\ [t EXCEPT !.attempts = t.attempts + 1].phase = t.phase
      /\ [t EXCEPT !.attempts = t.attempts + 1].backend = t.backend
  BY Zenon, <1>1 DEF Txns
<1>4. QED
  BY Zenon, <1>2, <1>3 DEF escalate_or_retry

\* A step that leaves the phases and the orders as they are.
LEMMA WaitKeeps ==
    ASSUME GuardInv, pc \in {"pause", "resume"}, NEW s \in Lanes, NEW t \in Txns,
           t.phase = txn[s].phase, t.backend = txn[s].backend,
           txn' = [txn EXCEPT ![s] = t], late' \subseteq Lanes, Continue(LoopOf(t.phase), s),
           UNCHANGED <<goals, load, shed, codex, queue, mail, told, watch, usage, bounds>>
    PROVE  GuardInv'
<1>1. TypeOK'
  BY Zenon DEF GuardInv, TypeOK, Continue, LoopOf, Steps, goals, bounds
<1>2. ASSUME NEW l \in Lanes PROVE LaneInv(l)'
  <2>1. txn'[l].phase = txn[l].phase /\ txn'[l].backend = txn[l].backend
    BY Zenon, SMTT(30) DEF GuardInv, TypeOK
  <2>2. QED
    BY Zenon, <2>1, LaneWaits DEF GuardInv, goals
<1>3. MemoryInv'
  BY Zenon DEF GuardInv, MemoryInv, Continue, LoopOf
<1>4. QED
  BY Zenon, <1>1, <1>2, <1>3 DEF GuardInv

\* A wait for a result.
LEMMA BoundedWaitKeeps ==
    ASSUME GuardInv, pc \in {"pause", "resume"}, NEW s \in Lanes, NEW max, bounded_wait(s, max)
    PROVE  GuardInv'
<1> DEFINE t == IF s \in late THEN escalate_or_retry(txn[s], max) ELSE txn[s]
<1>1. txn[s] \in Txns
  BY Zenon DEF GuardInv, TypeOK
<1>2. t \in Txns /\ t.phase = txn[s].phase /\ t.backend = txn[s].backend
  BY Zenon, <1>1, EscalateTyped
<1>3. /\ txn' = [txn EXCEPT ![s] = t] /\ Continue(LoopOf(t.phase), s)
      /\ late' = (IF t.attempts # txn[s].attempts THEN late \ {s} ELSE late)
      /\ UNCHANGED <<goals, load, shed, codex, queue, mail, told, watch, usage, bounds>>
  BY Zenon DEF bounded_wait
<1>4. late' \subseteq Lanes
  BY Zenon, <1>3 DEF GuardInv, TypeOK
<1> HIDE DEF t
<1>5. QED
  BY Zenon, <1>2, <1>3, <1>4, WaitKeeps

\* An order goes out ahead of the record that names it.
LEMMA EnqueueKeeps ==
    ASSUME GuardInv, pc # "write", NEW s \in Lanes, NEW kind \in Kinds, NEW t \in Txns, Enqueue(s, kind, t),
           mail[s] # "pending", t.phase \in Sending, kind = KindOf(t.phase), t.backend = txn[s].backend,
           txn[s].phase # "none", ~(txn[s].phase = "resume_sent" /\ mail[s] = "sent"),
           kind = "resume" => txn[s].phase \in ResumePhases,
           t.phase = "stop_sent" /\ s \in codex => Calm(s)
    PROVE  GuardInv'
<1> DEFINE q == queue[s]
<1> DEFINE e == [kind |-> kind, tag |-> "draft"]
<1>1. q \in Seq(Orders) /\ e \in Orders /\ e.kind = kind /\ e.tag = "draft"
  BY Zenon DEF GuardInv, TypeOK, Orders, Tags
<1>2. /\ queue' = [queue EXCEPT ![s] = Append(q, e)]
      /\ draft' = "pending" /\ next' = t /\ lane' = s /\ pc' = "write"
      /\ UNCHANGED <<goals, outbox, codex, mail, told, watch, late, usage, bounds, todo, verdict, known, fresh>>
  BY Zenon DEF Enqueue
<1>3. queue \in [Lanes -> Seq(Orders)]
  BY Zenon DEF GuardInv, TypeOK, Orders, Tags
<1>4. LaneInv(s)
  BY Zenon DEF GuardInv
<1> HIDE DEF q, e
<1>5. Append(q, e) \in Seq(Orders)
  BY <1>1
<1>6. queue'[s] = Append(q, e) /\ queue' \in [Lanes -> Seq(Orders)] /\ \A l \in Lanes \ {s} : queue'[l] = queue[l]
  BY Zenon, <1>2, <1>3, <1>5
<1>7. /\ Len(queue'[s]) = Len(q) + 1 /\ DOMAIN queue'[s] = 1..(Len(q) + 1) /\ DOMAIN q = 1..Len(q) /\ Len(q) \in Nat
      /\ queue'[s][Len(q) + 1] = e /\ \A i \in 1..Len(q) : queue'[s][i] = q[i] /\ i \in 1..(Len(q) + 1)
      /\ queue'[s] # <<>>
  BY SMTT(30), <1>1, <1>6
<1>8. TypeOK'
  BY Zenon, <1>2, <1>6 DEF GuardInv, TypeOK, goals, outbox, bounds, Orders, Tags, Results, Steps
<1>9. \A i \in 1..Len(q) : q[i].tag \notin {"mine", "draft"}
  BY Zenon, <1>4, <1>7 DEF LaneInv, q
<1>10. \A i \in DOMAIN queue'[s] : queue'[s][i].tag \in {"mine", "draft"} => i = Len(queue'[s]) /\ queue'[s][i].tag = "draft"
  <2> SUFFICES ASSUME NEW i \in DOMAIN queue'[s], queue'[s][i].tag \in {"mine", "draft"}
               PROVE  i = Len(queue'[s]) /\ queue'[s][i].tag = "draft"
    BY Zenon
  <2>1. i \in 1..Len(q) \/ i = Len(q) + 1
    BY SMTT(30), <1>7
  <2>2. QED
    BY Zenon, <2>1, <1>1, <1>7, <1>9
<1>11. kind # "resume" /\ Calm(s) => Calm(s)'
  <2> SUFFICES ASSUME kind # "resume", Calm(s), NEW i \in DOMAIN queue'[s]
               PROVE  queue'[s][i].kind # "resume"
    BY Zenon, SMTT(30), <1>2 DEF Calm
  <2>1. i \in 1..Len(q) \/ i = Len(q) + 1
    BY SMTT(30), <1>7
  <2>2. QED
    BY Zenon, SMTT(30), <2>1, <1>1, <1>2, <1>7 DEF Calm, q
<1>12. Covered(s) /\ Covered(s)'
  BY Zenon, <1>2, <1>4 DEF LaneInv, Covered, goals
<1>13. LaneInv(s)'
  <2>1. Reached(s, txn[s].phase, mail[s])'
    BY Zenon, <1>2, <1>4, <1>11 DEF LaneInv, Reached, outbox, ResumePhases
  <2>2. QED
    BY Zenon, <1>2, <1>4, <1>10, <1>12, <2>1 DEF LaneInv, outbox, goals
<1>14. \A l \in Lanes \ {s} : LaneInv(l)'
  <2> SUFFICES ASSUME NEW l \in Lanes \ {s} PROVE LaneInv(l)'
    BY Zenon
  <2>1. l \in Lanes /\ LaneInv(l) /\ l # s
    BY Zenon DEF GuardInv
  <2>2. queue'[l] = queue[l]
    BY Zenon, <1>6
  <2>3. txn'[l] = txn[l] /\ mail'[l] = mail[l] /\ told'[l] = told[l] /\ hold'[l] = hold[l]
        /\ (l \in meddled <=> l \in meddled') /\ codex' = codex
    BY Zenon, <1>2 DEF outbox, goals
  <2>4. ~(pc = "write" /\ lane = l /\ draft = "pending")
    BY Zenon, <1>2, <2>1
  <2>5. QED
    BY Zenon, <2>1, <2>2, <2>3, <2>4, LaneUntouched
<1>15. t.phase = "stop_sent" => kind # "resume"
  BY Zenon, SMTT(30) DEF KindOf
<1>16. MemoryInv'
  <2>1. Reached(s, t.phase, "pending")'
    BY Zenon, <1>2, <1>11, <1>15 DEF Reached, Sending
  <2>2. WriteInv'
    BY Zenon, <1>1, <1>2, <1>4, <1>7, <1>12, <2>1 DEF WriteInv, Youngest, LaneInv, Reached, Calm, Covered
  <2>3. QED
    BY Zenon, <1>2, <2>2 DEF MemoryInv
<1>17. QED
  BY Zenon, <1>8, <1>13, <1>14, <1>16 DEF GuardInv

\* A failed order is queued again, or the transaction escalates.
LEMMA RetryKeeps ==
    ASSUME GuardInv, pc \in {"pause", "resume"}, NEW s \in Lanes, NEW kind \in Kinds, mail[s] = "failed",
           retry_with_fresh_order(s, kind), kind = KindOf(txn[s].phase)
    PROVE  GuardInv'
<1> DEFINE t == escalate_or_retry(txn[s], MaxAttempts)
<1>1. txn[s] \in Txns /\ LaneInv(s)
  BY Zenon DEF GuardInv, TypeOK
<1>2. t \in Txns /\ t.phase = txn[s].phase /\ t.backend = txn[s].backend
  BY Zenon, <1>1, EscalateTyped
<1>3. \/ Enqueue(s, kind, t)
      \/ /\ txn' = [txn EXCEPT ![s] = t] /\ Continue(LoopOf(t.phase), s)
         /\ UNCHANGED <<goals, load, shed, world, bounds>>
  BY Zenon, SMTT(30) DEF retry_with_fresh_order
<1> HIDE DEF t
<1>4. txn[s].phase \in Sending
  BY Zenon, SMTT(30), <1>1 DEF LaneInv
<1>5. CASE Enqueue(s, kind, t)
  <2>1. kind = "resume" => txn[s].phase \in ResumePhases
    BY Zenon, SMTT(30), <1>4 DEF KindOf, Sending, ResumePhases
  <2>2. t.phase = "stop_sent" /\ s \in codex => Calm(s)
    BY Zenon, SMTT(30), <1>1, <1>2 DEF LaneInv, Reached
  <2>3. txn[s].phase # "none"
    BY Zenon, <1>4 DEF Sending
  <2>4. QED
    BY Zenon, SMTT(30), <1>2, <1>4, <1>5, <2>1, <2>2, <2>3, EnqueueKeeps
<1>6. CASE /\ txn' = [txn EXCEPT ![s] = t] /\ Continue(LoopOf(t.phase), s)
           /\ UNCHANGED <<goals, load, shed, world, bounds>>
  <2>1. late' \subseteq Lanes
    BY Zenon, <1>6 DEF GuardInv, TypeOK, world
  <2>2. UNCHANGED <<goals, load, shed, codex, queue, mail, told, watch, usage, bounds>>
    BY Zenon, <1>6 DEF world
  <2>3. QED
    BY Zenon, <1>2, <1>6, <2>1, <2>2, WaitKeeps
<1>7. QED
  BY Zenon, <1>3, <1>5, <1>6

\* Entering a phase that sends an order.
LEMMA PhaseTyped ==
    ASSUME GuardInv, NEW s \in Lanes, NEW phase \in Phases
    PROVE  Phase(s, phase) \in Txns /\ Phase(s, phase).phase = phase /\ Phase(s, phase).backend = txn[s].backend
<1>1. txn[s] \in Txns /\ txn[s].backend \in {"claude", "codex"} /\ txn[s].why \in Frozen \cup {"none"} /\ txn[s].transcript \in BOOLEAN
  BY Zenon, SMTT(30) DEF GuardInv, TypeOK, Txns
<1>2. QED
  BY Zenon, <1>1 DEF Phase, Txn, Txns

\* A phase that sends an order is entered.
LEMMA EnterKeeps ==
    ASSUME GuardInv, pc # "write", NEW s \in Lanes, NEW phase \in Sending,
           Enqueue(s, KindOf(phase), Phase(s, phase)),
           \/ phase = "checkpoint_sent" /\ txn[s].phase = "pause_requested"
           \/ phase = "stop_sent" /\ txn[s].phase = "checkpoint_sent" /\ mail[s] = "sent"
           \/ phase = "resume_sent" /\ txn[s].phase = "resume_requested"
    PROVE  GuardInv'
<1> DEFINE t == Phase(s, phase)
<1> DEFINE kind == KindOf(phase)
<1>1. LaneInv(s)
  BY Zenon DEF GuardInv
<1>2. phase \in Phases
  BY Zenon, SMTT(30) DEF Sending, Phases, PausePhases, ResumePhases
<1>3. t \in Txns /\ t.phase = phase /\ t.backend = txn[s].backend
  BY Zenon, <1>2, PhaseTyped
<1>4. kind \in Kinds /\ kind = KindOf(phase)
  BY Zenon DEF KindOf, Kinds
<1>5. Enqueue(s, kind, t)
  BY Zenon, SMTT(30)
<1> HIDE DEF t, kind
<1>6. mail[s] # "pending" /\ txn[s].phase # "none" /\ ~(txn[s].phase = "resume_sent" /\ mail[s] = "sent")
  BY Zenon, <1>1 DEF LaneInv, Sending
<1>7. kind = "resume" => txn[s].phase \in ResumePhases
  BY Zenon, SMTT(30), <1>4 DEF KindOf, ResumePhases
<1>8. t.phase = "stop_sent" /\ s \in codex => Calm(s)
  BY Zenon, SMTT(30), <1>1, <1>3 DEF LaneInv, Reached
<1>9. QED
  BY Zenon, SMTT(30), <1>3, <1>4, <1>5, <1>6, <1>7, <1>8, EnqueueKeeps

\* The phase checkpoint_sent.
LEMMA CheckpointKeeps ==
    ASSUME GuardInv, pc = "pause", NEW s \in Lanes, txn[s].phase = "checkpoint_sent", progress_checkpoint(s)
    PROVE  GuardInv'
<1>1. CASE bounded_wait(s, MaxAttempts)
  BY Zenon, SMTT(30), <1>1, BoundedWaitKeeps
<1>2. CASE mail[s] = "failed" /\ retry_with_fresh_order(s, "checkpoint")
  BY Zenon, <1>2, RetryKeeps DEF KindOf, Kinds
<1>3. CASE mail[s] = "sent" /\ txn[s].backend = "codex" /\ Stopped(s)
  BY Zenon, <1>3, StoppedKeeps
<1>4. CASE mail[s] = "sent" /\ Enqueue(s, "stop", Phase(s, "stop_sent"))
  <2>1. KindOf("stop_sent") = "stop" /\ "stop_sent" \in Sending
    BY Zenon DEF KindOf, Sending
  <2>2. QED
    BY Zenon, <1>4, <2>1, EnterKeeps
<1>5. QED
  BY Zenon, SMTT(30), <1>1, <1>2, <1>3, <1>4 DEF progress_checkpoint

\* The phase stop_sent.
LEMMA StopKeeps ==
    ASSUME GuardInv, pc = "pause", NEW s \in Lanes, txn[s].phase = "stop_sent", progress_stop(s)
    PROVE  GuardInv'
<1>1. CASE bounded_wait(s, MaxAttempts)
  BY Zenon, <1>1, BoundedWaitKeeps
<1>2. CASE mail[s] = "failed" /\ retry_with_fresh_order(s, "stop")
  BY Zenon, <1>2, RetryKeeps DEF KindOf, Kinds
<1>3. CASE mail[s] = "sent" /\ Stopped(s)
  BY Zenon, <1>3, StoppedKeeps
<1>4. QED
  BY Zenon, <1>1, <1>2, <1>3 DEF progress_stop

\* The transcript moved, and the quiet window starts again.
LEMMA ObserveKeeps ==
    ASSUME GuardInv, pc = "pause", NEW s \in Lanes, Observe(s)
    PROVE  GuardInv'
<1>1. \A l \in Lanes : LaneInv(l)'
  BY Zenon, SMTT(30), Untouched DEF GuardInv, Observe, goals, outbox
<1>2. TypeOK'
  BY Zenon DEF GuardInv, TypeOK, Observe, Continue, goals, outbox, bounds, Steps
<1>3. MemoryInv'
  BY Zenon DEF MemoryInv, Observe, Continue
<1>4. QED
  BY Zenon, <1>1, <1>2, <1>3 DEF GuardInv

\* The phase awaiting_quiescence.
LEMMA QuiescenceKeeps ==
    ASSUME GuardInv, pc = "pause", NEW s \in Lanes, txn[s].phase = "awaiting_quiescence", advance_quiescence(s)
    PROVE  GuardInv'
<1>1. CASE bounded_wait(s, 1) \/ bounded_wait(s, MaxAttempts)
  BY Zenon, <1>1, BoundedWaitKeeps
<1>2. CASE Observe(s)
  BY Zenon, <1>2, ObserveKeeps
<1>3. CASE Held(s)
  BY Zenon, <1>3, HeldKeeps
<1>4. CASE Raise
  BY Zenon, SMTT(30), <1>4, RaiseKeeps
<1>5. QED
  BY Zenon, <1>1, <1>2, <1>3, <1>4 DEF advance_quiescence

\* progress_pause_transaction in any phase.
LEMMA ProgressPauseKeeps ==
    ASSUME GuardInv, NEW s \in Lanes, progress_pause_transaction(s)
    PROVE  GuardInv'
<1>1. pc = "pause"
  BY Zenon DEF progress_pause_transaction
<1>2. CASE Abandon("pause", s)
  BY Zenon, <1>1, <1>2, AbandonKeeps
<1>3. CASE txn[s].phase = "pause_requested" /\ Enqueue(s, "checkpoint", Phase(s, "checkpoint_sent"))
  <2>1. KindOf("checkpoint_sent") = "checkpoint" /\ "checkpoint_sent" \in Sending
    BY Zenon DEF KindOf, Sending
  <2>2. QED
    BY Zenon, <1>1, <1>3, <2>1, EnterKeeps
<1>4. CASE txn[s].phase = "checkpoint_sent" /\ progress_checkpoint(s)
  BY Zenon, <1>1, <1>4, CheckpointKeeps
<1>5. CASE txn[s].phase = "stop_sent" /\ progress_stop(s)
  BY Zenon, <1>1, <1>5, StopKeeps
<1>6. CASE txn[s].phase = "awaiting_quiescence" /\ advance_quiescence(s)
  BY Zenon, <1>1, <1>6, QuiescenceKeeps
<1>7. QED
  BY Zenon, <1>2, <1>3, <1>4, <1>5, <1>6 DEF progress_pause_transaction

\* The transaction names the order that was queued for it, whatever became of it meanwhile.
LEMMA UpsertKeeps ==
    ASSUME GuardInv, upsert_transaction
    PROVE  GuardInv'
<1> DEFINE q == queue[lane]
<1> DEFINE r == Retag(q, "mine", "stray")
<1> DEFINE p == Retag(r, "draft", "mine")
<1>1. pc = "write" /\ lane \in Lanes /\ LaneInv(lane) /\ WriteInv
  BY Zenon DEF GuardInv, TypeOK, MemoryInv, upsert_transaction
<1>2. queue \in [Lanes -> Seq(Orders)] /\ q \in Seq(Orders)
  BY Zenon, <1>1 DEF GuardInv, TypeOK, Orders, Tags
<1>3. /\ r \in Seq(Orders) /\ Len(r) = Len(q) /\ DOMAIN r = DOMAIN q
      /\ \A i \in DOMAIN q : r[i].kind = q[i].kind /\ r[i].tag = IF q[i].tag = "mine" THEN "stray" ELSE q[i].tag
      /\ q = <<>> <=> r = <<>>
  BY Zenon, <1>2, Retagged DEF Tags
<1> HIDE DEF r
<1>4. /\ p \in Seq(Orders) /\ Len(p) = Len(r) /\ DOMAIN p = DOMAIN r
      /\ \A i \in DOMAIN r : p[i].kind = r[i].kind /\ p[i].tag = IF r[i].tag = "draft" THEN "mine" ELSE r[i].tag
      /\ r = <<>> <=> p = <<>>
  BY Zenon, <1>3, Retagged DEF Tags
<1> HIDE DEF p, q
<1>5. \A i \in DOMAIN q : p[i].kind = q[i].kind /\ p[i].tag # "draft" /\ (p[i].tag = "mine" <=> q[i].tag = "draft")
  BY Zenon, <1>3, <1>4
<1>6. /\ txn' = [txn EXCEPT ![lane] = next] /\ mail' = [mail EXCEPT ![lane] = draft]
      /\ queue' = [queue EXCEPT ![lane] = p] /\ late' = late \ {lane}
      /\ pc' = LoopOf(next.phase) /\ todo' = todo \ {lane} /\ draft' = "none" /\ next' = NoTxn /\ lane' = SomeLane
      /\ UNCHANGED <<goals, load, shed, codex, told, watch, usage, verdict, known, fresh, bounds>>
  BY Zenon DEF upsert_transaction, p, r, q
<1>7. SomeLane \in Lanes
  BY Zenon, SMTT(30), GuardAssumption DEF SomeLane
<1>8. TypeOK'
  <2>1. queue' \in [Lanes -> Seq(Orders)]
    BY Zenon, <1>2, <1>4, <1>6
  <2>2. QED
    BY Zenon, <1>6, <1>7, <2>1, NoTxnTyped DEF GuardInv, TypeOK, goals, bounds, LoopOf, Steps, Results, Orders, Tags
<1>9. txn'[lane] = next /\ mail'[lane] = draft /\ queue'[lane] = p
  BY Zenon, <1>1, <1>2, <1>6 DEF GuardInv, TypeOK
<1> DEFINE w == lane
<1>10. w \in Lanes /\ \A l \in Lanes \ {w} : LaneInv(l)'
  <2> SUFFICES ASSUME NEW l \in Lanes, l # lane PROVE LaneInv(l)'
    BY Zenon, SMTT(30), <1>1
  <2>1. txn'[l] = txn[l] /\ mail'[l] = mail[l] /\ queue'[l] = queue[l]
    BY Zenon, SMTT(30), <1>2, <1>6 DEF GuardInv, TypeOK
  <2>2. QED
    BY Zenon, <1>6, <2>1, LaneUntouched DEF GuardInv, goals
<1>11. ASSUME NEW s \in Lanes, s = lane PROVE LaneInv(s)'
  <2>1. Calm(s) => Calm(s)'
    BY <1>3, <1>4, <1>5, <1>6, <1>9, <1>11 DEF Calm, q
  <2>2. Reached(s, next.phase, draft)
    BY Zenon, <1>1, <1>11 DEF WriteInv
  <2>3. queue[s] = <<>> => queue'[s] = <<>>
    BY Zenon, <1>3, <1>4, <1>9, <1>11 DEF q
  <2>4. Reached(s, txn[s].phase, mail[s])'
    BY Zenon, <1>6, <1>9, <1>11, <2>1, <2>2, <2>3 DEF Reached
  <2>5. \A i \in DOMAIN queue'[s] : queue'[s][i].tag = "mine" => i = Len(queue'[s]) /\ draft = "pending"
    BY Zenon, <1>1, <1>3, <1>4, <1>5, <1>9, <1>11 DEF LaneInv, q
  <2>6. \A i \in DOMAIN queue'[s] : queue'[s][i].tag # "draft"
    BY Zenon, SMTT(30), <1>3, <1>4, <1>5, <1>9, <1>11
  <2>7. draft = "pending" => Youngest(s, KindOf(txn[s].phase), "mine")'
    <3> SUFFICES ASSUME draft = "pending" PROVE Youngest(s, KindOf(txn[s].phase), "mine")'
      BY Zenon, SMTT(30)
    <3>1. q # <<>> /\ q[Len(q)].kind = KindOf(next.phase) /\ q[Len(q)].tag = "draft"
      BY Zenon, <1>1 DEF WriteInv, Youngest, q
    <3>2. Len(q) \in DOMAIN q
      BY SMTT(30), <1>2, <3>1 DEF q
    <3>3. QED
      BY SMTT(30), <1>3, <1>4, <1>5, <1>9, <1>11, <3>1, <3>2 DEF Youngest
  <2>8. Covered(s)'
    BY Zenon, <1>1, <1>6, <1>11 DEF WriteInv, Covered, goals
  <2>9. next.phase \in Sending /\ (next.backend = "codex" => s \in codex)
    BY Zenon, <1>1, <1>11 DEF WriteInv
  <2>10. s \notin meddled' => hold'[s] \in {"none"} \cup Frozen
    BY Zenon, SMTT(30), <2>8 DEF Covered
  <2>11. QED
    BY Zenon, <1>6, <1>9, <1>11, <2>4, <2>5, <2>6, <2>7, <2>8, <2>9, <2>10 DEF LaneInv
<1>12. MemoryInv'
  BY Zenon, <1>6 DEF MemoryInv, LoopOf
<1>13. QED
  BY Zenon, SMTT(30), <1>8, <1>10, <1>11, <1>12 DEF GuardInv

\* The next loop of the sweep begins.
LEMMA GotoKeeps ==
    ASSUME GuardInv, pc # "write", NEW at \in {"hold", "shedhold", "resume"}, NEW lanes \in SUBSET Lanes, Goto(at, lanes),
           at = "hold" => \A s \in lanes : verdict[s] \in Limits,
           UNCHANGED <<goals, outbox, world, bounds, fresh>>
    PROVE  GuardInv'
<1>1. \A l \in Lanes : LaneInv(l)'
  BY Zenon, SMTT(30), Untouched DEF GuardInv, goals, outbox, world
<1>2. TypeOK'
  BY Zenon DEF GuardInv, TypeOK, Goto, goals, outbox, world, bounds, Steps
<1>3. MemoryInv'
  BY Zenon DEF MemoryInv, Goto
<1>4. QED
  BY Zenon, <1>1, <1>2, <1>3 DEF GuardInv

\* The lanes to pause are those with a verdict to pause.
LEMMA PausePlanKeeps ==
    ASSUME GuardInv, PausePlan
    PROVE  GuardInv'
<1> DEFINE lanes == {s \in Lanes : verdict[s] \in Limits /\ hold[s] \in {"none"} \cup (Limits \ {verdict[s]})}
<1>1. lanes \in SUBSET Lanes /\ \A s \in lanes : verdict[s] \in Limits
  BY Zenon
<1>2. Goto("hold", lanes) /\ UNCHANGED <<goals, outbox, world, bounds, fresh>> /\ pc # "write"
  BY Zenon DEF PausePlan
<1> HIDE DEF lanes
<1>3. QED
  BY Zenon, <1>1, <1>2, GotoKeeps

\* The hold comes first.
LEMMA HoldKeeps ==
    ASSUME GuardInv, NEW s \in Lanes, NEW why \in Frozen,
           NEW at \in {"begin", "shedbegin"}, pc # "write", hold_goal(s, why, at),
           at = "begin" => pc = "hold" /\ s \in todo
    PROVE  GuardInv'
<1>1. CASE Raise
  BY Zenon, <1>1, RaiseKeeps
<1>2. CASE ~Raise
  <2>1. /\ hold' = [hold EXCEPT ![s] = why] /\ due' = due \ {s} /\ pc' = at /\ lane' = s
        /\ UNCHANGED <<meddled, outbox, world, bounds, todo, draft, next, verdict, known, fresh>>
    BY Zenon, SMTT(30), <1>2 DEF hold_goal
  <2>2. TypeOK'
    BY Zenon, <2>1 DEF GuardInv, TypeOK, outbox, world, bounds, Steps, Holds, Frozen, Limits
  <2>3. hold'[s] = why
    BY Zenon, <2>1 DEF GuardInv, TypeOK
  <2>4. ASSUME NEW l \in Lanes PROVE LaneInv(l)'
    <3>1. CASE l = s
      BY Zenon, <2>1, <2>3, <3>1 DEF GuardInv, LaneInv, Reached, Calm, Youngest, Covered, outbox, world
    <3>2. CASE l # s
      <4>1. hold'[l] = hold[l]
        BY Zenon, SMTT(30), <2>1, <3>2 DEF GuardInv, TypeOK
      <4>2. QED
        BY Zenon, SMTT(30), <2>1, <4>1, LaneUntouched DEF GuardInv, outbox, world
    <3>3. QED
      BY Zenon, <3>1, <3>2
  <2>5. MemoryInv'
    BY Zenon, <2>1, <2>3 DEF GuardInv, MemoryInv, Covered
  <2>6. QED
    BY Zenon, <2>2, <2>4, <2>5 DEF GuardInv
<1>3. QED
  BY Zenon, <1>1, <1>2

\* apply_pause writes the hold.
LEMMA ApplyHoldKeeps ==
    ASSUME GuardInv, NEW s \in Lanes, ApplyPauseHold(s)
    PROVE  GuardInv'
<1>1. pc = "hold" /\ s \in todo /\ hold_goal(s, verdict[s], "begin")
  BY Zenon DEF ApplyPauseHold
<1>2. verdict[s] \in Frozen
  BY Zenon, <1>1 DEF GuardInv, MemoryInv, Frozen
<1>3. QED
  BY Zenon, <1>1, <1>2, HoldKeeps

\* A shed lane is held.
LEMMA ShedHoldKeeps ==
    ASSUME GuardInv, NEW s \in Lanes, ShedHold(s)
    PROVE  GuardInv'
<1>1. pc = "shedhold" /\ hold_goal(s, "load", "shedbegin")
  BY Zenon DEF ShedHold
<1>2. "load" \in Frozen
  BY Zenon DEF Frozen
<1>3. QED
  BY Zenon, <1>1, <1>2, HoldKeeps

\* apply_pause writes the transaction of a lane that is held.
LEMMA ApplyTransactionKeeps ==
    ASSUME GuardInv, ApplyPauseTransaction
    PROVE  GuardInv'
<1> DEFINE t == Txn("pause_requested", Backend(lane), verdict[lane], FALSE)
<1>1. /\ pc = "begin" /\ Replace(lane, t) /\ Continue("hold", lane)
      /\ UNCHANGED <<goals, load, shed, bounds>>
  BY Zenon DEF ApplyPauseTransaction
<1>2. lane \in Lanes /\ Covered(lane) /\ verdict[lane] \in Frozen
  BY Zenon, <1>1 DEF GuardInv, TypeOK, MemoryInv, Frozen
<1>3. t \in Txns /\ t.phase = "pause_requested" /\ (t.backend = "codex" => lane \in codex)
  BY Zenon, <1>2 DEF Txn, Txns, Backend, Phases, PausePhases
<1> HIDE DEF t
<1>4. QED
  BY Zenon, <1>1, <1>2, <1>3, ReplaceContinues DEF Sending

\* So does the shedding of a lane.
LEMMA ShedTransactionKeeps ==
    ASSUME GuardInv, ShedTransaction
    PROVE  GuardInv'
<1> DEFINE t == Txn("pause_requested", Backend(lane), "load", FALSE)
<1>1. /\ pc = "shedbegin" /\ Replace(lane, t) /\ pc' = "shedhold" /\ todo' = todo \ {lane}
      /\ UNCHANGED <<goals, load, shed, bounds, lane, draft, next, verdict, known>>
  BY Zenon DEF ShedTransaction
<1>2. lane \in Lanes /\ Covered(lane) /\ "load" \in Frozen
  BY Zenon, <1>1 DEF GuardInv, TypeOK, MemoryInv, Frozen
<1>3. t \in Txns /\ t.phase = "pause_requested" /\ (t.backend = "codex" => lane \in codex)
  BY Zenon, <1>2 DEF Txn, Txns, Backend, Phases, PausePhases
<1> HIDE DEF t
<1>4. \A l \in Lanes : LaneInv(l)'
  BY Zenon, <1>1, <1>2, <1>3, Replaced DEF GuardInv, goals, Sending
<1>5. fresh' \subseteq Lanes \X Lanes
  <2>1. fresh \in SUBSET (Lanes \X Lanes)
    BY Zenon DEF GuardInv, TypeOK
  <2>2. {lane} \in SUBSET Lanes /\ {<<lane, lane>>} \in SUBSET (Lanes \X Lanes)
    BY <1>2
  <2>3. QED
    BY Zenon, <2>1, <2>2, StackTyped DEF ShedTransaction
<1>6. TypeOK'
  <2>1. /\ txn' \in [Lanes -> Txns] /\ mail' \in [Lanes -> Results]
        /\ queue' \in [Lanes -> Seq(Orders)] /\ told' \in [Lanes -> {"go", "stop"}] /\ codex' \subseteq Lanes
        /\ watch' \in [Lanes -> {"unseen", "same", "quiet", "changed"}] /\ late' \subseteq Lanes
        /\ usage' \in [Lanes -> UsageLevels]
    BY Zenon, <1>1, <1>2, <1>3, ReplaceTyped DEF GuardInv
  <2>2. QED
    BY Zenon, <1>1, <1>5, <2>1 DEF GuardInv, TypeOK, goals, bounds, Steps, Orders, Tags
<1>7. MemoryInv'
  BY Zenon, <1>1 DEF MemoryInv
<1>8. QED
  BY Zenon, <1>4, <1>6, <1>7 DEF GuardInv

\* The lanes to shed are chosen.
LEMMA ShedPlanKeeps ==
    ASSUME GuardInv, ShedPlan
    PROVE  GuardInv'
<1>1. pc # "write" /\ UNCHANGED <<goals, outbox, world, bounds, fresh>>
  BY Zenon DEF ShedPlan
<1>2. CASE Goto("resume", ResumeLanes)
  <2>1. ResumeLanes \in SUBSET Lanes
    BY Zenon DEF ResumeLanes
  <2>2. QED
    BY Zenon, <1>1, <1>2, <2>1, GotoKeeps
<1>3. ASSUME NEW chosen \in SUBSET Lanes, Goto("shedhold", chosen) PROVE GuardInv'
  BY Zenon, <1>1, <1>3, GotoKeeps
<1>4. Goto("resume", ResumeLanes) \/ \E chosen \in SUBSET Lanes : Goto("shedhold", chosen)
  <2>1. SUBSET {s \in Lanes : hold[s] = "none"} \subseteq SUBSET Lanes
    BY Zenon
  <2>2. QED
    BY Zenon, <2>1 DEF ShedPlan
<1>5. QED
  BY Zenon, <1>2, <1>3, <1>4

\* The shed list is saved.
LEMMA ShedSaveKeeps ==
    ASSUME GuardInv, ShedSave
    PROVE  GuardInv'
<1>1. pc # "write"
  BY Zenon DEF ShedSave
<1>2. \A l \in Lanes : LaneInv(l)'
  BY Zenon, <1>1, Untouched DEF GuardInv, ShedSave, goals, world
<1>3. shed' \subseteq Lanes \X Lanes
  <2>1. fresh \in SUBSET (Lanes \X Lanes) /\ shed \in SUBSET (Lanes \X Lanes) /\ On(fresh) \in SUBSET Lanes
    BY Zenon DEF GuardInv, TypeOK, On
  <2>2. QED
    BY Zenon, <2>1, StackTyped DEF ShedSave
<1>4. TypeOK'
  BY Zenon, <1>3 DEF GuardInv, TypeOK, ShedSave, Goto, ResumeLanes, goals, world, bounds, Steps, Empty
<1>5. MemoryInv'
  BY Zenon DEF MemoryInv, ShedSave, Goto
<1>6. QED
  BY Zenon, <1>2, <1>4, <1>5 DEF GuardInv

\* The resume was delivered, and the hold lifts.
LEMMA ResumeGoalKeeps ==
    ASSUME GuardInv, NEW s \in Lanes, pc = "resume", txn[s].phase = "resume_sent", mail[s] = "sent", resume_goal(s)
    PROVE  GuardInv'
<1>1. CASE Raise
  BY Zenon, <1>1, RaiseKeeps
<1>2. CASE ~Raise
  <2>1. /\ hold' = [hold EXCEPT ![s] = "none"] /\ due' = due \ {s} /\ pc' = "requeue" /\ lane' = s
        /\ UNCHANGED <<meddled, outbox, world, bounds, todo, draft, next, verdict, known, fresh>>
    BY Zenon, <1>2 DEF resume_goal
  <2>2. TypeOK'
    BY Zenon, <2>1 DEF GuardInv, TypeOK, outbox, world, bounds, Steps, Holds
  <2>3. hold'[s] = "none"
    BY Zenon, <2>1 DEF GuardInv, TypeOK
  <2>4. ASSUME NEW l \in Lanes PROVE LaneInv(l)'
    <3>1. CASE l = s
      BY Zenon, <2>1, <2>3, <3>1 DEF GuardInv, LaneInv, Reached, Calm, Youngest, outbox, world
    <3>2. CASE l # s
      <4>1. hold'[l] = hold[l]
        BY Zenon, SMTT(30), <2>1, <3>2 DEF GuardInv, TypeOK
      <4>2. QED
        BY Zenon, <2>1, <4>1, LaneUntouched DEF GuardInv, outbox, world
    <3>3. QED
      BY Zenon, <3>1, <3>2
  <2>5. MemoryInv'
    BY Zenon, <2>1 DEF MemoryInv
  <2>6. QED
    BY Zenon, SMTT(30), <2>2, <2>4, <2>5 DEF GuardInv
<1>3. QED
  BY Zenon, <1>1, <1>2

\* progress_resume_transaction in any phase.
LEMMA ProgressResumeKeeps ==
    ASSUME GuardInv, NEW s \in Lanes, progress_resume_transaction(s)
    PROVE  GuardInv'
<1>1. pc = "resume"
  BY Zenon DEF progress_resume_transaction
<1>2. CASE Abandon("resume", s)
  BY Zenon, SMTT(30), <1>1, <1>2, AbandonKeeps
<1>3. CASE txn[s].phase = "resume_requested" /\ Enqueue(s, "resume", Phase(s, "resume_sent"))
  <2>1. KindOf("resume_sent") = "resume" /\ "resume_sent" \in Sending
    BY Zenon, SMTT(30) DEF KindOf, Sending
  <2>2. QED
    BY Zenon, <1>1, <1>3, <2>1, EnterKeeps
<1>4. CASE txn[s].phase = "resume_sent" /\ progress_resume_sent(s)
  <2>1. CASE bounded_wait(s, MaxAttempts)
    BY Zenon, SMTT(30), <1>1, <2>1, BoundedWaitKeeps
  <2>2. CASE mail[s] = "failed" /\ retry_with_fresh_order(s, "resume")
    BY Zenon, <1>1, <1>4, <2>2, RetryKeeps DEF KindOf, Kinds
  <2>3. CASE mail[s] = "sent" /\ resume_goal(s)
    BY Zenon, SMTT(30), <1>1, <1>4, <2>3, ResumeGoalKeeps
  <2>4. QED
    BY Zenon, <1>4, <2>1, <2>2, <2>3 DEF progress_resume_sent
<1>5. QED
  BY Zenon, <1>2, <1>3, <1>4 DEF progress_resume_transaction

\* The parked orders are queued again.
LEMMA RequeueKeeps ==
    ASSUME GuardInv, requeue_deferred_for_session
    PROVE  GuardInv'
<1>1. \A l \in Lanes : LaneInv(l)'
  BY Zenon, SMTT(30), Untouched DEF GuardInv, requeue_deferred_for_session, goals, outbox, world
<1>2. TypeOK'
  BY Zenon DEF GuardInv, TypeOK, requeue_deferred_for_session, goals, outbox, world, bounds, Steps
<1>3. MemoryInv'
  BY Zenon DEF MemoryInv, requeue_deferred_for_session
<1>4. QED
  BY Zenon, <1>1, <1>2, <1>3 DEF GuardInv

\* The transaction of a resumed lane is removed.
LEMMA DropKeeps ==
    ASSUME GuardInv, DropTransaction
    PROVE  GuardInv'
<1>1. pc = "drop" /\ Replace(lane, NoTxn) /\ UNCHANGED <<goals, load, shed, bounds>> /\ lane \in Lanes
  BY Zenon DEF DropTransaction, remove_transaction, GuardInv, TypeOK
<1>2. CASE Continue("resume", lane)
  BY Zenon, SMTT(30), <1>1, <1>2, ReplaceContinues, NoTxnTyped DEF Sending
<1>3. CASE pc' = "unshed" /\ UNCHANGED <<todo, lane, draft, next, verdict, known, fresh>>
  <2>1. \A l \in Lanes : LaneInv(l)'
    BY Zenon, SMTT(30), <1>1, NoTxnTyped, Replaced DEF GuardInv, goals, Sending
  <2>2. /\ txn' \in [Lanes -> Txns] /\ mail' \in [Lanes -> Results]
        /\ queue' \in [Lanes -> Seq(Orders)] /\ told' \in [Lanes -> {"go", "stop"}] /\ codex' \subseteq Lanes
        /\ watch' \in [Lanes -> {"unseen", "same", "quiet", "changed"}] /\ late' \subseteq Lanes
        /\ usage' \in [Lanes -> UsageLevels]
    BY Zenon, SMTT(30), <1>1, NoTxnTyped, ReplaceTyped DEF GuardInv
  <2>3. TypeOK'
    BY Zenon, <1>1, <1>3, <2>2 DEF GuardInv, TypeOK, goals, bounds, Steps, Orders, Tags
  <2>4. MemoryInv'
    BY Zenon, <1>3 DEF MemoryInv
  <2>5. QED
    BY Zenon, <2>1, <2>3, <2>4 DEF GuardInv
<1>4. QED
  BY Zenon, <1>2, <1>3 DEF DropTransaction

\* A resumed lane leaves the shed list.
LEMMA UnshedKeeps ==
    ASSUME GuardInv, Unshed
    PROVE  GuardInv'
<1>1. \A l \in Lanes : LaneInv(l)'
  BY Zenon, Untouched DEF GuardInv, Unshed, goals, world
<1>2. shed' \subseteq Lanes \X Lanes
  BY Zenon, StackTyped DEF Unshed, GuardInv, TypeOK
<1>3. TypeOK'
  BY Zenon, <1>2 DEF GuardInv, TypeOK, Unshed, Continue, goals, world, bounds, Steps
<1>4. MemoryInv'
  BY Zenon DEF MemoryInv, Unshed, Continue
<1>5. QED
  BY Zenon, <1>1, <1>3, <1>4 DEF GuardInv

\* At most one resume starts, and the sweep returns.
LEMMA FinishKeeps ==
    ASSUME GuardInv, FinishSweep
    PROVE  GuardInv'
<1>1. pc = "resume" /\ EndSweep /\ UNCHANGED <<goals, load, shed, bounds>>
  BY Zenon DEF FinishSweep
<1>2. CASE UNCHANGED <<txn, world>>
  <2>1. Raise
    BY Zenon, <1>1, <1>2 DEF Raise, outbox
  <2>2. QED
    BY Zenon, <1>1, <2>1, RaiseKeeps
<1>3. ASSUME NEW s \in plan_resumes \cup plan_load_resumes,
             Replace(s, Txn("resume_requested", txn[s].backend,
                            IF txn[s].phase = "none" THEN hold[s] ELSE txn[s].why, FALSE))
      PROVE  GuardInv'
  <2> DEFINE why == IF txn[s].phase = "none" THEN hold[s] ELSE txn[s].why
  <2> DEFINE t == Txn("resume_requested", txn[s].backend, why, FALSE)
  <2>1. s \in Lanes /\ hold[s] \in Frozen
    BY Zenon, SMTT(30), <1>3 DEF plan_resumes, plan_load_resumes, On, Frozen, Limits, GuardInv, TypeOK
  <2>2. txn[s].backend \in {"claude", "codex"} /\ why \in Frozen \cup {"none"}
    BY Zenon, SMTT(30), <2>1 DEF GuardInv, TypeOK, Txns
  <2> HIDE DEF why
  <2>3. t \in Txns /\ t.phase = "resume_requested" /\ t.backend = txn[s].backend
    BY Zenon, SMTT(30), <2>2 DEF Txn, Txns, Phases, ResumePhases
  <2>4. Replace(s, t)
    BY Zenon, <1>3 DEF t, why
  <2> HIDE DEF t
  <2>5. t.backend = "codex" => s \in codex
    BY Zenon, <2>1, <2>3 DEF GuardInv, LaneInv
  <2>6. \A l \in Lanes : LaneInv(l)'
    BY Zenon, <1>1, <2>1, <2>3, <2>4, <2>5, Replaced DEF GuardInv, goals, Sending, Covered
  <2>7. /\ txn' \in [Lanes -> Txns] /\ mail' \in [Lanes -> Results]
        /\ queue' \in [Lanes -> Seq(Orders)] /\ told' \in [Lanes -> {"go", "stop"}] /\ codex' \subseteq Lanes
        /\ watch' \in [Lanes -> {"unseen", "same", "quiet", "changed"}] /\ late' \subseteq Lanes
        /\ usage' \in [Lanes -> UsageLevels]
    BY Zenon, SMTT(30), <2>1, <2>3, <2>4, ReplaceTyped DEF GuardInv
  <2>8. TypeOK'
    BY Zenon, <1>1, <2>7, EndTyped DEF GuardInv, TypeOK, goals, bounds, Orders, Tags
  <2>9. QED
    BY Zenon, SMTT(30), <1>1, <2>6, <2>8, EndTyped DEF GuardInv
<1>4. select_next_resume(plan_resumes \cup plan_load_resumes) \subseteq plan_resumes \cup plan_load_resumes
  BY Zenon DEF select_next_resume
<1>5. QED
  BY Zenon, <1>2, <1>3, <1>4 DEF FinishSweep

\* The sweep crashes: an order it did not record is a stray, and no result of it is read.
LEMMA CrashKeeps ==
    ASSUME GuardInv, Crash
    PROVE  GuardInv'
<1>1. /\ queue' = [s \in Lanes |-> Retag(queue[s], "draft", "stray")] /\ faults' = faults + 1 /\ EndSweep
      /\ UNCHANGED <<goals, outbox, codex, mail, told, watch, late, usage, changes>>
  BY Zenon DEF Crash
<1>2. queue \in [Lanes -> Seq(Orders)]
  BY Zenon DEF GuardInv, TypeOK, Orders, Tags
<1>3. queue' \in [Lanes -> Seq(Orders)]
  BY Zenon, <1>1, <1>2, Retagged DEF Tags
<1>4. TypeOK'
  <2>1. faults' \in Nat
    BY <1>1 DEF GuardInv, TypeOK
  <2>2. QED
    BY Zenon, <1>1, <1>3, <2>1, EndTyped DEF GuardInv, TypeOK, goals, outbox, Orders, Tags
<1>5. ASSUME NEW s \in Lanes PROVE LaneInv(s)'
  <2> DEFINE q == queue[s]
  <2>1. q \in Seq(Orders) /\ queue'[s] = Retag(q, "draft", "stray") /\ LaneInv(s)
    BY Zenon, SMTT(30), <1>1, <1>2 DEF GuardInv
  <2> HIDE DEF q
  <2>2. /\ DOMAIN queue'[s] = DOMAIN q /\ Len(queue'[s]) = Len(q) /\ (q = <<>> <=> queue'[s] = <<>>)
        /\ \A i \in DOMAIN q : /\ queue'[s][i].kind = q[i].kind
                               /\ queue'[s][i].tag = IF q[i].tag = "draft" THEN "stray" ELSE q[i].tag
    BY SMTT(30), <2>1, Retagged DEF Tags
  <2>3. Calm(s) => Calm(s)'
    BY Zenon, SMTT(30), <1>1, <2>2 DEF Calm, q
  <2>4. Reached(s, txn[s].phase, mail[s])'
    BY Zenon, <1>1, <2>1, <2>2, <2>3 DEF LaneInv, Reached, outbox, q
  <2>5. mail[s] = "pending" => Youngest(s, KindOf(txn[s].phase), "mine")'
    <3> SUFFICES ASSUME mail[s] = "pending" PROVE Youngest(s, KindOf(txn[s].phase), "mine")'
      BY Zenon
    <3>1. q # <<>> /\ q[Len(q)].kind = KindOf(txn[s].phase) /\ q[Len(q)].tag = "mine"
      BY Zenon, <2>1 DEF LaneInv, Youngest, q
    <3>2. Len(q) \in DOMAIN q
      BY SMTT(30), <2>1, <3>1
    <3>3. QED
      BY Zenon, <1>1, <2>2, <3>1, <3>2 DEF Youngest, outbox
  <2>6. \A i \in DOMAIN queue'[s] : queue'[s][i].tag # "draft" /\ (queue'[s][i].tag = "mine" => i = Len(queue'[s]) /\ mail[s] = "pending")
    BY Zenon, <2>1, <2>2 DEF LaneInv, q
  <2>7. QED
    BY Zenon, <1>1, <2>1, <2>4, <2>5, <2>6 DEF LaneInv, Covered, outbox, goals
<1>6. QED
  BY Zenon, <1>1, <1>4, <1>5, EndTyped DEF GuardInv

\* Somebody else writes the goal.
LEMMA MeddleKeeps ==
    ASSUME GuardInv, NEW s \in Lanes, NEW h \in Holds, Meddle(s, h)
    PROVE  GuardInv'
<1>1. /\ hold' = [hold EXCEPT ![s] = h] /\ due' = due \ {s}
      /\ meddled' = meddled \cup {s} /\ changes' = changes + 1
      /\ UNCHANGED <<outbox, world, memory, faults>>
  BY Zenon, SMTT(30) DEF Meddle
<1>2. TypeOK'
  <2>1. changes' \in Nat
    BY <1>1 DEF GuardInv, TypeOK
  <2>2. QED
    BY Zenon, <1>1, <2>1 DEF GuardInv, TypeOK, outbox, world, memory
<1>3. \A l \in Lanes : Covered(l) => Covered(l)'
  BY Zenon, <1>1 DEF GuardInv, TypeOK, Covered
<1>4. ASSUME NEW l \in Lanes PROVE LaneInv(l)'
  <2>1. CASE l = s
    BY Zenon, <1>1, <2>1 DEF GuardInv, LaneInv, Reached, Calm, Youngest, Covered, outbox, world, memory
  <2>2. CASE l # s
    <3>1. hold'[l] = hold[l] /\ (l \in meddled <=> l \in meddled')
      BY Zenon, SMTT(30), <1>1, <2>2 DEF GuardInv, TypeOK
    <3>2. QED
      BY Zenon, <1>1, <3>1, LaneUntouched DEF GuardInv, outbox, world, memory
  <2>3. QED
    BY Zenon, SMTT(30), <2>1, <2>2
<1>5. pc = "write" => WriteInv'
  <2> SUFFICES ASSUME pc = "write" PROVE WriteInv'
    BY Zenon, SMTT(30)
  <2>1. WriteInv /\ lane \in Lanes /\ Covered(lane)
    BY Zenon DEF GuardInv, MemoryInv, WriteInv, TypeOK
  <2>2. Covered(lane)'
    BY Zenon, SMTT(30), <1>1, <1>3, <2>1 DEF Covered, memory
  <2>3. QED
    BY Zenon, <1>1, <2>1, <2>2 DEF WriteInv, Youngest, Reached, Calm, outbox, world, memory
<1>6. MemoryInv'
  <2>1. todo \subseteq Lanes /\ lane \in Lanes
    BY Zenon DEF GuardInv, TypeOK
  <2>2. QED
    BY Zenon, <1>1, <1>3, <1>5, <2>1 DEF GuardInv, MemoryInv, memory, Covered
<1>7. QED
  BY Zenon, <1>2, <1>4, <1>6 DEF GuardInv

\* Time passes, a transcript moves, a usage snapshot is written.
LEMMA BesideKeeps ==
    ASSUME GuardInv, NEW s \in Lanes,
           LaneActs(s) \/ QuietLongEnough(s) \/ DeadlinePasses(s) \/ WindowResets(s) \/ UsageChanges(s)
    PROVE  GuardInv'
<1>1. UNCHANGED <<hold, meddled, txn, load, shed, codex, mail, told, queue, memory, faults>>
  BY Zenon DEF LaneActs, QuietLongEnough, DeadlinePasses, WindowResets, UsageChanges, goals, outbox, world, bounds
<1>2. \A l \in Lanes : LaneInv(l)'
  BY Zenon, SMTT(30), <1>1, Beside DEF GuardInv, memory
<1>3. due' \subseteq Lanes /\ late' \subseteq Lanes /\ changes' \in Nat
  BY SMTT(30) DEF GuardInv, TypeOK, LaneActs, QuietLongEnough, DeadlinePasses, WindowResets, UsageChanges, goals, outbox, world, bounds
<1>4. watch' \in [Lanes -> {"unseen", "same", "quiet", "changed"}] /\ usage' \in [Lanes -> UsageLevels]
  <2>1. watch \in [Lanes -> {"unseen", "same", "quiet", "changed"}] /\ usage \in [Lanes -> UsageLevels]
    BY Zenon, SMTT(30) DEF GuardInv, TypeOK
  <2>2. CASE LaneActs(s) \/ QuietLongEnough(s)
    BY Zenon, <2>1, <2>2 DEF LaneActs, QuietLongEnough
  <2>3. CASE DeadlinePasses(s) \/ WindowResets(s)
    BY Zenon, <2>1, <2>3 DEF DeadlinePasses, WindowResets, world
  <2>4. CASE UsageChanges(s)
    BY Zenon, SMTT(30), <2>1, <2>4 DEF UsageChanges
  <2>5. QED
    BY Zenon, <2>2, <2>3, <2>4
<1>5. TypeOK'
  BY Zenon, <1>1, <1>3, <1>4 DEF GuardInv, TypeOK, memory
<1>6. MemoryInv'
  BY Zenon, <1>1 DEF GuardInv, MemoryInv, WriteInv, Covered, Youngest, Reached, Calm, memory
<1>7. QED
  BY Zenon, SMTT(30), <1>2, <1>5, <1>6 DEF GuardInv

\* What is left of a queue without its oldest order.
LEMMA Tails ==
    ASSUME NEW q \in Seq(Orders), q # <<>>
    PROVE  /\ Len(q) \in Nat /\ Len(q) >= 1 /\ DOMAIN q = 1..Len(q) /\ Len(q) \in DOMAIN q
           /\ DOMAIN Tail(q) = 1..(Len(q) - 1)
           /\ \A i \in DOMAIN Tail(q) : /\ Tail(q)[i] = q[i + 1] /\ i + 1 \in DOMAIN q /\ Len(q) # 1
                                        /\ i + 1 = Len(q) => i = Len(Tail(q))
           /\ Len(q) = 1 => Tail(q) = <<>>
           /\ Len(q) # 1 => Tail(q) # <<>> /\ Tail(q)[Len(Tail(q))] = q[Len(q)]
<1>1. Len(q) \in Nat /\ Len(q) >= 1 /\ DOMAIN q = 1..Len(q)
  OBVIOUS
<1>2. Tail(q) \in Seq(Orders) /\ Len(Tail(q)) = Len(q) - 1 /\ DOMAIN Tail(q) = 1..(Len(q) - 1)
  BY <1>1
<1>3. \A i \in 1..(Len(q) - 1) : Tail(q)[i] = q[i + 1]
  BY <1>1, <1>2
<1> DEFINE n == Len(q)
<1>4. \A i \in 1..(n - 1) : i + 1 \in 1..n /\ n # 1 /\ (i + 1 = n => i = n - 1)
  <2>1. n \in Nat /\ n >= 1
    BY Zenon, <1>1
  <2> HIDE DEF n
  <2>2. QED
    BY <2>1
<1>5. Len(q) = 1 => Tail(q) = <<>>
  <2> SUFFICES ASSUME Len(q) = 1 PROVE Tail(q) = <<>>
    BY Zenon
  <2>1. Len(Tail(q)) = 0
    BY <1>2
  <2>2. QED
    BY <1>2, <2>1
<1>6. Len(q) # 1 => Tail(q) # <<>> /\ Tail(q)[Len(Tail(q))] = q[Len(q)]
  <2> SUFFICES ASSUME Len(q) # 1 PROVE Tail(q) # <<>> /\ Tail(q)[Len(Tail(q))] = q[Len(q)]
    BY Zenon
  <2>1. Len(q) - 1 \in 1..(Len(q) - 1) /\ (Len(q) - 1) + 1 = Len(q)
    BY <1>1
  <2>2. Tail(q)[Len(q) - 1] = q[Len(q)]
    BY Zenon, <1>3, <2>1
  <2>3. Tail(q) # <<>>
    BY <1>2, <2>1
  <2>4. QED
    BY Zenon, <1>2, <2>2, <2>3
<1>7. Len(q) \in DOMAIN q
  BY SMTT(30), <1>1
<1>8. \A i \in DOMAIN Tail(q) : /\ Tail(q)[i] = q[i + 1] /\ i + 1 \in DOMAIN q /\ Len(q) # 1
                                /\ i + 1 = Len(q) => i = Len(Tail(q))
  <2> SUFFICES ASSUME NEW i \in 1..(n - 1)
               PROVE  /\ Tail(q)[i] = q[i + 1] /\ i + 1 \in DOMAIN q /\ Len(q) # 1
                      /\ i + 1 = Len(q) => i = Len(Tail(q))
    BY Zenon, <1>2
  <2>1. i + 1 \in 1..n /\ n # 1 /\ (i + 1 = n => i = n - 1)
    BY Zenon, <1>4
  <2>2. QED
    BY Zenon, <1>1, <1>2, <1>3, <2>1
<1>9. QED
  BY Zenon, <1>1, <1>2, <1>5, <1>6, <1>7, <1>8

\* The oldest order of a lane has its result: nothing younger overtakes it.
LEMMA DeliverKeeps ==
    ASSUME GuardInv, NEW s \in Lanes, Deliver(s)
    PROVE  GuardInv'
<1> DEFINE q == queue[s]
<1>1. PICK result \in {"sent", "failed"} :
         /\ faults' = IF result = "failed" THEN faults + 1 ELSE faults
         /\ told' = [told EXCEPT ![s] = IF result = "sent" THEN Instructs(s, Head(q).kind) ELSE @]
         /\ mail' = [mail EXCEPT ![s] = IF Head(q).tag = "mine" THEN result ELSE @]
         /\ draft' = IF Head(q).tag = "draft" THEN result ELSE draft
  BY Zenon DEF Deliver
<1>2. /\ q # <<>> /\ queue' = [queue EXCEPT ![s] = Tail(q)]
      /\ UNCHANGED <<goals, outbox, codex, watch, late, usage, changes,
                     pc, todo, lane, next, verdict, known, fresh>>
  BY Zenon DEF Deliver
<1>3. queue \in [Lanes -> Seq(Orders)] /\ q \in Seq(Orders) /\ told \in [Lanes -> {"go", "stop"}] /\ mail \in [Lanes -> Results]
  BY Zenon DEF GuardInv, TypeOK, Orders, Tags
<1>4. LaneInv(s)
  BY Zenon DEF GuardInv
<1> DEFINE h == q[1]
<1>5. Head(q) = h /\ h \in Orders /\ 1 \in DOMAIN q /\ Tail(q) \in Seq(Orders)
  BY <1>2, <1>3
<1>6. /\ told'[s] = (IF result = "sent" THEN Instructs(s, h.kind) ELSE told[s])
      /\ mail'[s] = (IF h.tag = "mine" THEN result ELSE mail[s])
      /\ draft' = (IF h.tag = "draft" THEN result ELSE draft)
      /\ queue'[s] = Tail(q)
      /\ \A l \in Lanes \ {s} : told'[l] = told[l] /\ mail'[l] = mail[l] /\ queue'[l] = queue[l]
  BY Zenon, <1>1, <1>2, <1>3, <1>5
<1>7. Instructs(s, h.kind) \in {"go", "stop"}
  BY Zenon, SMTT(30), <1>3 DEF Instructs
<1> HIDE DEF q, h
<1>8. \A i \in DOMAIN queue'[s] : /\ queue'[s][i] = q[i + 1] /\ i + 1 \in DOMAIN q /\ Len(q) # 1
                                  /\ i + 1 = Len(q) => i = Len(queue'[s])
  BY Zenon, <1>2, <1>3, <1>6, Tails
<1>9. (Len(q) = 1 => queue'[s] = <<>>) /\ (Len(q) # 1 => queue'[s] # <<>> /\ queue'[s][Len(queue'[s])] = q[Len(q)])
  BY Zenon, <1>2, <1>3, <1>6, Tails
<1>10. TypeOK'
  <2>1. /\ queue' \in [Lanes -> Seq(Orders)] /\ told' \in [Lanes -> {"go", "stop"}]
    BY Zenon, <1>1, <1>2, <1>3, <1>5, <1>7 DEF h
  <2>2. faults' \in Nat
    BY SMTT(30), <1>1 DEF GuardInv, TypeOK
  <2>3. mail' \in [Lanes -> Results] /\ draft' \in Results
    BY Zenon, SMTT(30), <1>1, <1>3 DEF GuardInv, TypeOK, Results
  <2>4. QED
    BY Zenon, <1>2, <2>1, <2>2, <2>3 DEF GuardInv, TypeOK, goals, outbox, Orders, Tags
<1>11. Calm(s) => Calm(s)'
  <2> SUFFICES ASSUME Calm(s) PROVE Calm(s)'
    BY Zenon
  <2>1. h.kind # "resume" /\ told[s] = "stop"
    BY Zenon, <1>5 DEF Calm, h, q
  <2>2. told'[s] = "stop"
    BY Zenon, SMTT(30), <1>6, <2>1 DEF Instructs
  <2>3. \A i \in DOMAIN queue'[s] : queue'[s][i].kind # "resume"
    BY Zenon, SMTT(30), <1>8 DEF Calm, q
  <2>4. QED
    BY Zenon, <2>2, <2>3 DEF Calm
<1>12. Len(q) = 1 /\ told'[s] = "stop" => Calm(s)'
  BY Zenon, SMTT(30), <1>8 DEF Calm
<1>13. h.tag = "mine" => Len(q) = 1 /\ mail[s] = "pending"
  BY Zenon, <1>4, <1>5 DEF LaneInv, h, q
<1>14. h.tag = "draft" => Len(q) = 1 /\ pc = "write" /\ lane = s /\ draft = "pending"
  BY Zenon, <1>4, <1>5 DEF LaneInv, h, q
<1>15. LaneInv(s)'
  <2>1. Reached(s, txn[s].phase, mail[s])'
    <3>1. CASE h.tag = "mine"
      <4>1. h.kind = KindOf(txn[s].phase) /\ txn[s].phase \in Sending
        BY Zenon, <1>4, <1>13, <3>1 DEF LaneInv, Youngest, h, q
      <4>2. told'[s] = (IF result = "sent" THEN Instructs(s, h.kind) ELSE told[s]) /\ mail'[s] = result
        BY Zenon, <1>6, <3>1
      <4>3. CASE txn[s].phase = "stop_sent"
        <5>1. s \in codex => Calm(s)'
          BY Zenon, <1>4, <1>11, <4>3 DEF LaneInv, Reached
        <5>2. s \notin codex /\ result = "sent" => Calm(s)'
          BY Zenon, SMTT(30), <1>12, <1>13, <3>1, <4>1, <4>2, <4>3 DEF Instructs, KindOf
        <5>3. QED
          BY Zenon, <1>2, <4>2, <4>3, <5>1, <5>2 DEF Reached, outbox
      <4>4. CASE txn[s].phase = "checkpoint_sent"
        <5>1. s \in codex /\ result = "sent" => Calm(s)'
          BY Zenon, SMTT(30), <1>12, <1>13, <3>1, <4>1, <4>2, <4>4 DEF Instructs, KindOf
        <5>2. QED
          BY Zenon, <1>2, <4>2, <4>4, <5>1 DEF Reached, outbox
      <4>5. CASE txn[s].phase = "resume_sent"
        <5>1. result = "sent" => told'[s] = "go"
          BY Zenon, SMTT(30), <4>1, <4>2, <4>5 DEF Instructs, KindOf
        <5>2. QED
          BY Zenon, <1>2, <1>9, <1>13, <3>1, <4>2, <4>5, <5>1 DEF Reached, outbox
      <4>6. QED
        BY Zenon, SMTT(30), <4>1, <4>3, <4>4, <4>5 DEF Sending
    <3>2. CASE h.tag # "mine"
      <4>1. mail'[s] = mail[s]
        BY Zenon, <1>6, <3>2
      <4>2. Reached(s, txn[s].phase, mail[s]) /\ queue[s] # <<>>
        BY Zenon, <1>2, <1>4 DEF LaneInv, q
      <4>3. QED
        BY Zenon, <1>2, <1>11, <4>1, <4>2 DEF Reached, outbox
    <3>3. QED
      BY Zenon, <3>1, <3>2
  <2>2. mail'[s] = "pending" => Youngest(s, KindOf(txn[s].phase), "mine")'
    <3> SUFFICES ASSUME mail'[s] = "pending" PROVE Youngest(s, KindOf(txn[s].phase), "mine")'
      BY Zenon, SMTT(30)
    <3>1. h.tag # "mine" /\ mail[s] = "pending"
      BY Zenon, SMTT(30), <1>6
    <3>2. q[Len(q)].kind = KindOf(txn[s].phase) /\ q[Len(q)].tag = "mine"
      BY Zenon, <1>4, <3>1 DEF LaneInv, Youngest, q
    <3>3. Len(q) # 1
      BY Zenon, SMTT(30), <3>1, <3>2 DEF h
    <3>4. QED
      BY Zenon, SMTT(30), <1>2, <1>9, <3>2, <3>3 DEF Youngest, outbox
  <2>3. \A i \in DOMAIN queue'[s] : queue'[s][i].tag = "mine" => i = Len(queue'[s]) /\ mail'[s] = "pending"
    <3> SUFFICES ASSUME NEW i \in DOMAIN queue'[s], queue'[s][i].tag = "mine"
                 PROVE  i = Len(queue'[s]) /\ mail'[s] = "pending"
      BY Zenon, SMTT(30)
    <3>1. i + 1 = Len(q) /\ mail[s] = "pending"
      BY Zenon, <1>4, <1>8 DEF LaneInv, q
    <3>2. h.tag # "mine"
      BY Zenon, <1>8, <1>13, <3>1
    <3>3. QED
      BY Zenon, SMTT(30), <1>6, <1>8, <3>1, <3>2
  <2>4. \A i \in DOMAIN queue'[s] : queue'[s][i].tag = "draft" =>
           i = Len(queue'[s]) /\ pc' = "write" /\ lane' = s /\ draft' = "pending"
    <3> SUFFICES ASSUME NEW i \in DOMAIN queue'[s], queue'[s][i].tag = "draft"
                 PROVE  i = Len(queue'[s]) /\ pc' = "write" /\ lane' = s /\ draft' = "pending"
      BY Zenon, SMTT(30)
    <3>1. i + 1 = Len(q) /\ pc = "write" /\ lane = s /\ draft = "pending"
      BY Zenon, <1>4, <1>8 DEF LaneInv, q
    <3>2. h.tag # "draft"
      BY Zenon, <1>8, <1>14, <3>1
    <3>3. QED
      BY Zenon, <1>2, <1>6, <1>8, <3>1, <3>2
  <2>5. mail'[s] # "none" => txn[s].phase \in Sending
    BY Zenon, <1>4, <1>6, <1>13 DEF LaneInv
  <2>6. txn[s].phase # "none" => Covered(s)' \/ (txn[s].phase = "resume_sent" /\ mail'[s] = "sent")
    BY Zenon, <1>2, <1>4, <1>6, <1>13 DEF LaneInv, Covered, goals
  <2>7. QED
    BY Zenon, <1>2, <1>4, <2>1, <2>2, <2>3, <2>4, <2>5, <2>6 DEF LaneInv, outbox, goals
<1>16. \A l \in Lanes \ {s} : LaneInv(l)'
  <2> SUFFICES ASSUME NEW l \in Lanes, l # s PROVE LaneInv(l)'
    BY Zenon, SMTT(30)
  <2>1. lane = l => draft' = draft
    BY Zenon, <1>6, <1>14
  <2>2. QED
    BY Zenon, <1>2, <1>6, <2>1, LaneUntouched DEF GuardInv, goals, outbox
<1>17. pc = "write" => WriteInv'
  <2> SUFFICES ASSUME pc = "write" PROVE WriteInv'
    BY Zenon, SMTT(30)
  <2>1. WriteInv /\ lane \in Lanes
    BY Zenon, SMTT(30) DEF GuardInv, MemoryInv, TypeOK
  <2>2. CASE lane # s
    <3>1. draft' = draft /\ told'[lane] = told[lane] /\ mail'[lane] = mail[lane] /\ queue'[lane] = queue[lane]
      BY Zenon, SMTT(30), <1>6, <1>14, <2>1, <2>2
    <3>2. QED
      BY Zenon, <1>2, <2>1, <3>1 DEF WriteInv, Covered, Youngest, Reached, Calm, goals
  <2>3. CASE lane = s
    <3>1. mail'[s] # "pending"
      BY Zenon, <1>6, <1>13, <2>1, <2>3 DEF WriteInv
    <3>2. draft' # "none"
      BY Zenon, <1>6, <2>1 DEF WriteInv
    <3>3. draft' = "pending" => Youngest(lane, KindOf(next.phase), "draft")'
      <4> SUFFICES ASSUME draft' = "pending" PROVE Youngest(lane, KindOf(next.phase), "draft")'
        BY Zenon, SMTT(30)
      <4>1. h.tag # "draft" /\ draft = "pending"
        BY Zenon, SMTT(30), <1>6
      <4>2. q[Len(q)].kind = KindOf(next.phase) /\ q[Len(q)].tag = "draft"
        BY Zenon, SMTT(30), <2>1, <2>3, <4>1 DEF WriteInv, Youngest, q
      <4>3. Len(q) # 1
        BY Zenon, <4>1, <4>2 DEF h
      <4>4. QED
        BY Zenon, SMTT(30), <1>2, <1>9, <2>3, <4>2, <4>3 DEF Youngest
    <3>4. Reached(lane, next.phase, draft)'
      <4>1. Reached(s, next.phase, draft) /\ next.phase \in Sending
        BY Zenon, SMTT(30), <2>1, <2>3 DEF WriteInv
      <4>2. CASE h.tag # "draft"
        <5>1. draft' = draft /\ queue[s] # <<>>
          BY Zenon, SMTT(30), <1>2, <1>6, <4>2 DEF q
        <5>2. QED
          BY Zenon, <1>2, <1>11, <2>3, <4>1, <5>1 DEF Reached
      <4>3. CASE h.tag = "draft"
        <5>1. h.kind = KindOf(next.phase) /\ draft' = result /\ Len(q) = 1
          BY Zenon, <1>6, <1>14, <2>1, <2>3, <4>3 DEF WriteInv, Youngest, h, q
        <5>2. told'[s] = (IF result = "sent" THEN Instructs(s, h.kind) ELSE told[s])
          BY Zenon, SMTT(30), <1>6
        <5>3. CASE next.phase = "stop_sent"
          <6>1. s \in codex => Calm(s)'
            BY Zenon, <1>11, <4>1, <5>3 DEF Reached
          <6>2. s \notin codex /\ result = "sent" => Calm(s)'
            BY Zenon, SMTT(30), <1>12, <5>1, <5>2, <5>3 DEF Instructs, KindOf
          <6>3. QED
            BY Zenon, SMTT(30), <1>2, <2>3, <5>1, <5>3, <6>1, <6>2 DEF Reached
        <5>4. CASE next.phase = "checkpoint_sent"
          <6>1. s \in codex /\ result = "sent" => Calm(s)'
            BY Zenon, SMTT(30), <1>12, <5>1, <5>2, <5>4 DEF Instructs, KindOf
          <6>2. QED
            BY Zenon, <1>2, <2>3, <5>1, <5>4, <6>1 DEF Reached
        <5>5. CASE next.phase = "resume_sent"
          <6>1. result = "sent" => told'[s] = "go"
            BY Zenon, SMTT(30), <5>1, <5>2, <5>5 DEF Instructs, KindOf
          <6>2. QED
            BY Zenon, <1>2, <1>9, <2>3, <5>1, <5>5, <6>1 DEF Reached
        <5>6. QED
          BY Zenon, SMTT(30), <4>1, <5>3, <5>4, <5>5 DEF Sending
      <4>4. QED
        BY Zenon, <4>2, <4>3
    <3>5. QED
      BY Zenon, <1>2, <2>1, <2>3, <3>1, <3>2, <3>3, <3>4 DEF WriteInv, Covered, goals
  <2>4. QED
    BY Zenon, <2>2, <2>3
<1>18. MemoryInv'
  BY Zenon, <1>2, <1>17 DEF GuardInv, MemoryInv, Covered, goals
<1>19. QED
  BY Zenon, SMTT(30), <1>10, <1>15, <1>16, <1>18 DEF GuardInv

\* Before the first sweep the invariant holds.
LEMMA GuardInitial == Init => GuardInv
<1> SUFFICES ASSUME Init PROVE GuardInv
  BY Zenon, SMTT(30)
<1>1. SomeLane \in Lanes
  BY Zenon, GuardAssumption DEF SomeLane
<1>2. TypeOK
  <2>1. queue \in [Lanes -> Seq([kind : Kinds, tag : {"mine", "draft", "stray"}])]
    BY SMTT(30) DEF Init
  <2>2. load \in [level : 0..MaxLevel, observed : 0..MaxLevel, breach : Nat, clear : Nat]
    BY SMTT(30), GuardAssumption DEF Init
  <2>3. QED
    BY Zenon, SMTT(30), <1>1, <2>1, <2>2, NoTxnTyped, GuardAssumption DEF Init, TypeOK, Holds, Results, Steps, Empty
<1>3. ASSUME NEW s \in Lanes PROVE LaneInv(s)
  <2>1. txn[s] = NoTxn /\ mail[s] = "none" /\ queue[s] = <<>> /\ hold[s] = "none"
    BY Zenon DEF Init
  <2>2. DOMAIN queue[s] = {}
    BY SMTT(30), <2>1
  <2>3. QED
    BY Zenon, <2>1, <2>2, NoTxnTyped DEF LaneInv, Reached
<1>4. MemoryInv
  BY Zenon DEF Init, MemoryInv
<1>5. QED
  BY Zenon, <1>2, <1>3, <1>4 DEF GuardInv

\* Every step preserves the invariant.
LEMMA GuardStep == GuardInv /\ [Next]_vars => GuardInv'
<1> SUFFICES ASSUME GuardInv, [Next]_vars PROVE GuardInv'
  BY Zenon
<1>1. CASE Sweep
  <2>1. CASE \E s \in Lanes : \/ clear_superseded_holds(s) \/ Reconcile(s) \/ progress_pause_transaction(s)
                              \/ ApplyPauseHold(s) \/ ShedHold(s) \/ progress_resume_transaction(s)
    BY Zenon, <2>1, ClearKeeps, ReconcileKeeps, ProgressPauseKeeps, ApplyHoldKeeps, ShedHoldKeeps, ProgressResumeKeeps
  <2>2. QED
    BY Zenon, SMTT(30), <1>1, <2>1, BeginSweepKeeps, ForgetKeeps, ReadGoalsKeeps, PauseLoopKeeps, UpsertKeeps, PausePlanKeeps,
       ApplyTransactionKeeps, ShedPlanKeeps, ShedTransactionKeeps, ShedSaveKeeps, RequeueKeeps, DropKeeps,
       UnshedKeeps, FinishKeeps
       DEF Sweep
<1>2. CASE Crash
  BY Zenon, <1>2, CrashKeeps
<1>3. ASSUME NEW s \in Lanes, Deliver(s) PROVE GuardInv'
  BY Zenon, <1>3, DeliverKeeps
<1>4. ASSUME NEW s \in Lanes,
             LaneActs(s) \/ QuietLongEnough(s) \/ DeadlinePasses(s) \/ WindowResets(s) \/ UsageChanges(s)
      PROVE  GuardInv'
  BY Zenon, <1>4, BesideKeeps
<1>5. ASSUME NEW s \in Lanes, OthersHold(s) \/ OperatorResumes(s) \/ OperatorCloses(s) PROVE GuardInv'
  BY Zenon, <1>5, MeddleKeeps, GuardAssumption DEF OthersHold, OperatorResumes, OperatorCloses, Holds
<1>6. CASE UNCHANGED vars
  <2>1. \A l \in Lanes : LaneInv(l)'
    BY Zenon, SMTT(30), <1>6, Beside DEF GuardInv, vars
  <2>2. TypeOK'
    BY Zenon, <1>6 DEF GuardInv, TypeOK, vars
  <2>3. MemoryInv'
    BY ZenonT(60), <1>6 DEF GuardInv, MemoryInv, WriteInv, Covered, Youngest, Reached, Calm, vars
  <2>4. QED
    BY Zenon, SMTT(30), <2>1, <2>2, <2>3 DEF GuardInv
<1>7. QED
  BY Zenon, <1>1, <1>2, <1>3, <1>4, <1>5, <1>6 DEF Next

\* GuardInv for any lanes, caps and policies and any number of crashes, failed deliveries and
\* operator actions.
THEOREM GuardInvariant == Spec => []GuardInv
<1>1. Init => GuardInv
  BY Zenon, GuardInitial
<1>2. GuardInv /\ [Next]_vars => GuardInv'
  BY Zenon, GuardStep
<1>3. QED
  BY <1>1, <1>2, PTL DEF Spec

\* FreezeCoversTransaction for every set of lanes: whatever crash, failed delivery or operator comes
\* between the writes of apply_pause and progress_resume_transaction, a lane nobody else wrote is
\* frozen while it has a transaction.
THEOREM TransactionsAreFrozen == Spec => []FreezeCoversTransaction
<1>1. GuardInv => FreezeCoversTransaction
  BY Zenon DEF GuardInv, LaneInv, FreezeCoversTransaction, Covered
<1>2. QED
  BY <1>1, GuardInvariant, PTL

\* HeldLaneWasStopped for every set of lanes: one queued order per transaction, and a lane that
\* advance_quiescence records as held was told to stop and not to go on since.
THEOREM HeldLanesWereStopped == Spec => []HeldLaneWasStopped
<1>1. GuardInv => HeldLaneWasStopped
  <2> SUFFICES ASSUME GuardInv PROVE HeldLaneWasStopped
    BY Zenon
  <2>1. ASSUME NEW s \in Lanes
        PROVE  IF mail[s] = "pending" THEN \E i \in DOMAIN queue[s] : Named(s) = {i} ELSE Named(s) = {}
    <3>1. LaneInv(s) /\ queue[s] \in Seq(Orders)
      BY Zenon DEF GuardInv, TypeOK, Orders, Tags
    <3>2. CASE mail[s] = "pending"
      <4>1. queue[s] # <<>> /\ queue[s][Len(queue[s])].tag = "mine"
        BY Zenon, <3>1, <3>2 DEF LaneInv, Youngest
      <4>2. Len(queue[s]) \in DOMAIN queue[s]
        BY Zenon, SMTT(30), <3>1, <4>1, Tails
      <4>3. Named(s) = {Len(queue[s])}
        BY Zenon, <3>1, <4>1, <4>2 DEF Named, LaneInv
      <4>4. QED
        BY Zenon, <3>2, <4>2, <4>3
    <3>3. CASE mail[s] # "pending"
      <4>1. Named(s) = {}
        BY Zenon, <3>1, <3>3 DEF Named, LaneInv
      <4>2. QED
        BY Zenon, <3>3, <4>1
    <3>4. QED
      BY Zenon, <3>2, <3>3
  <2>2. OutboxInv
    BY Zenon, <2>1 DEF GuardInv, LaneInv, OutboxInv, Sending
  <2>3. QED
    BY Zenon, <2>2 DEF GuardInv, LaneInv, Reached, Calm, HeldLaneWasStopped
<1>2. QED
  BY <1>1, GuardInvariant, PTL

\* LiftOnlyAfterResume for every set of lanes: no step of the guard lifts a hold unless the last
\* instruction that reached the lane was to go on.
THEOREM HoldsLiftAfterResume == Spec => LiftOnlyAfterResume
<1>1. ASSUME GuardInv, [Next]_vars
      PROVE  [\A s \in Lanes : hold[s] # "none" /\ hold'[s] = "none" /\ changes' = changes => told[s] = "go"]_vars
  <2> SUFFICES ASSUME Next, NEW s \in Lanes, hold[s] # "none", hold'[s] = "none", changes' = changes
               PROVE  told[s] = "go"
    BY Zenon, <1>1
  <2>0. hold \in [Lanes -> Holds] /\ changes \in Nat /\ hold' # hold
    BY Zenon, SMTT(30), <1>1 DEF GuardInv, TypeOK
  <2>1. CASE Sweep
    <3>1. ASSUME NEW l \in Lanes, clear_superseded_holds(l) PROVE FALSE
      BY Zenon, SMTT(30), <2>0, <3>1 DEF clear_superseded_holds, Raise, goals
    <3>2. ASSUME NEW l \in Lanes, Reconcile(l) PROVE FALSE
      BY Zenon, SMTT(30), <2>0, <3>2 DEF Reconcile, goals
    <3>3. ASSUME NEW l \in Lanes, progress_pause_transaction(l) PROVE FALSE
      <4>1. \A max : bounded_wait(l, max) => FALSE
        BY Zenon, SMTT(30), <2>0 DEF bounded_wait, goals
      <4>2. \A kind, t : Enqueue(l, kind, t) => FALSE
        BY Zenon, SMTT(30), <2>0 DEF Enqueue, goals
      <4>3. \A kind : retry_with_fresh_order(l, kind) => FALSE
        BY Zenon, SMTT(30), <2>0, <4>2 DEF retry_with_fresh_order, goals
      <4>4. ~Stopped(l) /\ ~Held(l) /\ ~Observe(l) /\ ~Raise /\ ~Abandon("pause", l)
        BY Zenon, SMTT(30), <2>0 DEF Stopped, Held, Observe, Raise, Abandon, goals
      <4>5. ~progress_checkpoint(l) /\ ~progress_stop(l) /\ ~advance_quiescence(l)
        BY Zenon, <4>1, <4>2, <4>3, <4>4 DEF progress_checkpoint, progress_stop, advance_quiescence
      <4>6. QED
        BY Zenon, <3>3, <4>2, <4>4, <4>5 DEF progress_pause_transaction
    <3>4. ASSUME NEW l \in Lanes, ApplyPauseHold(l) PROVE FALSE
      <4>1. verdict[l] # "none"
        BY Zenon, SMTT(30), <1>1, <3>4 DEF ApplyPauseHold, GuardInv, MemoryInv, Limits
      <4>2. QED
        BY Zenon, SMTT(30), <2>0, <3>4, <4>1 DEF ApplyPauseHold, hold_goal, Raise, goals
    <3>5. ASSUME NEW l \in Lanes, ShedHold(l) PROVE FALSE
      BY Zenon, SMTT(30), <2>0, <3>5 DEF ShedHold, hold_goal, Raise, goals
    <3>6. ASSUME NEW l \in Lanes, progress_resume_transaction(l) PROVE told[s] = "go"
      <4>1. \A max : bounded_wait(l, max) => FALSE
        BY Zenon, <2>0 DEF bounded_wait, goals
      <4>2. \A kind, t : Enqueue(l, kind, t) => FALSE
        BY Zenon, <2>0 DEF Enqueue, goals
      <4>3. \A kind : retry_with_fresh_order(l, kind) => FALSE
        BY Zenon, <2>0, <4>2 DEF retry_with_fresh_order, goals
      <4>4. ~Raise /\ ~Abandon("resume", l)
        BY Zenon, SMTT(30), <2>0 DEF Raise, Abandon, goals
      <4>5. txn[l].phase = "resume_sent" /\ mail[l] = "sent" /\ resume_goal(l)
        BY Zenon, <3>6, <4>1, <4>2, <4>3, <4>4 DEF progress_resume_transaction, progress_resume_sent
      <4>6. hold' = [hold EXCEPT ![l] = "none"]
        BY Zenon, <4>4, <4>5 DEF resume_goal
      <4>7. l = s
        BY Zenon, SMTT(30), <2>0, <4>6
      <4>8. QED
        BY Zenon, <1>1, <4>5, <4>7 DEF GuardInv, LaneInv, Reached
    <3>7. CASE \/ BeginSweep \/ ForgetSuperseded \/ ReadGoals \/ PauseLoop \/ upsert_transaction
               \/ PausePlan \/ ApplyPauseTransaction \/ ShedPlan \/ ShedTransaction \/ ShedSave
               \/ requeue_deferred_for_session \/ DropTransaction \/ Unshed \/ FinishSweep
      BY Zenon, <2>0, <3>7 DEF BeginSweep, ForgetSuperseded, ReadGoals, PauseLoop, upsert_transaction, PausePlan,
         ApplyPauseTransaction, ShedPlan, ShedTransaction, ShedSave, requeue_deferred_for_session,
         DropTransaction, Unshed, FinishSweep, goals
    <3>8. QED
      BY Zenon, <2>1, <3>1, <3>2, <3>3, <3>4, <3>5, <3>6, <3>7 DEF Sweep
  <2>2. CASE Crash
    BY Zenon, <2>0, <2>2 DEF Crash, goals
  <2>3. ASSUME NEW l \in Lanes,
               Deliver(l) \/ LaneActs(l) \/ QuietLongEnough(l) \/ DeadlinePasses(l) \/ WindowResets(l) \/ UsageChanges(l)
        PROVE  FALSE
    BY Zenon, <2>0, <2>3 DEF Deliver, LaneActs, QuietLongEnough, DeadlinePasses, WindowResets, UsageChanges, goals
  <2>4. ASSUME NEW l \in Lanes, OthersHold(l) \/ OperatorResumes(l) \/ OperatorCloses(l) PROVE FALSE
    BY <2>0, <2>4 DEF OthersHold, OperatorResumes, OperatorCloses, Meddle
  <2>5. QED
    BY Zenon, <2>1, <2>2, <2>3, <2>4 DEF Next
<1>2. QED
  BY <1>1, GuardInvariant, PTL DEF Spec, LiftOnlyAfterResume

=============================================================================
