-------------------------- MODULE Monitor_proofs ----------------------------
(***************************************************************************)
(* Theorems about agent status and the handoff of a lane (AgentStatus),    *)
(* about typing an order into a pane (PaneSend), about supervision of      *)
(* unmet items (Supervision) and about the pass that detects, pursues and  *)
(* records findings (Findings), for every value of their constants. Each   *)
(* part states its inductive invariant, proves that every action preserves *)
(* it, and ends with its theorems.                                         *)
(***************************************************************************)
EXTENDS Findings, AgentStatus, PaneSend, Supervision, TLAPS

\* The findings whose last record is not a close.
OpenOnRecord == {f \in Known : logged[f] = "open"}

\* What the log and the emit state hold at each point of a pass: the log is
\* written first, and without a failure the two agree outside that window.
RecordInv ==
    /\ step \in {"rest", "detected", "counted", "pursued", "logged", "emitted"}
    /\ cur \subseteq Known /\ emit \subseteq Known
    /\ logged \in [Known -> {None, "open", "closed"}]
    /\ failures \in Nat /\ standing \subseteq Standing
    /\ \A f \in emit : logged[f] # None
    /\ step = "logged" => \A f \in cur : logged[f] # None
    /\ step = "emitted" => emit = cur
    /\ failures = 0 =>
         /\ step = "logged" => cur = OpenOnRecord
         /\ step # "logged" => emit = OpenOnRecord
         /\ step # "emitted" /\ verdict = "live" => emit = {}

\* The store holds the claims of a prefix of the journal.
ClaimsInv ==
    /\ turns \in Seq(Excuses \cup {"call"}) /\ Len(turns) <= MaxTurns
    /\ \A c \in claims : c.at \in 1 .. Len(turns)
    /\ \A c \in claims : \A i \in ClaimsIn(turns) : i < c.at => i \in Recorded

\* What the pass has put to the ladder or is about to.
Pursued == ladder \cup (IF step \in {"detected", "counted"} THEN cur ELSE {})

Repeats(c, d) ==
    /\ d.at < c.at /\ d.key = c.key /\ d.item = c.item
    /\ \A j \in (d.at + 1) .. (c.at - 1) : turns[j] # "call"

PursuitInv ==
    failures = 0 => \A c, d \in claims : Repeats(c, d) => Of("false_blocker", c.at) \in Pursued

\* The count in the idle-pursuit file never runs ahead of the clean passes, nor,
\* without a lease, of those at the present digest.
IdleInv ==
    /\ idle \in [known : BOOLEAN, digest : Nat, count : Nat, waited : Nat]
    /\ quiet \in [clean : Nat, still : Nat, digest : Nat, leased : BOOLEAN]
    /\ work \in Nat
    /\ idle.known <=> quiet.clean > 0
    /\ idle.known => idle.digest = quiet.digest
    /\ ~idle.known => idle.count = 0
    /\ idle.count <= quiet.clean
    /\ ~quiet.leased => idle.count <= quiet.still
    /\ step \in {"rest", "detected"} => IdleFinding \notin cur
    /\ IdleIsEarned

FindingsInv == RecordInv /\ ClaimsInv /\ PursuitInv /\ IdleInv

---------------------------------------------------------------------------
\* A claim of detect_blocker_claims is judged a false blocker, a changed excuse
\* or nothing.
LEMMA JudgedIsBlocker ==
    ASSUME NEW c, NEW before
    PROVE  Judged(c, before) \subseteq {Of("false_blocker", c.at), Of("changed_excuse", c.at)}
BY Zenon DEF Judged

\* The rows a pass adds name turns of the journal that the store did not have.
LEMMA FreshRows ==
    ASSUME ClaimsInv, NEW c \in NewRows
    PROVE  /\ c.at \in 1 .. Len(turns) /\ c.at \in ClaimsIn(turns) /\ c.at \notin Recorded
           /\ c.key = turns[c.at] /\ c.item = item
<1>1. PICK i \in ClaimsIn(turns) \ Recorded : c = [at |-> i, key |-> turns[i], item |-> item]
  BY Zenon DEF NewRows
<1>2. c.at = i /\ c.key = turns[i] /\ c.item = item
  BY <1>1
<1>3. i \in DOMAIN turns
  BY <1>1 DEF ClaimsIn
<1>4. DOMAIN turns = 1 .. Len(turns)
  BY DEF ClaimsInv
<1> QED  BY <1>1, <1>2, <1>3, <1>4, Zenon

\* What detect_blocker_claims finds are blocker findings at turns of the journal.
LEMMA DetectedAreBlockers ==
    ASSUME ClaimsInv
    PROVE  Detected.found \subseteq Blockers
<1>1. SUFFICES ASSUME NEW f \in Detected.found
               PROVE  f \in Blockers
  BY Zenon
<1>2. Detected.found = UNION {Judged(c, claims \cup NewRows) : c \in NewRows}
  BY DEF Detected
<1>3. PICK c \in NewRows : f \in Judged(c, claims \cup NewRows)
  BY <1>1, <1>2, Zenon
<1>4. f = Of("false_blocker", c.at) \/ f = Of("changed_excuse", c.at)
  BY <1>3, JudgedIsBlocker, Zenon
<1>5. c.at \in 1 .. MaxTurns
  BY <1>3, FreshRows, BoundsAreNatural DEF ClaimsInv
<1> QED  BY <1>4, <1>5 DEF Blockers

\* Nothing that a pass starts with is an idle finding.
LEMMA OthersAreNotIdle ==
    ASSUME NEW f \in Blockers \cup {Of(s, 0) : s \in Standing}
    PROVE  f # IdleFinding
<1>1. IdleFinding.by = "idle_pursuit"
  BY DEF IdleFinding, Of
<1>2. CASE f \in Blockers
  <2>1. PICK by \in {"false_blocker", "changed_excuse"}, at \in 1 .. MaxTurns : f = Of(by, at)
    BY <1>2 DEF Blockers
  <2>2. f.by \in {"false_blocker", "changed_excuse"}
    BY <2>1 DEF Of
  <2> QED  BY <1>1, <2>2
<1>3. CASE f \in {Of(s, 0) : s \in Standing}
  <2>1. PICK s \in Standing : f = Of(s, 0)
    BY <1>3, Zenon
  <2>2. f.by = s
    BY <2>1 DEF Of
  <2>3. s # "idle_pursuit"
    BY StandingIsOther, Zenon
  <2> QED  BY <1>1, <2>2, <2>3, Zenon
<1> QED  BY <1>2, <1>3, Zenon

\* The findings of a pass are among those the log knows.
LEMMA ReportedIsKnown ==
    ASSUME ClaimsInv, standing \subseteq Standing
    PROVE  /\ {Of(s, 0) : s \in standing} \cup Detected.found \subseteq Known
           /\ IdleFinding \notin {Of(s, 0) : s \in standing} \cup Detected.found
<1>1. {Of(s, 0) : s \in standing} \subseteq {Of(s, 0) : s \in Standing}
  BY Zenon
<1> QED  BY <1>1, DetectedAreBlockers, OthersAreNotIdle, Zenon DEF Known

---------------------------------------------------------------------------
\* A write of the findings log leaves open just what the pass saw, if the emit
\* state agreed with the log before; everything it saw has a record.
LEMMA LogRecordsSeen ==
    ASSUME RecordInv, NEW noted, noted \subseteq Known, WriteLog(noted)
    PROVE  /\ logged' \in [Known -> {None, "open", "closed"}]
           /\ \A f \in noted \cup emit : logged'[f] # None
           /\ emit = OpenOnRecord => {f \in Known : logged'[f] = "open"} = noted
<1>1. \A f \in Known : logged'[f] = IF f \in Opening(noted) THEN "open"
                                    ELSE IF f \in Closing(noted) THEN "closed" ELSE logged[f]
  BY Zenon DEF WriteLog, AfterRecords
<1>2. logged' \in [Known -> {None, "open", "closed"}]
  BY Zenon DEF WriteLog, AfterRecords, RecordInv
<1>3. None # "open" /\ None # "closed"
  BY DEF None
<1>4. ASSUME NEW f \in noted \cup emit
      PROVE  logged'[f] # None
  <2>1. f \in Known
    BY Zenon DEF RecordInv
  <2>2. CASE f \in Opening(noted)
    BY <1>1, <1>3, <2>1, <2>2, Zenon
  <2>3. CASE f \notin Opening(noted)
    <3>1. f \in emit
      BY <1>4, <2>3, Zenon DEF Opening
    <3>2. logged[f] # None
      BY <3>1, Zenon DEF RecordInv
    <3> QED  BY <1>1, <1>3, <2>1, <2>3, <3>2, Zenon
  <2> QED  BY <2>2, <2>3, Zenon
<1>5. ASSUME emit = OpenOnRecord, NEW f \in Known
      PROVE  logged'[f] = "open" <=> f \in noted
  <2>1. f \in emit <=> logged[f] = "open"
    BY <1>5, Zenon DEF OpenOnRecord
  <2>2. "closed" # "open"
    BY Zenon
  <2>3. CASE f \in Opening(noted)
    BY <1>1, <1>5, <2>3, Zenon DEF Opening
  <2>4. CASE f \notin Opening(noted) /\ f \in Closing(noted)
    BY <1>1, <1>5, <2>2, <2>4, Zenon DEF Closing
  <2>5. CASE f \notin Opening(noted) /\ f \notin Closing(noted)
    BY <1>1, <1>5, <2>1, <2>5, Zenon DEF Opening, Closing
  <2> QED  BY <2>3, <2>4, <2>5, Zenon
<1> QED  BY <1>2, <1>4, <1>5, Zenon

\* The log stays ahead of the emit state in every step.
LEMMA RecordStep ==
    ASSUME RecordInv, ClaimsInv, [FindingsNext]_findingsVars
    PROVE  RecordInv'
<1>0. LaneError \in Known /\ IdleFinding \in Known
  BY Zenon DEF Known
<1>1. CASE Detect
  <2>1. cur' \subseteq Known
    BY <1>1, ReportedIsKnown, Zenon DEF Detect, RecordInv
  <2> QED  BY <1>1, <2>1, Zenon DEF Detect, RecordInv, OpenOnRecord
<1>2. ASSUME NEW working \in BOOLEAN, PursueIdle(working)
      PROVE  RecordInv'
  <2>1. cur' = {IdleFinding} \/ cur' = cur
    BY <1>2, Zenon DEF PursueIdle
  <2>2. cur' \subseteq Known
    BY <1>0, <2>1, Zenon DEF RecordInv
  <2>3. /\ step = "detected" /\ step' = "counted"
        /\ UNCHANGED <<standing, logged, emit, verdict, failures>>
    BY <1>2, Zenon DEF PursueIdle
  <2> QED  BY <2>2, <2>3, Zenon DEF RecordInv, OpenOnRecord
<1>3. CASE Ladder
  BY <1>3, Zenon DEF Ladder, RecordInv, OpenOnRecord
<1>4. CASE Log
  <2>1. /\ step = "pursued" /\ step' = "logged" /\ WriteLog(cur)
        /\ UNCHANGED <<standing, cur, emit, verdict, failures>>
    BY <1>4, Zenon DEF Log
  <2>2. /\ logged' \in [Known -> {None, "open", "closed"}]
        /\ \A f \in cur \cup emit : logged'[f] # None
        /\ emit = OpenOnRecord => {f \in Known : logged'[f] = "open"} = cur
    BY <2>1, LogRecordsSeen, Zenon DEF RecordInv
  <2> QED  BY <2>1, <2>2, Zenon DEF RecordInv, OpenOnRecord
<1>5. CASE WriteState
  BY <1>5, Zenon DEF WriteState, RecordInv, OpenOnRecord
<1>6. CASE Determine
  <2>1. verdict' = "live" => cur = {}
    BY <1>6, Zenon DEF Determine
  <2> QED  BY <1>6, <2>1, Zenon DEF Determine, RecordInv, OpenOnRecord
<1>7. CASE Fail
  <2>1. /\ step' = "rest" /\ WriteLog({LaneError}) /\ emit' = {LaneError}
        /\ cur' = {} /\ failures' = failures + 1 /\ UNCHANGED standing
    BY <1>7, Zenon DEF Fail
  <2>2. /\ logged' \in [Known -> {None, "open", "closed"}]
        /\ \A f \in {LaneError} \cup emit : logged'[f] # None
    BY <1>0, <2>1, LogRecordsSeen, Zenon
  <2>3. failures' \in Nat /\ failures' # 0
    BY <2>1 DEF RecordInv
  <2> QED  BY <1>0, <2>1, <2>2, <2>3, Zenon DEF RecordInv
<1>8. CASE PassDies
  <2>1. failures' \in Nat /\ failures' # 0
    BY <1>8 DEF RecordInv, PassDies
  <2> QED  BY <1>8, <2>1, Zenon DEF RecordInv, PassDies
<1>9. ASSUME NEW s \in Standing, Stand(s)
      PROVE  RecordInv'
  <2>1. standing' \subseteq Standing
    BY <1>9, Zenon DEF Stand, RecordInv
  <2> QED  BY <1>9, <2>1, Zenon DEF Stand, RecordInv, OpenOnRecord
<1>10. ASSUME UNCHANGED <<standing, step, cur, logged, emit, verdict, failures>>
       PROVE  RecordInv'
  BY <1>10, Zenon DEF RecordInv, OpenOnRecord
<1>11. CASE \/ \E t \in Excuses \cup {"call"} : Turn(t)
            \/ \E met \in BOOLEAN : Work(met)
            \/ Owe
            \/ UNCHANGED findingsVars
  BY <1>10, <1>11, Zenon DEF Turn, Work, Owe, findingsVars
<1> QED  BY <1>1, <1>2, <1>3, <1>4, <1>5, <1>6, <1>7, <1>8, <1>9, <1>11, Zenon DEF FindingsNext

---------------------------------------------------------------------------
\* A turn is added at the end of the journal.
LEMMA TurnAppends ==
    ASSUME ClaimsInv, NEW t \in Excuses \cup {"call"}, Turn(t)
    PROVE  /\ turns' \in Seq(Excuses \cup {"call"}) /\ Len(turns') = Len(turns) + 1
           /\ Len(turns') <= MaxTurns /\ Len(turns) \in Nat
           /\ \A i \in 1 .. Len(turns) : turns'[i] = turns[i]
BY BoundsAreNatural DEF ClaimsInv, Turn

\* The store holds the claims of a prefix of the journal in every step.
LEMMA ClaimsStep ==
    ASSUME ClaimsInv, [FindingsNext]_findingsVars
    PROVE  ClaimsInv'
<1>1. ASSUME NEW t \in Excuses \cup {"call"}, Turn(t)
      PROVE  ClaimsInv'
  <2>1. claims' = claims
    BY <1>1, Zenon DEF Turn
  <2>2. ASSUME NEW c \in claims, NEW i \in ClaimsIn(turns)', i < c.at
        PROVE  i \in Recorded'
    <3>1. i \in 1 .. Len(turns')
      BY <1>1, TurnAppends DEF ClaimsIn
    <3>2. c.at \in 1 .. Len(turns)
      BY Zenon DEF ClaimsInv
    <3>3. i \in 1 .. Len(turns)
      BY <1>1, <2>2, <3>1, <3>2, TurnAppends
    <3>4. turns[i] # "call"
      BY <1>1, <2>2, <3>3, TurnAppends, Zenon DEF ClaimsIn
    <3>5. i \in ClaimsIn(turns)
      BY <3>3, <3>4 DEF ClaimsIn, ClaimsInv
    <3>6. i \in Recorded
      BY <2>2, <3>5, Zenon DEF ClaimsInv
    <3> QED  BY <2>1, <3>6, Zenon DEF Recorded
  <2>3. ASSUME NEW c \in claims
        PROVE  c.at \in 1 .. Len(turns')
    BY <1>1, TurnAppends DEF ClaimsInv
  <2> QED  BY <1>1, <2>1, <2>2, <2>3, TurnAppends, Zenon DEF ClaimsInv
<1>2. CASE Detect
  <2>1. claims' = claims \cup NewRows /\ turns' = turns
    BY <1>2 DEF Detect, Stored, Detected
  <2>2. ASSUME NEW c \in claims'
        PROVE  c.at \in 1 .. Len(turns)
    BY <2>1, <2>2, FreshRows, Zenon DEF ClaimsInv
  <2>3. ASSUME NEW i \in ClaimsIn(turns)
        PROVE  i \in Recorded'
    <3>1. CASE i \in Recorded
      BY <2>1, <3>1, Zenon DEF Recorded
    <3>2. CASE i \notin Recorded
      <4> DEFINE c == [at |-> i, key |-> turns[i], item |-> item]
      <4>1. c \in NewRows
        BY <2>3, <3>2, Zenon DEF NewRows
      <4>2. c.at = i
        BY Zenon
      <4> QED  BY <2>1, <4>1, <4>2, Zenon DEF Recorded
    <3> QED  BY <3>1, <3>2, Zenon
  <2>4. ClaimsIn(turns)' = ClaimsIn(turns)
    BY <2>1, Zenon DEF ClaimsIn
  <2> QED  BY <2>1, <2>2, <2>3, <2>4, Zenon DEF ClaimsInv
<1>3. CASE UNCHANGED <<turns, claims>>
  BY <1>3, Zenon DEF ClaimsInv, ClaimsIn, Recorded
<1>4. CASE \/ \E met \in BOOLEAN : Work(met)
           \/ \E s \in Standing : Stand(s)
           \/ \E working \in BOOLEAN : PursueIdle(working)
           \/ Owe \/ Ladder \/ Log \/ WriteState \/ Determine \/ Fail \/ PassDies
           \/ UNCHANGED findingsVars
  <2>1. UNCHANGED <<turns, claims>>
    BY <1>4, Zenon DEF Work, Stand, PursueIdle, Owe, Ladder, Log, WriteState, Determine, Fail,
                       PassDies, findingsVars
  <2> QED  BY <1>3, <2>1, Zenon
<1> QED  BY <1>1, <1>2, <1>4, Zenon DEF FindingsNext

\* What a pass finds repeated it still has in hand, or has put to the ladder.
LEMMA PursuitStep ==
    ASSUME RecordInv, ClaimsInv, PursuitInv, [FindingsNext]_findingsVars
    PROVE  PursuitInv'
<1>1. ASSUME UNCHANGED <<turns, claims>>, failures' = 0 => failures = 0 /\ Pursued \subseteq Pursued'
      PROVE  PursuitInv'
  BY <1>1, Zenon DEF PursuitInv, Repeats
<1>2. ASSUME NEW t \in Excuses \cup {"call"}, Turn(t)
      PROVE  PursuitInv'
  <2>1. UNCHANGED <<claims, failures, ladder, step, cur>>
    BY <1>2, Zenon DEF Turn
  <2>2. ASSUME NEW c \in claims, NEW d \in claims, Repeats(c, d)'
        PROVE  Repeats(c, d)
    <3>1. c.at \in 1 .. Len(turns) /\ d.at \in 1 .. Len(turns)
      BY Zenon DEF ClaimsInv
    <3>2. \A j \in (d.at + 1) .. (c.at - 1) : j \in 1 .. Len(turns)
      BY <3>1, <1>2, TurnAppends
    <3> QED  BY <1>2, <2>2, <3>2, TurnAppends, Zenon DEF Repeats
  <2> QED  BY <2>1, <2>2, Zenon DEF PursuitInv, Pursued
<1>3. CASE Detect
  <2>1. /\ claims' = claims \cup NewRows /\ UNCHANGED <<turns, failures, ladder>> /\ step = "rest"
        /\ step' = "detected" /\ Detected.found \subseteq cur'
    BY ZenonT(60), <1>3 DEF Detect, Stored, Detected
  <2>2. SUFFICES ASSUME failures = 0, NEW c \in claims \cup NewRows, NEW d \in claims \cup NewRows, Repeats(c, d)
                 PROVE  Of("false_blocker", c.at) \in ladder \cup cur'
    BY <2>1, Zenon DEF PursuitInv, Pursued, Repeats
  <2>3. CASE c \in claims
    <3>1. d \in claims
      <4>1. SUFFICES ASSUME d \in NewRows PROVE FALSE
        BY Zenon
      <4>2. d.at \in ClaimsIn(turns) /\ d.at \notin Recorded
        BY <4>1, FreshRows, Zenon
      <4> QED  BY <2>2, <2>3, <4>2, Zenon DEF ClaimsInv, Repeats
    <3>2. Of("false_blocker", c.at) \in Pursued
      BY <2>2, <2>3, <3>1, Zenon DEF PursuitInv
    <3>3. step \notin {"detected", "counted"}
      BY <2>1
    <3> QED  BY <3>2, <3>3, Zenon DEF Pursued
  <2>4. CASE c \in NewRows
    <3>1. Judged(c, claims \cup NewRows) = {Of("false_blocker", c.at)}
      <4> DEFINE priors == {e \in claims \cup NewRows : e.item = c.item /\ e.at < c.at}
                 same == {e \in priors : e.key = c.key}
      <4>1. d \in same /\ \E e \in same : \A j \in (e.at + 1) .. (c.at - 1) : turns[j] # "call"
        BY <2>2, Zenon DEF Repeats
      <4>2. Judged(c, claims \cup NewRows) =
              CASE \E e \in same : \A j \in (e.at + 1) .. (c.at - 1) : turns[j] # "call" ->
                     {Of("false_blocker", c.at)}
                [] same = {} /\ priors # {} -> {Of("changed_excuse", c.at)}
                [] OTHER -> {}
        BY Zenon DEF Judged
      <4>3. same # {}
        BY <4>1, Zenon
      <4> HIDE DEF priors, same
      <4> QED  BY <4>1, <4>2, <4>3
    <3>2. Detected.found = UNION {Judged(e, claims \cup NewRows) : e \in NewRows}
      BY DEF Detected
    <3> QED  BY <2>1, <2>4, <3>1, <3>2, Zenon
  <2> QED  BY <2>2, <2>3, <2>4, Zenon
<1>4. ASSUME NEW working \in BOOLEAN, PursueIdle(working)
      PROVE  PursuitInv'
  <2>1. /\ UNCHANGED <<turns, claims, failures, ladder>>
        /\ step = "detected" /\ step' = "counted"
    BY <1>4, Zenon DEF PursueIdle
  <2>2. cur \subseteq cur'
    BY <1>4, Zenon DEF PursueIdle, Clean
  <2> QED  BY <1>1, <2>1, <2>2, Zenon DEF Pursued
<1>5. CASE Ladder
  BY <1>1, <1>5, Zenon DEF Ladder, Pursued
<1>6. CASE Fail \/ PassDies
  <2>1. failures' # 0
    BY <1>6 DEF Fail, PassDies, RecordInv
  <2> QED  BY <2>1, Zenon DEF PursuitInv
<1>7. CASE Log \/ WriteState \/ Determine
  <2>1. UNCHANGED <<turns, claims, failures, ladder>>
    BY <1>7, Zenon DEF Log, WriteState, Determine
  <2>2. step \notin {"detected", "counted"}
    BY <1>7 DEF Log, WriteState, Determine
  <2>3. Pursued \subseteq Pursued'
    BY <2>1, <2>2, Zenon DEF Pursued
  <2> QED  BY <1>1, <2>1, <2>3, Zenon
<1>8. CASE \/ \E met \in BOOLEAN : Work(met)
           \/ \E s \in Standing : Stand(s)
           \/ Owe
           \/ UNCHANGED findingsVars
  <2>1. UNCHANGED <<turns, claims, failures, ladder, step, cur>>
    BY <1>8, Zenon DEF Work, Stand, Owe, findingsVars
  <2>2. Pursued' = Pursued
    BY <2>1, Zenon DEF Pursued
  <2> QED  BY <1>1, <2>1, <2>2, Zenon
<1> QED  BY <1>2, <1>3, <1>4, <1>5, <1>6, <1>7, <1>8, Zenon DEF FindingsNext

---------------------------------------------------------------------------
\* The idle count is earned by clean passes in every step.
LEMMA IdleStep ==
    ASSUME RecordInv, ClaimsInv, IdleInv, [FindingsNext]_findingsVars
    PROVE  IdleInv'
<1>1. ASSUME UNCHANGED <<idle, quiet, work>>, IdleFinding \in cur' => IdleFinding \in cur,
             step' \in {"rest", "detected"} => IdleFinding \notin cur'
      PROVE  IdleInv'
  BY <1>1, Zenon DEF IdleInv, IdleIsEarned
<1>2. CASE Detect
  <2>1. UNCHANGED <<idle, quiet, work>> /\ cur' = {Of(s, 0) : s \in standing} \cup Detected.found
    BY <1>2, Zenon DEF Detect
  <2>2. IdleFinding \notin cur'
    BY <2>1, ReportedIsKnown, Zenon DEF RecordInv
  <2> QED  BY <1>1, <2>1, <2>2, Zenon
<1>3. ASSUME NEW working \in BOOLEAN, PursueIdle(working)
      PROVE  IdleInv'
  <2> DEFINE count == Counted(Progressed)
             still == IF quiet.clean > 0 /\ quiet.digest = work THEN quiet.still + 1 ELSE 1
             leased == Waiting \/ (quiet.clean > 0 /\ quiet.leased)
  <2>0. step = "detected" /\ step' = "counted" /\ work' = work /\ IdleFinding \notin cur
    BY <1>3, Zenon DEF PursueIdle, IdleInv
  <2>1. CASE ~Clean(working)
    <3>1. idle' = NoIdle /\ quiet' = NoQuiet /\ cur' = cur
      BY <1>3, <2>1, Zenon DEF PursueIdle
    <3> QED  BY <2>0, <3>1 DEF IdleInv, IdleIsEarned, NoIdle, NoQuiet
  <2>2. CASE Clean(working) /\ Waiting
    <3>1. /\ idle' = [known |-> TRUE, digest |-> work, count |-> idle.count, waited |-> idle.waited + 1]
          /\ quiet' = [clean |-> quiet.clean + 1, still |-> still, digest |-> work, leased |-> leased]
          /\ cur' = cur
      BY <1>3, <2>2, Zenon DEF PursueIdle
    <3>2. leased = TRUE
      BY <2>2, Zenon
    <3>3. still \in Nat
      BY DEF IdleInv
    <3> HIDE DEF still, leased
    <3> QED  BY <2>0, <3>1, <3>2, <3>3 DEF IdleInv, IdleIsEarned
  <2>3. CASE Clean(working) /\ ~Waiting
    <3>1. /\ idle' = [known |-> TRUE, digest |-> work, count |-> count,
                      waited |-> IF owed THEN idle.waited + 1 ELSE 0]
          /\ quiet' = [clean |-> quiet.clean + 1, still |-> still, digest |-> work, leased |-> leased]
          /\ cur' = IF count >= IdlePasses THEN {IdleFinding} ELSE cur
      BY <1>3, <2>3, Zenon DEF PursueIdle
    <3>2. count \in Nat /\ count <= quiet.clean + 1
      BY DEF IdleInv, Counted, Progressed
    <3>3. leased \in BOOLEAN /\ still \in Nat
      BY DEF IdleInv
    <3>4. ~leased => count <= still
      BY DEF IdleInv, Counted, Progressed
    <3> HIDE DEF still, leased, count
    <3>5. idle'.count = count /\ idle'.known = TRUE /\ idle'.digest = work
      BY <3>1
    <3>6. quiet'.clean = quiet.clean + 1 /\ quiet'.still = still /\ quiet'.leased = leased /\ quiet'.digest = work
      BY <3>1
    <3>7. /\ idle' \in [known : BOOLEAN, digest : Nat, count : Nat, waited : Nat]
          /\ quiet' \in [clean : Nat, still : Nat, digest : Nat, leased : BOOLEAN]
      BY <3>1, <3>2, <3>3 DEF IdleInv
    <3>8. IdleFinding \in cur' => count >= IdlePasses
      BY <2>0, <3>1, Zenon
    <3>9. IdleIsEarned'
      BY <3>2, <3>3, <3>4, <3>6, <3>8, BoundsAreNatural DEF IdleIsEarned, IdleInv
    <3>10. quiet'.clean > 0
      BY <3>6 DEF IdleInv
    <3>11. idle'.count <= quiet'.clean /\ (~quiet'.leased => idle'.count <= quiet'.still)
      BY <3>2, <3>4, <3>5, <3>6, Zenon
    <3> QED  BY <2>0, <3>5, <3>6, <3>7, <3>9, <3>10, <3>11, Zenon DEF IdleInv
  <2> QED  BY <2>1, <2>2, <2>3, Zenon
<1>4. ASSUME NEW met \in BOOLEAN, Work(met)
      PROVE  IdleInv'
  <2>1. work' \in Nat /\ UNCHANGED <<idle, quiet, cur, step>>
    BY <1>4 DEF Work, IdleInv
  <2> QED  BY <2>1, Zenon DEF IdleInv, IdleIsEarned
<1>5. CASE Determine \/ Fail \/ PassDies
  <2>1. UNCHANGED <<idle, quiet, work>> /\ cur' = {}
    BY <1>5, Zenon DEF Determine, Fail, PassDies
  <2> QED  BY <1>1, <2>1, Zenon
<1>6. CASE Ladder \/ Log \/ WriteState
  <2>1. UNCHANGED <<idle, quiet, work, cur>>
    BY <1>6, Zenon DEF Ladder, Log, WriteState
  <2>2. step' \notin {"rest", "detected"}
    BY <1>6 DEF Ladder, Log, WriteState
  <2> QED  BY <1>1, <2>1, <2>2, Zenon
<1>7. CASE \/ \E t \in Excuses \cup {"call"} : Turn(t)
           \/ \E s \in Standing : Stand(s)
           \/ Owe
           \/ UNCHANGED findingsVars
  <2>1. UNCHANGED <<idle, quiet, work, cur, step>>
    BY <1>7, Zenon DEF Turn, Stand, Owe, findingsVars
  <2> QED  BY <2>1, Zenon DEF IdleInv, IdleIsEarned
<1> QED  BY <1>2, <1>3, <1>4, <1>5, <1>6, <1>7, Zenon DEF FindingsNext

\* The invariant of the findings of a monitor pass, for any claims, detectors,
\* bounds and failures.
THEOREM FindingsInvariant == FindingsSpec => []FindingsInv
<1>1. FindingsInit => FindingsInv
  <2> SUFFICES ASSUME FindingsInit PROVE FindingsInv
    OBVIOUS
  <2>1. RecordInv
    <3>1. logged \in [Known -> {None, "open", "closed"}] /\ OpenOnRecord = {}
      BY DEF FindingsInit, OpenOnRecord, None
    <3> QED  BY <3>1 DEF FindingsInit, RecordInv, None
  <2>2. ClaimsInv /\ PursuitInv
    BY BoundsAreNatural DEF FindingsInit, ClaimsInv, PursuitInv
  <2>3. IdleInv
    BY DEF FindingsInit, IdleInv, IdleIsEarned, NoIdle, NoQuiet
  <2> QED  BY <2>1, <2>2, <2>3, Zenon DEF FindingsInv
<1>2. FindingsInv /\ [FindingsNext]_findingsVars => FindingsInv'
  BY RecordStep, ClaimsStep, PursuitStep, IdleStep, Zenon DEF FindingsInv
<1> QED  BY <1>1, <1>2, PTL DEF FindingsSpec

\* For any claims, items and turns, a repeated blocker claim has been put to the
\* ladder when the pass that stored it is over, if no pass failed
\* (detect_blocker_claims, which skips what BlockerClaimStore has).
THEOREM RepeatedClaimsAreNotDropped == FindingsSpec => []RepeatedClaimsArePursued
<1>1. FindingsInv => RepeatedClaimsArePursued
  <2> SUFFICES ASSUME FindingsInv, step = "rest" PROVE RepeatedClaimsArePursued
    BY Zenon DEF RepeatedClaimsArePursued
  <2>1. Pursued = ladder
    BY DEF Pursued
  <2> QED  BY <2>1, Zenon DEF FindingsInv, PursuitInv, Repeats, RepeatedClaimsArePursued
<1> QED  BY <1>1, FindingsInvariant, PTL

\* The findings log is written before the emit state, so through any failures what
\* the emit state holds open is on record, and without a failure the two agree
\* between passes.
THEOREM FindingsStayOnRecord == FindingsSpec => []FindingsAreOnRecord
<1>1. FindingsInv => FindingsAreOnRecord
  <2> SUFFICES ASSUME FindingsInv PROVE FindingsAreOnRecord
    OBVIOUS
  <2>1. step = "rest" => step # "logged" /\ step # "emitted"
    BY Zenon
  <2> QED  BY <2>1, Zenon DEF FindingsInv, RecordInv, OpenOnRecord, FindingsAreOnRecord
<1> QED  BY <1>1, FindingsInvariant, PTL

\* An idle finding takes as many clean passes in a row as idle_pursuit_passes says,
\* and no progress over that many if none of them waited for a correction.
THEOREM IdleFindingsAreEarned == FindingsSpec => []IdleIsEarned
<1>1. FindingsInv => IdleIsEarned
  BY Zenon DEF FindingsInv, IdleInv
<1> QED  BY <1>1, FindingsInvariant, PTL

-----------------------------------------------------------------------------
Statuses ==
    [sess : Refs, state : ReportedStates \cup {""}, source : Sources \cup {"", "screen"},
     auth : {"", "integration", "manifest", "fallback"}, rev : Nat]
Reports == [sess : Refs, source : Sources \cup {""}, state : ReportedStates \cup {""}]

\* What the broker holds, typed as far as the proof needs it.
Held ==
    /\ status \in [Panes -> Statuses]
    /\ report \in [Panes -> Reports]
    /\ seq \in Nat

\* A report in authority is what its pane's status says, and no pane was
\* published more often than there are events.  The broker's methods keep
\* this at all times, not only while a handoff is pending.
Agree(st, re) ==
    re # NoReport =>
        /\ st.auth = "integration"
        /\ st.state = re.state
        /\ st.source = re.source
        /\ re.sess \in {"", st.sess}

BrokerInv ==
    /\ Held
    /\ \A p \in Panes : Agree(status[p], report[p]) /\ status[p].rev <= seq

\* agent-status.json has the published status, unless its last write failed.
DiskInv == ~unsaved => disk.panes = status /\ disk.seq = seq

StatusInv ==
    /\ BrokerInv
    /\ handoff.pc # "none" => frozen
    /\ frozen => handoff.pc # "none" \/ transferred
    /\ handoff.pc = "pending" => handoff.manifest = Snapshot
    /\ DiskInv

\* The revision of a status is a natural number.
LEMMA RevisionIsNatural == ASSUME NEW x \in Statuses PROVE x.rev \in Nat
  BY Zenon DEF Statuses

\* _publish keeps the broker's part of the invariant, whether it publishes or
\* finds nothing new, when what it is given agrees with the pane's report.
LEMMA PublishKeeps ==
    ASSUME BrokerInv, DiskInv,
           NEW p \in Panes, NEW s \in Statuses, NEW r \in Reports,
           s.rev = 0, Agree(s, r),
           report' = [report EXCEPT ![p] = r],
           PublishStatus(p, s)
    PROVE  BrokerInv' /\ DiskInv'
<1>1. CASE s = [status[p] EXCEPT !.rev = 0]
  <2>1. UNCHANGED <<status, seq, disk, unsaved>>
    BY Zenon, <1>1 DEF PublishStatus
  <2>2. Agree(status[p], r)
    BY Zenon, <1>1 DEF Agree, BrokerInv, Held, Statuses
  <2>3. QED
    BY Zenon, <2>1, <2>2 DEF BrokerInv, DiskInv, Held, Agree
<1>2. CASE s # [status[p] EXCEPT !.rev = 0]
  <2> DEFINE new == [s EXCEPT !.rev = status[p].rev + 1]
  <2>1. /\ seq' = seq + 1
        /\ status' = [status EXCEPT ![p] = new]
        /\ Persist
    BY Zenon, <1>2 DEF PublishStatus
  <2>2. new \in Statuses /\ new.rev = status[p].rev + 1 /\ Agree(new, r)
    <3>0. status[p] \in Statuses
      BY Zenon DEF BrokerInv, Held
    <3>1. status[p].rev + 1 \in Nat
      BY <3>0, RevisionIsNatural
    <3>2. new \in Statuses /\ new.rev = status[p].rev + 1
      BY Zenon, <3>1 DEF Statuses
    <3>3. new.auth = s.auth /\ new.state = s.state /\ new.source = s.source /\ new.sess = s.sess
      BY Zenon DEF Statuses
    <3>4. QED
      BY Zenon, <3>2, <3>3 DEF Agree
  <2>3. Held'
    BY <2>1, <2>2 DEF BrokerInv, Held
  <2>4. ASSUME NEW q \in Panes PROVE Agree(status'[q], report'[q]) /\ status'[q].rev <= seq'
    <3>1. CASE q = p
      <4>1. status'[q] = new /\ report'[q] = r
        BY Zenon, <2>1, <3>1 DEF BrokerInv, Held
      <4>2. status[p].rev <= seq /\ status[p] \in Statuses /\ seq \in Nat
        BY Zenon DEF BrokerInv, Held
      <4>3. new.rev <= seq'
        BY <2>1, <2>2, <4>2, RevisionIsNatural
      <4>4. QED
        BY Zenon, <2>2, <4>1, <4>3
    <3>2. CASE q # p
      <4>1. status'[q] = status[q] /\ report'[q] = report[q]
        BY Zenon, <2>1, <3>2 DEF BrokerInv, Held
      <4>2. /\ Agree(status[q], report[q]) /\ status[q].rev <= seq
            /\ status[q] \in Statuses /\ seq \in Nat
        BY Zenon DEF BrokerInv, Held
      <4>3. status[q].rev <= seq'
        BY <2>1, <4>2, RevisionIsNatural
      <4>4. QED
        BY Zenon, <4>1, <4>2, <4>3
    <3>3. QED
      BY Zenon, <3>1, <3>2
  <2>5. DiskInv'
    <3>1. CASE disk' = Snapshot'
      BY Zenon, <3>1 DEF DiskInv, Snapshot
    <3>2. CASE unsaved' = TRUE
      BY Zenon, <3>2 DEF DiskInv
    <3>3. QED
      BY Zenon, <2>1, <3>1, <3>2 DEF Persist
  <2>6. QED
    BY Zenon, <2>3, <2>4, <2>5 DEF BrokerInv, Agree
<1>3. QED
  BY Zenon, <1>1, <1>2

\* A daemon that has seen no event satisfies the invariant.
LEMMA StatusInitHolds == StatusInit => StatusInv
<1> SUFFICES ASSUME StatusInit PROVE StatusInv
  BY Zenon
<1>1. Unseen \in Statuses /\ Unseen.rev = 0
  BY Zenon DEF Unseen, Statuses, Refs, ReportedStates
<1>2. NoReport \in Reports
  BY Zenon DEF NoReport, Reports, Refs, ReportedStates
<1>3. status = [p \in Panes |-> Unseen] /\ report = [p \in Panes |-> NoReport] /\ seq = 0
      /\ disk = Snapshot /\ frozen = FALSE /\ handoff.pc = "none"
  BY Zenon DEF StatusInit, NoHandoff
<1>4. BrokerInv
  BY <1>1, <1>2, <1>3 DEF BrokerInv, Held, Agree
<1>5. DiskInv
  BY Zenon, <1>3 DEF DiskInv, Snapshot
<1> QED
  BY Zenon, <1>3, <1>4, <1>5 DEF StatusInv

\* The steps of the handoff leave the broker alone.
LEMMA HandoffStepKeeps ==
    ASSUME StatusInv, Prepare \/ PrepareFails \/ Prepared \/ Commit \/ GiveUp
    PROVE  StatusInv'
<1>1. UNCHANGED <<status, report, seq, disk, unsaved>>
  BY Zenon DEF Prepare, PrepareFails, Prepared, Commit, GiveUp, broker
<1>2. BrokerInv' /\ DiskInv'
  BY Zenon, <1>1 DEF StatusInv, BrokerInv, Held, DiskInv
<1>3. Snapshot' = Snapshot
  BY Zenon, <1>1 DEF Snapshot
<1>4. NoHandoff.pc = "none" /\ [NoHandoff EXCEPT !.pc = "verifying"].pc = "verifying"
  BY Zenon DEF NoHandoff
<1>5. CASE Prepare
  BY Zenon, <1>2, <1>4, <1>5 DEF Prepare, StatusInv
<1>6. CASE PrepareFails
  BY Zenon, <1>2, <1>4, <1>6 DEF PrepareFails, StatusInv
<1>7. CASE Prepared
  BY Zenon, <1>2, <1>3, <1>7 DEF Prepared, StatusInv
<1>8. CASE Commit
  BY Zenon, <1>2, <1>4, <1>8 DEF Commit, StatusInv
<1>9. CASE GiveUp
  BY Zenon, <1>2, <1>4, <1>9 DEF GiveUp, StatusInv
<1> QED
  BY Zenon, <1>5, <1>6, <1>7, <1>8, <1>9

\* While the broker is not frozen there is no handoff, so a broker method has only the
\* broker's and the file's part to keep.
LEMMA BrokerStepKeeps ==
    ASSUME StatusInv, ~frozen, UNCHANGED <<frozen, handoff, transferred>>, BrokerInv', DiskInv'
    PROVE  StatusInv'
  BY Zenon DEF StatusInv

\* A save writes what is in memory.
LEMMA PersistKeepsDisk == Persist => DiskInv'
<1>1. ASSUME disk' = Snapshot' PROVE DiskInv'
  BY Zenon, <1>1 DEF DiskInv, Snapshot
<1>2. ASSUME unsaved' = TRUE PROVE DiskInv'
  BY Zenon, <1>2 DEF DiskInv
<1> QED
  BY Zenon, <1>1, <1>2 DEF Persist

\* Every event, handoff, failed write and restart preserves the invariant.
LEMMA StatusStep == StatusInv /\ [StatusNext]_statusVars => StatusInv'
<1> SUFFICES ASSUME StatusInv, [StatusNext]_statusVars PROVE StatusInv'
  BY Zenon
<1>a. BrokerInv /\ DiskInv
  BY Zenon DEF StatusInv
<1>1. ASSUME NEW p \in Panes, NEW r \in [sess : Refs, source : Sources, state : ReportedStates],
             ReportAgent(p, r)
      PROVE  StatusInv'
  <2> DEFINE known == status[p].sess
             s == Integrated(IF r.sess # "" THEN r.sess ELSE known, r)
  <2>1. ~frozen /\ UNCHANGED <<frozen, handoff, transferred>>
    BY Zenon, <1>1 DEF ReportAgent, api
  <2>2. CASE r.sess # "" /\ known \notin {"", r.sess}
    <3>1. UNCHANGED <<status, report, seq, disk, unsaved>>
      BY Zenon, <1>1, <2>2 DEF ReportAgent
    <3>2. BrokerInv' /\ DiskInv'
      BY Zenon, <1>a, <3>1 DEF BrokerInv, Held, DiskInv
    <3> QED
      BY Zenon, <2>1, <3>2, BrokerStepKeeps
  <2>3. CASE ~(r.sess # "" /\ known \notin {"", r.sess})
    <3>1. report' = [report EXCEPT ![p] = r] /\ PublishStatus(p, s)
      BY Zenon, <1>1, <2>3 DEF ReportAgent
    <3>2. r \in Reports
      BY Zenon DEF Reports
    <3>3. known \in Refs
      BY Zenon, <1>a DEF BrokerInv, Held, Statuses
    <3>4. s \in Statuses /\ s.rev = 0 /\ Agree(s, r)
      BY Zenon, <3>3 DEF Integrated, Statuses, Agree
    <3> HIDE DEF s
    <3>5. BrokerInv' /\ DiskInv'
      BY Zenon, <1>a, <3>1, <3>2, <3>4, PublishKeeps
    <3> QED
      BY Zenon, <2>1, <3>5, BrokerStepKeeps
  <2> QED
    BY Zenon, <2>2, <2>3
<1>2. ASSUME NEW p \in Panes, NEW source \in Sources \cup {""}, ClearAuthority(p, source)
      PROVE  StatusInv'
  <2>1. ~frozen /\ UNCHANGED <<frozen, handoff, transferred, status, seq>> /\ Persist
        /\ report' = [report EXCEPT ![p] = NoReport]
    BY Zenon, <1>2 DEF ClearAuthority, api
  <2>2. NoReport \in Reports
    BY Zenon DEF NoReport, Reports, Refs, ReportedStates
  <2>3. BrokerInv'
    BY Zenon, <1>a, <2>1, <2>2 DEF BrokerInv, Held, Agree
  <2> QED
    BY Zenon, <2>1, <2>3, PersistKeepsDisk, BrokerStepKeeps
<1>3. ASSUME NEW p \in Panes, NEW s \in Refs, NEW shown \in Screens, ObservePane(p, s, shown)
      PROVE  StatusInv'
  <2> DEFINE r == StillReports(p, s)
             e == evidence[p]
             n == IF e.sess = s /\ e.screen = shown THEN e.n + 1 ELSE 1
             c == Classify(shown, n)
  <2>1. ~frozen /\ UNCHANGED <<frozen, handoff, transferred>> /\ report' = [report EXCEPT ![p] = r]
    BY Zenon, <1>3 DEF ObservePane, api
  <2>2. NoReport \in Reports
    BY Zenon DEF NoReport, Reports, Refs, ReportedStates
  <2>3. report[p] \in Reports
    BY Zenon, <1>a DEF BrokerInv, Held
  <2>4. r \in Reports /\ (r # NoReport => r.sess \in {"", s})
    BY Zenon, <2>2, <2>3 DEF StillReports
  <2>5. CASE r # NoReport
    <3> DEFINE new == Integrated(s, r)
    <3>1. PublishStatus(p, new)
      BY Zenon, <1>3, <2>5 DEF ObservePane
    <3>2. new \in Statuses /\ new.rev = 0 /\ Agree(new, r)
      <4> HIDE DEF r
      <4> QED
        BY Zenon, <2>4, <2>5 DEF Integrated, Statuses, Reports, Agree
    <3> HIDE DEF new, r
    <3>3. BrokerInv' /\ DiskInv'
      BY Zenon, <1>a, <2>1, <2>4, <3>1, <3>2, PublishKeeps
    <3> QED
      BY Zenon, <2>1, <3>3, BrokerStepKeeps
  <2>6. CASE r = NoReport
    <3> DEFINE new == [sess |-> s, state |-> c.state, source |-> "screen", auth |-> c.auth, rev |-> 0]
    <3>1. PublishStatus(p, new)
      BY Zenon, <1>3, <2>6 DEF ObservePane
    <3>2. c.state \in ReportedStates /\ c.auth \in {"fallback", "manifest"}
      BY Zenon DEF Classify, ReportedStates, Screens
    <3>3. new \in Statuses /\ new.rev = 0 /\ Agree(new, r)
      <4> HIDE DEF c, r
      <4> QED
        BY Zenon, <2>6, <3>2 DEF Statuses, Agree
    <3> HIDE DEF new, r
    <3>4. BrokerInv' /\ DiskInv'
      BY Zenon, <1>a, <2>1, <2>4, <3>1, <3>3, PublishKeeps
    <3> QED
      BY Zenon, <2>1, <3>4, BrokerStepKeeps
  <2> QED
    BY Zenon, <2>5, <2>6
<1>4. CASE Prepare \/ PrepareFails \/ Prepared \/ Commit \/ GiveUp
  BY Zenon, <1>4, HandoffStepKeeps
<1>5. CASE UNCHANGED statusVars
  BY Zenon, <1>5 DEF statusVars, broker, api, StatusInv, BrokerInv, Held, DiskInv, Snapshot
<1> QED
  BY Zenon, <1>1, <1>2, <1>3, <1>4, <1>5 DEF StatusNext

\* The invariant implies the property.
LEMMA StatusInvIsFaithful == StatusInv => HandoffIsFaithful
<1> SUFFICES ASSUME StatusInv, handoff.pc = "pending" PROVE Validates(Snapshot)
  BY Zenon DEF StatusInv, HandoffIsFaithful, DiskInv
<1>1. ASSUME NEW p \in Panes
      PROVE  /\ report[p] # NoReport => status[p] # Unseen
             /\ status[p].rev <= seq
             /\ report[p] # NoReport /\ status[p].auth = "integration" =>
                  /\ status[p].state = report[p].state
                  /\ status[p].source = report[p].source
                  /\ report[p].sess \in {"", status[p].sess}
  <2>1. Unseen.auth # "integration"
    BY Zenon DEF Unseen
  <2> QED
    BY Zenon, <2>1 DEF StatusInv, BrokerInv, Agree
<1> QED
  BY Zenon, <1>1 DEF Validates, Snapshot

\* For any panes, sessions and hooks, and any number of events, handoffs and failed writes:
\* what _prepare_handoff gives a replacement is what the broker holds until the handoff ends,
\* it passes validate_handoff_snapshot, and agent-status.json has what was published.
THEOREM HandoffsAreFaithful == StatusSpec => []HandoffIsFaithful
<1>1. StatusSpec => []StatusInv
  BY StatusInitHolds, StatusStep, PTL DEF StatusSpec
<1> QED
  BY <1>1, StatusInvIsFaithful, PTL

-----------------------------------------------------------------------------
Before == {"check", "mode", "paste"}
After == {"look", "key", "verify", "fallback", "reverify", "confirm"}
PaneTexts == Orders \cup Drafts
Turns == [role : {"user", "agent"}, texts : SUBSET PaneTexts]

\* The order's text is in one of the lane's records.
Said(o) == \E i \in DOMAIN transcript : o \in transcript[i].texts

\* Where the texts are: an order is at one place at a time, and only once it
\* was pasted.
Placed ==
    /\ composer \in SUBSET PaneTexts
    /\ queued \in SUBSET PaneTexts
    /\ transcript \in Seq(Turns)
    /\ pasted \in SUBSET Orders
    /\ \A o \in Orders :
         /\ o \in composer => o \notin queued /\ ~Said(o)
         /\ o \in queued => ~Said(o)
         /\ o \in composer \/ o \in queued \/ Said(o) => o \in pasted

\* Where the send is: what it is about, and what it has done to the pane.
Sending ==
    /\ pc \in {"idle"} \cup Before \cup After
    /\ pc # "idle" => sendOrder \in Orders /\ result[sendOrder] = "none"
    /\ pc = "idle" => sendOrder = NoOrder
    /\ pc \in Before => sendOrder \notin pasted

Results ==
    /\ result \in [Orders -> {"none", "blocked", "failed", "unconfirmed", "sent"}]
    /\ \A o \in Orders :
         /\ o \in pasted => o = sendOrder \/ result[o] \notin {"none", "blocked"}
         /\ result[o] = "sent" => Confirms(o)

\* Nothing of the operator's is submitted: past the look at the pane, what is
\* in the composer was typed after it or is ours.
Untouched ==
    /\ pc \notin {"idle", "check"} /\ ~raced => composer \cap Drafts = {}
    /\ grabbed = FALSE

SendInv == Placed /\ Sending /\ Results /\ Untouched

\* A record more: what was said stays said, and what confirms stays confirmed.
LEMMA SaidMore ==
    ASSUME transcript \in Seq(Turns), NEW r \in Turns, transcript' = Append(transcript, r)
    PROVE  /\ transcript' \in Seq(Turns)
           /\ \A o : Said(o)' <=> Said(o) \/ o \in r.texts
           /\ \A o : Confirms(o) => Confirms(o)'
<1> DEFINE n == Len(transcript)
<1>1. /\ n \in Nat /\ DOMAIN transcript = 1 .. n
      /\ transcript' \in Seq(Turns) /\ DOMAIN transcript' = 1 .. (n + 1)
      /\ \A i \in 1 .. n : transcript'[i] = transcript[i]
      /\ transcript'[n + 1] = r
  OBVIOUS
<1>2. \A i \in 1 .. (n + 1) : i \in 1 .. n \/ i = n + 1
  BY <1>1
<1>3. n + 1 \in 1 .. (n + 1) /\ \A i \in 1 .. n : i \in 1 .. (n + 1)
  BY <1>1
<1> HIDE DEF n
<1>4. \A o : Said(o)' <=> Said(o) \/ o \in r.texts
  BY Zenon, <1>1, <1>2, <1>3 DEF Said
<1>5. \A o : Confirms(o) => Confirms(o)'
  BY Zenon, <1>1, <1>3 DEF Confirms
<1> QED BY Zenon, <1>1, <1>4, <1>5

\* What confirms an order is among the records.
LEMMA ConfirmedIsSaid == \A o : Confirms(o) => Said(o)
  BY Zenon DEF Confirms, Said

\* Submitting texts that are nowhere else keeps every order at one place.
LEMMA SubmitsKeeps ==
    ASSUME Placed, NEW texts \in SUBSET PaneTexts, Submits(texts),
           \A o \in Orders : o \in texts => o \notin queued /\ ~Said(o) /\ o \in pasted',
           pasted \subseteq pasted', pasted' \in SUBSET Orders
    PROVE  /\ Placed'
           /\ \A o : Confirms(o) => Confirms(o)'
<1>1. composer' = {}
  BY Zenon DEF Submits
<1>2. CASE texts = {} \/ backend = "shell"
  <2>1. queued' = queued /\ transcript' = transcript
    BY Zenon, <1>2 DEF Submits
  <2>2. (\A o : Said(o)' <=> Said(o)) /\ \A o : Confirms(o)' <=> Confirms(o)
    BY Zenon, <2>1 DEF Said, Confirms
  <2> QED BY Zenon, <1>1, <2>1, <2>2 DEF Placed
<1>3. CASE ~(texts = {} \/ backend = "shell") /\ busy
  <2>1. queued' = queued \cup texts /\ transcript' = transcript
    BY Zenon, <1>3 DEF Submits
  <2>2. (\A o : Said(o)' <=> Said(o)) /\ \A o : Confirms(o)' <=> Confirms(o)
    BY Zenon, <2>1 DEF Said, Confirms
  <2> QED BY Zenon, <1>1, <2>1, <2>2 DEF Placed
<1>4. CASE ~(texts = {} \/ backend = "shell") /\ ~busy
  <2> DEFINE r == [role |-> "user", texts |-> texts]
  <2>1. queued' = queued /\ transcript' = Append(transcript, r)
    BY Zenon, <1>4 DEF Submits
  <2>2. r \in Turns
    BY Zenon DEF Turns
  <2>3. /\ transcript' \in Seq(Turns)
        /\ \A o : Said(o)' <=> Said(o) \/ o \in texts
        /\ \A o : Confirms(o) => Confirms(o)'
    BY Zenon, <2>1, <2>2, SaidMore DEF Placed
  <2> QED BY Zenon, <1>1, <2>1, <2>3 DEF Placed
<1> QED BY Zenon, <1>2, <1>3, <1>4

\* The empty pane satisfies the invariant.
LEMMA SendInitHolds == PaneInit => SendInv
<1> SUFFICES ASSUME PaneInit PROVE SendInv
  BY Zenon
<1>1. transcript = <<>> /\ \A o : ~Said(o)
  BY DEF PaneInit, Said
<1> QED BY <1>1 DEF PaneInit, SendInv, Placed, Sending, Results, Untouched, Before, After, Turns

\* A step that leaves the texts where they are keeps Placed and what confirms.
LEMMA StillPlaced ==
    ASSUME Placed, UNCHANGED <<composer, queued, transcript, pasted>>
    PROVE  Placed' /\ \A o : (Said(o)' <=> Said(o)) /\ (Confirms(o)' <=> Confirms(o))
<1>1. \A o : (Said(o)' <=> Said(o)) /\ (Confirms(o)' <=> Confirms(o))
  BY Zenon DEF Said, Confirms
<1> QED BY Zenon, <1>1 DEF Placed

\* The send goes on: from one step before the paste to another, or from one
\* after it to another.
LEMMA GoesOn ==
    ASSUME SendInv, pc # "idle", UNCHANGED <<composer, queued, transcript, pasted, sendOrder, result, grabbed>>,
           \/ pc \in Before /\ pc' \in Before
           \/ pc \in After /\ pc' \in After,
           pc' = "check" \/ (pc = "check" /\ ~raced' => composer \cap Drafts = {}),
           pc # "check" => raced' = raced
    PROVE  SendInv'
<1>1. Placed' /\ \A o : (Confirms(o)' <=> Confirms(o))
  BY Zenon, StillPlaced DEF SendInv
<1>2. Sending'
  BY Zenon DEF SendInv, Sending, Before, After
<1>3. Results'
  BY Zenon, <1>1 DEF SendInv, Results
<1>4. Untouched'
  BY Zenon DEF SendInv, Untouched, Before, After
<1> QED BY Zenon, <1>1, <1>2, <1>3, <1>4 DEF SendInv

\* The send ends with a result that what it did to the pane allows.
LEMMA EndsWell ==
    ASSUME SendInv, pc # "idle", NEW out \in {"blocked", "failed", "unconfirmed", "sent"}, Ends(out),
           UNCHANGED <<composer, queued, transcript, pasted, grabbed>>,
           out = "blocked" => pc \in Before,
           out = "sent" => Confirms(sendOrder)
    PROVE  SendInv'
<1>1. Placed' /\ \A o : (Confirms(o)' <=> Confirms(o))
  BY Zenon, StillPlaced DEF SendInv
<1>2. /\ pc' = "idle" /\ sendOrder' = NoOrder
      /\ result' = [result EXCEPT ![sendOrder] = out]
  BY Zenon DEF Ends
<1>3. Sending'
  BY Zenon, <1>2 DEF SendInv, Sending, Before, After
<1>4. Results'
  BY Zenon, <1>1, <1>2 DEF SendInv, Results, Sending
<1>5. Untouched'
  BY Zenon, <1>2 DEF SendInv, Untouched
<1> QED BY Zenon, <1>1, <1>3, <1>4, <1>5 DEF SendInv

\* dispatch_to_tmux begins.
LEMMA BeginKeeps ==
    ASSUME SendInv, NEW o \in Orders, Begin(o)
    PROVE  SendInv'
<1>1. Placed' /\ \A q : (Confirms(q)' <=> Confirms(q))
  BY Zenon, StillPlaced DEF Begin, SendInv, pane, send, history
<1>2. pc = "idle" /\ sendOrder = NoOrder /\ result[o] = "none" /\ o # NoOrder /\ o \notin pasted
  BY Zenon, OrdersAreOrders DEF Begin, SendInv, Sending, Results
<1>3. CASE sendOrder' = o /\ pc' = "check" /\ UNCHANGED result
  <2>1. Sending' /\ Results'
    BY Zenon, <1>1, <1>2, <1>3, OrdersAreOrders DEF Begin, SendInv, Sending, Results, Before, After
  <2>2. Untouched'
    BY Zenon, <1>3 DEF Begin, SendInv, Untouched
  <2> QED BY Zenon, <1>1, <2>1, <2>2 DEF SendInv
<1>4. CASE (\E out \in {"blocked", "failed"} : result' = [result EXCEPT ![o] = out])
           /\ UNCHANGED <<sendOrder, pc, raced>>
  <2>1. Sending' /\ Results'
    BY Zenon, <1>1, <1>2, <1>4, OrdersAreOrders DEF Begin, SendInv, Sending, Results, Before, After
  <2>2. Untouched'
    BY Zenon, <1>2, <1>4 DEF Begin, SendInv, Untouched
  <2> QED BY Zenon, <1>1, <2>1, <2>2 DEF SendInv
<1> QED BY Zenon, <1>3, <1>4 DEF Begin

\* The look at the pane: a send goes past it only if the composer was empty, or
\* what the operator typed was not painted yet.
LEMMA PreCheckKeeps ==
    ASSUME SendInv, PreCheck
    PROVE  SendInv'
<1>1. PICK s \in Captures :
         /\ Capture(s)
         /\ IF RowIdle(s) /\ ~(governed /\ s.busy) THEN Goes("mode") ELSE Ends("blocked")
  BY Zenon DEF PreCheck
<1>2. /\ pc = "check" /\ raced' = (composer # screen.texts)
      /\ UNCHANGED <<composer, queued, transcript, pasted, grabbed>>
  BY Zenon DEF PreCheck, pane
<1>3. CASE Ends("blocked")
  BY Zenon, <1>2, <1>3, EndsWell DEF Before
<1>4. CASE RowIdle(s) /\ Goes("mode")
  <2>1. s = screen /\ s.texts = {}
    BY Zenon, <1>1, <1>4 DEF RowIdle, Captures
  <2>2. ~raced' => composer \cap Drafts = {}
    BY Zenon, <1>2, <2>1
  <2> QED BY Zenon, <1>2, <1>4, <2>2, GoesOn DEF Goes, Before
<1> QED BY Zenon, <1>1, <1>3, <1>4

\* Leaving tmux copy mode touches no text.
LEMMA LeaveCopyModeKeeps ==
    ASSUME SendInv, LeaveCopyMode
    PROVE  SendInv'
<1>1. /\ pc = "mode" /\ UNCHANGED <<composer, queued, transcript, pasted, grabbed, raced>>
  BY Zenon DEF LeaveCopyMode, history
<1>2. CASE Goes("paste")
  BY Zenon, <1>1, <1>2, GoesOn DEF Goes, Before
<1>3. CASE Ends("blocked")
  BY Zenon, <1>1, <1>3, EndsWell DEF Before
<1> QED BY Zenon, <1>2, <1>3 DEF LeaveCopyMode

\* A key of the dispatcher, swallowed, failed or taken.
LEMMA PressKeeps ==
    ASSUME SendInv, pc \in After, NEW key, Press(key), NEW mark \in After, Goes(mark),
           UNCHANGED <<raced, pasted>>
    PROVE  SendInv'
<1>1. /\ pc' = mark /\ UNCHANGED <<sendOrder, result>>
  BY Zenon DEF Goes
<1>2. CASE UNCHANGED <<pane, grabbed>>
  BY Zenon, <1>1, <1>2, GoesOn DEF pane, After
<1>3. CASE /\ Submits(composer)
           /\ grabbed' = (grabbed \/ (composer \cap Drafts # {} /\ ~raced))
  <2>1. /\ Placed' /\ \A o : Confirms(o) => Confirms(o)'
    BY Zenon, <1>3, SubmitsKeeps DEF SendInv, Placed
  <2>2. Sending'
    BY Zenon, <1>1 DEF SendInv, Sending, Before, After
  <2>3. Results'
    BY Zenon, <1>1, <2>1 DEF SendInv, Results
  <2>4. Untouched'
    BY Zenon, <1>3 DEF SendInv, Untouched, After, Submits
  <2> QED BY Zenon, <2>1, <2>2, <2>3, <2>4 DEF SendInv
<1> QED BY Zenon, <1>2, <1>3 DEF Press

\* The paste, or the grant's lane-steer.
LEMMA PasteTextKeeps ==
    ASSUME SendInv, PasteText
    PROVE  SendInv'
<1>1. /\ pc = "paste" /\ UNCHANGED raced /\ sendOrder \in Orders /\ sendOrder \notin pasted
      /\ sendOrder \notin Drafts
  BY Zenon, OrdersAreOrders DEF PasteText, SendInv, Sending, Before
<1>2. CASE Ends("failed") /\ UNCHANGED <<pane, pasted, grabbed>>
  BY Zenon, <1>1, <1>2, EndsWell DEF pane, Before
<1>3. CASE /\ Goes("look") /\ pasted' = pasted \cup {sendOrder}
           /\ \/ /\ composer' = IF copying THEN composer ELSE composer \cup {sendOrder}
                 /\ UNCHANGED <<backend, governed, busy, copying, screen, queued, transcript, grabbed>>
              \/ /\ governed /\ ~copying
                 /\ Submits(composer \cup {sendOrder})
                 /\ grabbed' = (grabbed \/ (composer \cap Drafts # {} /\ ~raced))
  <2>1. pc' = "look" /\ UNCHANGED <<sendOrder, result>>
    BY Zenon, <1>3 DEF Goes
  <2>2. Sending'
    BY Zenon, <1>1, <2>1 DEF SendInv, Sending, Before, After
  <2>3. pasted' \in SUBSET Orders /\ pasted \subseteq pasted' /\ sendOrder \in pasted'
    BY Zenon, <1>1, <1>3 DEF SendInv, Placed
  <2>4. sendOrder \notin composer /\ sendOrder \notin queued /\ ~Said(sendOrder)
    BY Zenon, <1>1 DEF SendInv, Placed
  <2>5. Placed' /\ \A o : Confirms(o) => Confirms(o)'
    <3>1. CASE /\ composer' \in {composer, composer \cup {sendOrder}}
               /\ UNCHANGED <<queued, transcript>>
      <4>1. \A o : (Said(o)' <=> Said(o)) /\ (Confirms(o)' <=> Confirms(o))
        BY Zenon, <3>1 DEF Said, Confirms
      <4>2. composer' \in SUBSET PaneTexts
        BY Zenon, <3>1, <1>1 DEF SendInv, Placed, PaneTexts
      <4> QED BY Zenon, <3>1, <4>1, <4>2, <2>3, <2>4 DEF SendInv, Placed
    <3>2. CASE Submits(composer \cup {sendOrder})
      <4>1. composer \cup {sendOrder} \in SUBSET PaneTexts
        BY Zenon, <1>1 DEF SendInv, Placed, PaneTexts
      <4>2. \A o \in Orders : o \in composer \cup {sendOrder} => o \notin queued /\ ~Said(o) /\ o \in pasted'
        BY Zenon, <2>3, <2>4 DEF SendInv, Placed
      <4> QED BY Zenon, <3>2, <4>1, <4>2, <2>3, SubmitsKeeps DEF SendInv
    <3> QED BY Zenon, <1>3, <3>1, <3>2
  <2>6. Results'
    BY Zenon, <2>1, <2>5, <1>3 DEF SendInv, Results
  <2>7. Untouched'
    BY Zenon, <1>1, <1>3, <2>1 DEF SendInv, Untouched, Submits
  <2> QED BY Zenon, <2>2, <2>5, <2>6, <2>7 DEF SendInv
<1> QED BY Zenon, <1>2, <1>3 DEF PasteText

\* ensure_nudge_submitted and its polls.
LEMMA LookKeeps ==
    ASSUME SendInv, Look \/ Verify
    PROVE  SendInv'
<1>1. /\ pc \in After /\ UNCHANGED <<composer, queued, transcript, pasted, grabbed, raced>>
  BY Zenon DEF Look, Verify, pane, history, After
<1>2. /\ UNCHANGED <<sendOrder, result>> /\ pc' \in After
  <2>1. CASE Look
    BY Zenon, <2>1 DEF Look, Polls, Goes, After
  <2>2. CASE Verify
    BY Zenon, <2>2 DEF Verify, Polls, Goes, After
  <2> QED BY Zenon, <2>1, <2>2
<1> QED BY Zenon, <1>1, <1>2, GoesOn DEF After

\* Enter and the fallback key submit what the composer holds, or fail.
LEMMA KeyKeeps ==
    ASSUME SendInv, Key \/ Fallback
    PROVE  SendInv'
<1>1. pc \in After /\ pc # "idle" /\ UNCHANGED <<raced, pasted>>
  BY Zenon DEF Key, Fallback, After
<1>2. CASE Ends("failed") /\ UNCHANGED <<pane, grabbed>>
  BY Zenon, <1>1, <1>2, EndsWell DEF pane
<1>3. ASSUME NEW key, Press(key), NEW mark \in {"confirm", "verify", "reverify"}, Goes(mark)
      PROVE  SendInv'
  BY Zenon, <1>1, <1>3, PressKeeps DEF After
<1>4. CASE Key
  BY Zenon, <1>2, <1>3, <1>4 DEF Key
<1>5. CASE Fallback
  BY Zenon, <1>2, <1>3, <1>5 DEF Fallback
<1> QED BY Zenon, <1>4, <1>5

\* The last look after the fallback key polls, goes on or gives up.
LEMMA ReverifyKeeps ==
    ASSUME SendInv, Reverify
    PROVE  SendInv'
<1>1. /\ pc = "reverify" /\ UNCHANGED <<composer, queued, transcript, pasted, grabbed, raced>>
  BY Zenon DEF Reverify, pane, history
<1>2. CASE Ends("failed")
  BY Zenon, <1>1, <1>2, EndsWell
<1>3. CASE Polls \/ Goes("confirm")
  <2>1. UNCHANGED <<sendOrder, result>> /\ pc' \in After
    BY Zenon, <1>1, <1>3 DEF Polls, Goes, After
  <2> QED BY Zenon, <1>1, <2>1, GoesOn DEF After
<1> QED BY Zenon, <1>2, <1>3 DEF Reverify

\* Sent on the transcript's word alone.
LEMMA ConfirmKeeps ==
    ASSUME SendInv, Confirm
    PROVE  SendInv'
<1>1. /\ pc = "confirm" /\ UNCHANGED <<composer, queued, transcript, pasted, grabbed>>
  BY Zenon DEF Confirm, pane, history
<1>2. CASE Confirms(sendOrder) /\ Ends("sent")
  BY Zenon, <1>1, <1>2, EndsWell
<1>3. CASE Ends("unconfirmed")
  BY Zenon, <1>1, <1>3, EndsWell
<1> QED BY Zenon, <1>2, <1>3 DEF Confirm

\* The retry looks, and never types.
LEMMA ReconcileSendKeeps ==
    ASSUME SendInv, NEW o \in Orders, ReconcileSend(o)
    PROVE  SendInv'
<1>1. /\ pc = "idle" /\ result[o] = "unconfirmed" /\ Confirms(o)
      /\ result' = [result EXCEPT ![o] = "sent"]
      /\ UNCHANGED <<composer, queued, transcript, pasted, grabbed, raced, pc, sendOrder>>
  BY Zenon DEF ReconcileSend, pane, send, history
<1>2. Placed' /\ \A q : (Confirms(q)' <=> Confirms(q))
  BY Zenon, <1>1, StillPlaced DEF SendInv
<1>3. Sending'
  BY Zenon, <1>1 DEF SendInv, Sending, Before, After
<1>4. Results'
  BY Zenon, <1>1, <1>2 DEF SendInv, Results
<1>5. Untouched'
  BY Zenon, <1>1 DEF SendInv, Untouched
<1> QED BY Zenon, <1>2, <1>3, <1>4, <1>5 DEF SendInv

\* Around the send, a step changes neither it nor its result.
LEMMA AroundKeeps ==
    ASSUME SendInv, Placed', \A o : Confirms(o) => Confirms(o)',
           UNCHANGED <<send, result, pasted, grabbed>>,
           pc \notin {"idle", "check"} /\ ~raced' => ~raced /\ composer' \cap Drafts \subseteq composer
    PROVE  SendInv'
<1>1. Sending'
  BY Zenon DEF SendInv, Sending, Before, After, send
<1>2. Results'
  BY Zenon DEF SendInv, Results, send
<1>3. Untouched'
  BY Zenon DEF SendInv, Untouched, send
<1> QED BY Zenon, <1>1, <1>2, <1>3 DEF SendInv

\* The operator types, presses Enter or scrolls.
LEMMA OperatorKeeps ==
    ASSUME SendInv, Operator
    PROVE  SendInv'
<1>1. UNCHANGED <<send, result, pasted, grabbed>>
  BY Zenon DEF Operator
<1>2. CASE /\ composer' \in {composer \cup {d} : d \in Drafts} /\ raced' = (raced \/ pc # "idle")
           /\ UNCHANGED <<queued, transcript>>
  <2>1. PICK d \in Drafts : composer' = composer \cup {d}
    BY Zenon, <1>2
  <2>2. \A o : (Said(o)' <=> Said(o)) /\ (Confirms(o)' <=> Confirms(o))
    BY Zenon, <1>2 DEF Said, Confirms
  <2>3. d \notin Orders /\ composer' \in SUBSET PaneTexts
    BY Zenon, <2>1, OrdersAreOrders DEF SendInv, Placed, PaneTexts
  <2>4. Placed'
    BY Zenon, <1>1, <1>2, <2>1, <2>2, <2>3 DEF SendInv, Placed
  <2>5. pc \notin {"idle", "check"} => raced'
    BY Zenon, <1>2
  <2> QED BY Zenon, <1>1, <2>2, <2>4, <2>5, AroundKeeps
<1>3. CASE Submits(composer) /\ UNCHANGED raced
  <2>1. Placed' /\ \A o : Confirms(o) => Confirms(o)'
    BY Zenon, <1>1, <1>3, SubmitsKeeps DEF SendInv, Placed
  <2>2. composer' = {}
    BY Zenon, <1>3 DEF Submits
  <2> QED BY Zenon, <1>1, <1>3, <2>1, <2>2, AroundKeeps
<1>4. CASE UNCHANGED <<composer, queued, transcript, raced>>
  <2>1. Placed' /\ \A o : Confirms(o) => Confirms(o)'
    BY Zenon, <1>1, <1>4, StillPlaced DEF SendInv
  <2> QED BY Zenon, <1>1, <1>4, <2>1, AroundKeeps
<1> QED BY Zenon, <1>2, <1>3, <1>4 DEF Operator

\* The terminal paints, the agent acts, a turn ends.
LEMMA LaneKeeps ==
    ASSUME SendInv, Paint \/ AgentActs \/ TurnEnds
    PROVE  SendInv'
<1>1. UNCHANGED <<send, result, pasted, grabbed, raced, composer>>
  BY Zenon DEF Paint, AgentActs, TurnEnds, history
<1>2. CASE UNCHANGED <<queued, transcript>>
  <2>1. Placed' /\ \A o : Confirms(o) => Confirms(o)'
    BY Zenon, <1>1, <1>2, StillPlaced DEF SendInv
  <2> QED BY Zenon, <1>1, <2>1, AroundKeeps
<1>3. CASE AgentActs
  <2> DEFINE r == [role |-> "agent", texts |-> {}]
  <2>1. transcript' = Append(transcript, r) /\ UNCHANGED queued /\ r \in Turns
    BY Zenon, <1>3 DEF AgentActs, Turns
  <2>2. /\ transcript' \in Seq(Turns)
        /\ \A o : Said(o)' <=> Said(o)
        /\ \A o : Confirms(o) => Confirms(o)'
    BY Zenon, <2>1, SaidMore DEF SendInv, Placed
  <2>3. Placed'
    BY Zenon, <1>1, <2>1, <2>2 DEF SendInv, Placed
  <2> QED BY Zenon, <1>1, <2>2, <2>3, AroundKeeps
<1>4. CASE TurnEnds /\ queued # {}
  <2> DEFINE r == [role |-> "user", texts |-> queued]
  <2>1. transcript' = Append(transcript, r) /\ queued' = {} /\ r \in Turns
    BY Zenon, <1>4 DEF TurnEnds, Turns, SendInv, Placed
  <2>2. /\ transcript' \in Seq(Turns)
        /\ \A o : Said(o)' <=> Said(o) \/ o \in queued
        /\ \A o : Confirms(o) => Confirms(o)'
    BY Zenon, <2>1, SaidMore DEF SendInv, Placed
  <2>3. Placed'
    BY Zenon, <1>1, <2>1, <2>2 DEF SendInv, Placed
  <2> QED BY Zenon, <1>1, <2>2, <2>3, AroundKeeps
<1>5. CASE Paint
  BY Zenon, <1>2, <1>5 DEF Paint
<1>6. CASE TurnEnds /\ queued = {}
  BY Zenon, <1>2, <1>6 DEF TurnEnds
<1> QED BY Zenon, <1>3, <1>4, <1>5, <1>6

\* Every step of the send and of what is around it keeps SendInv.
LEMMA SendStep == SendInv /\ [PaneNext]_paneVars => SendInv'
<1> SUFFICES ASSUME SendInv, [PaneNext]_paneVars PROVE SendInv'
  BY Zenon
<1>1. CASE UNCHANGED paneVars
  <2>1. Placed' /\ \A o : Confirms(o) => Confirms(o)'
    BY Zenon, <1>1, StillPlaced DEF SendInv, paneVars, pane, history
  <2>2. UNCHANGED <<send, result, pasted, grabbed, raced, composer>>
    BY Zenon, <1>1 DEF paneVars, pane, history
  <2> QED BY Zenon, <2>1, <2>2, AroundKeeps
<1>2. CASE PaneNext
  BY Zenon, <1>2, BeginKeeps, ReconcileSendKeeps, PreCheckKeeps, LeaveCopyModeKeeps, PasteTextKeeps,
     LookKeeps, KeyKeeps, ReverifyKeeps, ConfirmKeeps, OperatorKeeps, LaneKeeps DEF PaneNext
<1> QED BY Zenon, <1>1, <1>2

\* The invariant says what a result of dispatch_to_tmux promises.
LEMMA SendInvIsHonest == SendInv => SendsAreHonest
<1> SUFFICES ASSUME SendInv PROVE SendsAreHonest
  BY Zenon
<1>1. ASSUME NEW o \in Orders, result[o] = "blocked" PROVE o \notin pasted
  BY Zenon, <1>1, OrdersAreOrders DEF SendInv, Results, Sending
<1>2. ASSUME NEW o \in Orders, result[o] = "sent" PROVE Confirms(o) /\ o \notin composer \cup queued
  BY Zenon, <1>2, ConfirmedIsSaid DEF SendInv, Results, Placed
<1> QED BY Zenon, <1>1, <1>2 DEF SendsAreHonest, SendInv, Untouched

\* For any orders, any number of polls and faults, and whatever the operator
\* does: a blocked order never touched the pane, a sent one was consumed and
\* waits nowhere, and no key submits a draft the send could see
\* (dispatch_to_tmux, pane_input_check and _structural_transcript_confirms).
THEOREM SendsStayHonest == PaneSpec => []SendsAreHonest
<1>1. PaneSpec => []SendInv
  BY SendInitHolds, SendStep, PTL DEF PaneSpec
<1> QED
  BY <1>1, SendInvIsHonest, PTL

-----------------------------------------------------------------------------
Rows == [state : {"none", "observing", "pending", "queued", "awaiting", "blocked", "verified"},
         attempt : Nat, wait : BOOLEAN, boundary : BOOLEAN,
         obstacle : {"", "transport", "cap", "missing"} \cup Refusals]
Incidents == [stage : Nat, consumed : BOOLEAN, sealed : BOOLEAN]

\* What the records of the tracks are.
TracksTyped ==
    /\ inc \in [Tracks -> Incidents]
    /\ act \in [Tracks -> Rows]
    /\ order \in [Tracks -> {"none", "queued", "sent", "failed"} \cup Refusals]
    /\ turn \in [Tracks -> BOOLEAN]
    /\ publications \in [Tracks -> Nat]
    /\ ckpt \in [Tracks -> [binds : {"none", "bundle", "other"}, spent : BOOLEAN]]

Shaped(p) == p = [at |-> p.at, left |-> p.left, says |-> p.says, holds |-> p.holds]
LaneHeld(l) == l = [state |-> l.state, of |-> l.of, boundary |-> l.boundary]

\* A consumption is that of the order the track is at; a seal was paid for.
Earned(t) ==
    /\ inc[t].consumed => order[t] = "sent" /\ turn[t]
    /\ inc[t].sealed => ckpt[t].spent

\* What the pass concluded about the finding it is at still holds.
Fresh(t) ==
    /\ pass.at = "publish" /\ Head(pass.left) = t => order[t] = "none"
    /\ pass.at = "sealing" /\ Head(pass.left) = t => ckpt[t].spent

\* A row that may be touched up later gives up nothing.
Open(t) ==
    /\ act[t].wait => act[t].obstacle = "transport"
    /\ act[t].state \in {"none", "awaiting"} => act[t].obstacle = ""
    /\ lane.of = t /\ lane.of # "none" => lane.state = act[t].state

SupInv ==
    /\ TracksTyped /\ Shaped(pass) /\ LaneHeld(lane)
    /\ \A t \in Tracks : Earned(t) /\ Fresh(t) /\ Open(t)

\* The monitor before its first pass.
LEMMA SupInitHolds == SupervisionInit => SupInv
<1> SUFFICES ASSUME SupervisionInit PROVE SupInv
  BY Zenon
<1>1. TracksTyped
  BY Zenon DEF SupervisionInit, TracksTyped, NoIncident, NoRow, NoReceipt, Rows, Incidents, Refusals
<1>2. Shaped(pass) /\ LaneHeld(lane)
  BY Zenon DEF SupervisionInit, Shaped, LaneHeld, NoLane, NoSupervision
<1>3. \A t \in Tracks : Earned(t) /\ Fresh(t) /\ Open(t)
  BY Zenon DEF SupervisionInit, Earned, Fresh, Open, NoIncident, NoRow, NoLane, NoSupervision
<1> QED BY Zenon, <1>1, <1>2, <1>3 DEF SupInv

\* The next finding, or the look at the rescue stage.
LEMMA NextShape ==
    ASSUME Shaped(pass)
    PROVE  /\ Shaped(Following) /\ Shaped(ToRescue) /\ Shaped(NoSupervision)
           /\ Following.at \in {"idle", "evaluate"} /\ ToRescue.at \in {"idle", "evaluate", "rescue"}
           /\ NoSupervision.at = "idle"
  BY Zenon DEF Shaped, Following, ToRescue, NoSupervision

\* Only the pass goes on.
LEMMA PassKeeps ==
    ASSUME SupInv, Shaped(pass'), UNCHANGED <<inc, act, order, turn, publications, ckpt, lane>>,
           pass'.at \in {"publish", "sealing"} =>
                pass'.left = pass.left /\ (pass'.at = pass.at \/ (Cur \in Tracks => order[Cur] = "none" /\ ckpt[Cur].spent))
    PROVE  SupInv'
<1>1. TracksTyped' /\ Shaped(pass)' /\ LaneHeld(lane)'
  BY Zenon DEF SupInv, TracksTyped, Shaped, LaneHeld
<1>2. \A t \in Tracks : Earned(t)' /\ Open(t)'
  BY Zenon DEF SupInv, Earned, Open
<1>3. \A t \in Tracks : Fresh(t)'
  BY Zenon DEF SupInv, Fresh, Cur
<1> QED BY Zenon, <1>1, <1>2, <1>3 DEF SupInv

\* A row of the ledger, accepted or refused, or already there.
LEMMA RowKeeps ==
    ASSUME SupInv, NEW row, Cur \in Tracks => row \in Rows, NEW then, Shaped(then), Row(row, then) \/ RowOnce(row, then),
           UNCHANGED <<inc, turn, ckpt>>,
           row.attempt # act[Cur].attempt => order[Cur] = "failed",
           Cur \in Tracks /\ row.wait => row.obstacle = "transport",
           Cur \in Tracks /\ row.state \in {"none", "awaiting"} => row.obstacle = "",
           then.at # "sealing",
           then.at = "publish" =>
                then.left = pass.left /\ row.attempt = act[Cur].attempt /\ (Cur \in Tracks => order[Cur] = "none")
    PROVE  SupInv'
<1>1. CASE pass' = then /\ UNCHANGED <<lane, act, order, publications>>
  <2>1. TracksTyped' /\ Shaped(pass)' /\ LaneHeld(lane)'
    BY Zenon, <1>1 DEF SupInv, TracksTyped, Shaped, LaneHeld
  <2>2. \A t \in Tracks : Earned(t)' /\ Open(t)'
    BY Zenon, <1>1 DEF SupInv, Earned, Open
  <2>3. \A t \in Tracks : Fresh(t)'
    BY Zenon, <1>1 DEF SupInv, Fresh, Cur
  <2> QED BY Zenon, <2>1, <2>2, <2>3 DEF SupInv
<1>2. CASE pass' = NoSupervision /\ UNCHANGED <<lane, act, order, publications>>
  BY Zenon, <1>2, NextShape DEF SupInv, TracksTyped, Earned, Fresh, Open
<1>3. CASE /\ lane' = [state |-> row.state, of |-> Cur, boundary |-> row.boundary]
           /\ act' = [act EXCEPT ![Cur] = row]
           /\ order' = IF row.attempt = act[Cur].attempt THEN order
                       ELSE [order EXCEPT ![Cur] = "none"]
           /\ publications' = IF row.attempt = act[Cur].attempt THEN publications
                              ELSE [publications EXCEPT ![Cur] = 0]
           /\ pass' = then
  <2>1. TracksTyped'
    BY Zenon, <1>3 DEF SupInv, TracksTyped
  <2>2. Shaped(pass)' /\ LaneHeld(lane)'
    BY Zenon, <1>3 DEF Shaped, LaneHeld
  <2>3. ASSUME NEW t \in Tracks PROVE Earned(t)'
    BY Zenon, <1>3, <2>3 DEF SupInv, TracksTyped, Earned
  <2>4. ASSUME NEW t \in Tracks PROVE Fresh(t)'
    BY ZenonT(60), <1>3, <2>4 DEF SupInv, TracksTyped, Fresh, Cur
  <2>5. ASSUME NEW t \in Tracks PROVE Open(t)'
    BY Zenon, <1>3, <2>5 DEF SupInv, TracksTyped, Open
  <2> QED BY Zenon, <2>1, <2>2, <2>3, <2>4, <2>5 DEF SupInv
<1> QED BY Zenon, <1>1, <1>2, <1>3 DEF Row, RowOnce

\* A row at the attempt its track is at.
LEMMA AtTyped ==
    ASSUME SupInv, Cur \in Tracks,
           NEW state \in {"none", "observing", "pending", "queued", "awaiting", "blocked", "verified"}
    PROVE  /\ At_(state) \in Rows
           /\ At_(state).state = state /\ At_(state).attempt = act[Cur].attempt
           /\ At_(state).wait = FALSE /\ At_(state).obstacle = "" /\ At_(state).boundary = FALSE
  BY Zenon DEF At_, SupInv, TracksTyped, Rows, NoRow

\* The correction was delivered.
LEMMA DeliveredKeeps ==
    ASSUME SupInv, Delivered, UNCHANGED <<inc, turn, ckpt>>
    PROVE  SupInv'
<1>1. Shaped(ToRescue) /\ ToRescue.at \in {"idle", "evaluate", "rescue"}
  BY Zenon, NextShape DEF SupInv
<1> DEFINE r0 == At_("awaiting")
           r1 == [At_("awaiting") EXCEPT !.boundary = TRUE]
<1>2. /\ r0.attempt = act[Cur].attempt /\ r0.wait = FALSE /\ r0.obstacle = ""
      /\ r1.attempt = act[Cur].attempt /\ r1.wait = FALSE /\ r1.obstacle = ""
  BY Zenon DEF At_, NoRow
<1>3. Cur \in Tracks => r0 \in Rows /\ r1 \in Rows
  BY Zenon, AtTyped DEF Rows
<1>4. RowOnce(r0, ToRescue) \/ RowOnce(r1, ToRescue)
  BY Zenon DEF Delivered
<1> HIDE DEF r0, r1
<1>5. CASE RowOnce(r0, ToRescue)
  BY Zenon, <1>1, <1>2, <1>3, <1>5, RowKeeps
<1>6. CASE RowOnce(r1, ToRescue)
  BY Zenon, <1>1, <1>2, <1>3, <1>6, RowKeeps
<1> QED BY Zenon, <1>4, <1>5, <1>6

\* The correction was rejected for good.
LEMMA RejectedKeeps ==
    ASSUME SupInv, Rejected, order[Cur] \in Refusals, UNCHANGED <<inc, turn, ckpt>>
    PROVE  SupInv'
<1>1. Shaped(ToRescue) /\ ToRescue.at \in {"idle", "evaluate", "rescue"}
  BY Zenon, NextShape DEF SupInv
<1> DEFINE r == [At_("blocked") EXCEPT !.obstacle = order[Cur]]
<1>2. r.attempt = act[Cur].attempt /\ r.wait = FALSE /\ r.state = "blocked"
  BY Zenon DEF At_, NoRow
<1>3. Cur \in Tracks => r \in Rows
  BY Zenon, AtTyped DEF Rows
<1>4. RowOnce(r, ToRescue)
  BY Zenon DEF Rejected
<1> HIDE DEF r
<1> QED BY Zenon, <1>1, <1>2, <1>3, <1>4, RowKeeps

\* The correction's transport failed.
LEMMA FailedKeeps ==
    ASSUME SupInv, Failed, order[Cur] = "failed", UNCHANGED <<inc, turn, ckpt>>
    PROVE  SupInv'
<1>1. Shaped(ToRescue) /\ ToRescue.at \in {"idle", "evaluate", "rescue"}
  BY Zenon, NextShape DEF SupInv
<1> DEFINE next == act[Cur].attempt + 1
           r == [At_("blocked") EXCEPT !.attempt = next, !.wait = next < MaxAttempts,
                    !.obstacle = IF next < MaxAttempts THEN "transport" ELSE "cap"]
<1>2. /\ r.state = "blocked" /\ r.wait = (next < MaxAttempts)
      /\ r.obstacle = IF next < MaxAttempts THEN "transport" ELSE "cap"
  BY Zenon DEF At_, NoRow
<1>3. Cur \in Tracks => r \in Rows
  <2> SUFFICES ASSUME Cur \in Tracks PROVE r \in Rows
    BY Zenon
  <2>1. At_("blocked") \in Rows
    BY Zenon, AtTyped
  <2>2. next \in Nat
    <3>1. act[Cur] \in Rows
      BY Zenon DEF SupInv, TracksTyped
    <3>2. act[Cur].attempt \in Nat
      BY Zenon, <3>1 DEF Rows
    <3> QED BY <3>2
  <2>3. (next < MaxAttempts) \in BOOLEAN
    BY <2>2, CapIsNatural
  <2> HIDE DEF next
  <2> DEFINE waits == next < MaxAttempts
  <2>4. waits \in BOOLEAN /\ r = [At_("blocked") EXCEPT !.attempt = next, !.wait = waits,
                                     !.obstacle = IF waits THEN "transport" ELSE "cap"]
    BY Zenon, <2>3
  <2> HIDE DEF waits, r
  <2> QED BY Zenon, <2>1, <2>2, <2>4 DEF Rows
<1>4. Row(r, ToRescue)
  BY Zenon DEF Failed
<1> HIDE DEF r, next
<1> QED BY Zenon, <1>1, <1>2, <1>3, <1>4, RowKeeps

\* There is no trace of the order.
LEMMA UntracedKeeps ==
    ASSUME SupInv, Untraced, Cur \in Tracks => order[Cur] = "none", UNCHANGED <<inc, turn, ckpt>>
    PROVE  SupInv'
<1>1. Shaped(ToRescue) /\ ToRescue.at \in {"idle", "evaluate", "rescue"}
  BY Zenon, NextShape DEF SupInv
<1> DEFINE lost == [At_("blocked") EXCEPT !.obstacle = "missing"]
           due == At_("pending")
           publishing == [pass EXCEPT !.at = "publish"]
<1>2. /\ lost.attempt = act[Cur].attempt /\ lost.wait = FALSE /\ lost.state = "blocked"
      /\ due.attempt = act[Cur].attempt /\ due.wait = FALSE /\ due.state = "pending"
  BY Zenon DEF At_, NoRow
<1>3. Cur \in Tracks => lost \in Rows /\ due \in Rows
  BY Zenon, AtTyped DEF Rows
<1>4. Shaped(publishing) /\ publishing.at = "publish" /\ publishing.left = pass.left
  BY DEF SupInv, Shaped
<1>5. \/ Row(lost, ToRescue)
      \/ pass' = ToRescue /\ UNCHANGED <<lane, act, order, publications>>
      \/ RowOnce(due, publishing)
  BY Zenon DEF Untraced
<1> HIDE DEF lost, due, publishing
<1>6. CASE Row(lost, ToRescue)
  BY Zenon, <1>1, <1>2, <1>3, <1>6, RowKeeps
<1>7. CASE pass' = ToRescue /\ UNCHANGED <<lane, act, order, publications>>
  BY Zenon, <1>1, <1>7, PassKeeps
<1>8. CASE RowOnce(due, publishing)
  BY Zenon, <1>2, <1>3, <1>4, <1>8, RowKeeps
<1> QED BY Zenon, SMTT(30), <1>5, <1>6, <1>7, <1>8

\* reconcile_corrective_action, by where the order is found.
LEMMA ReconcileKeeps ==
    ASSUME SupInv, Reconcile
    PROVE  SupInv'
<1>1. UNCHANGED <<inc, turn, ckpt>>
  BY Zenon DEF Reconcile
<1>2. Shaped(ToRescue) /\ ToRescue.at \in {"idle", "evaluate", "rescue"}
  BY Zenon, NextShape DEF SupInv
<1>3. CASE pass' = ToRescue /\ UNCHANGED <<lane, act, order, publications>>
  BY Zenon, SMTT(30), <1>1, <1>2, <1>3, PassKeeps
<1>4. CASE RowOnce(At_("queued"), ToRescue)
  <2> DEFINE r == At_("queued")
  <2>1. r.attempt = act[Cur].attempt /\ r.wait = FALSE /\ r.state = "queued"
    BY Zenon DEF At_, NoRow
  <2>2. Cur \in Tracks => r \in Rows
    BY Zenon, AtTyped
  <2> HIDE DEF r
  <2>3. RowOnce(r, ToRescue)
    BY Zenon, <1>4 DEF r
  <2> QED BY Zenon, <1>1, <1>2, <2>1, <2>2, <2>3, RowKeeps
<1>5. CASE Untraced /\ order[Cur] \notin {"sent", "failed", "queued"} \cup Refusals
  <2>1. Cur \in Tracks => order[Cur] = "none"
    BY Zenon, <1>5 DEF SupInv, TracksTyped
  <2> QED BY Zenon, SMTT(30), <1>1, <1>5, <2>1, UntracedKeeps
<1>6. CASE order[Cur] = "sent" /\ Delivered
  BY Zenon, <1>1, <1>6, DeliveredKeeps
<1>7. CASE order[Cur] \in Refusals /\ Rejected
  BY Zenon, <1>1, <1>7, RejectedKeeps
<1>8. CASE order[Cur] = "failed" /\ Failed
  BY Zenon, <1>1, <1>8, FailedKeeps
<1> HIDE DEF Delivered, Rejected, Failed, Untraced
<1> QED BY Zenon, SMTT(30), <1>3, <1>4, <1>5, <1>6, <1>7, <1>8 DEF Reconcile, Located, Refusals

\* A pass begins, or a quiet one is observed.
LEMMA PassBeginKeeps ==
    ASSUME SupInv, NEW found, PassBegin(found)
    PROVE  SupInv'
<1>1. UNCHANGED <<inc, order, turn, publications, ckpt>>
  BY Zenon DEF PassBegin
<1>2. CASE UNCHANGED <<act, pass>> /\ lane' = [NoLane EXCEPT !.state = "verified"]
  <2>1. TracksTyped' /\ Shaped(pass)' /\ LaneHeld(lane)' /\ lane'.of = "none"
    BY Zenon, <1>1, <1>2 DEF SupInv, TracksTyped, Shaped, LaneHeld, NoLane
  <2>2. \A t \in Tracks : Earned(t)' /\ Fresh(t)' /\ Open(t)'
    BY Zenon, <1>1, <1>2, <2>1 DEF SupInv, Earned, Fresh, Open
  <2> QED BY Zenon, <2>1, <2>2 DEF SupInv
<1>3. CASE Observe /\ UNCHANGED pass
  <2>1. CASE UNCHANGED <<lane, act>>
    BY Zenon, SMTT(30), <1>1, <1>3, <2>1, PassKeeps DEF SupInv
  <2>2. CASE lane' = [lane EXCEPT !.state = "observing"] /\ lane.of = "none" /\ act' = act
    <3>1. TracksTyped' /\ Shaped(pass)' /\ LaneHeld(lane)' /\ lane'.of = "none"
      BY Zenon, <1>1, <1>3, <2>2 DEF SupInv, TracksTyped, Shaped, LaneHeld
    <3>2. \A t \in Tracks : Earned(t)' /\ Fresh(t)' /\ Open(t)'
      BY Zenon, <1>1, <1>3, <2>2, <3>1 DEF SupInv, Earned, Fresh, Open
    <3> QED BY Zenon, <3>1, <3>2 DEF SupInv
  <2>3. CASE /\ lane' = [lane EXCEPT !.state = "observing"] /\ lane.of # "none"
             /\ act' = [act EXCEPT ![lane.of].state = "observing"]
    <3>1. LaneHeld(lane)' /\ lane'.of = lane.of /\ lane'.state = "observing"
      BY Zenon, <2>3 DEF SupInv, LaneHeld
    <3>2. /\ act' \in [Tracks -> Rows]
          /\ \A t \in Tracks : act'[t] = IF t = lane.of THEN [act[t] EXCEPT !.state = "observing"] ELSE act[t]
      BY ZenonT(60), <2>3 DEF SupInv, TracksTyped, Rows
    <3>3. TracksTyped' /\ Shaped(pass)'
      BY Zenon, <1>1, <1>3, <3>2 DEF SupInv, TracksTyped, Shaped
    <3>4. \A t \in Tracks : Earned(t)' /\ Fresh(t)'
      BY Zenon, <1>1, <1>3 DEF SupInv, Earned, Fresh
    <3>5. ASSUME NEW t \in Tracks PROVE Open(t)'
      <4>1. act[t] \in Rows /\ Open(t)
        BY Zenon DEF SupInv, TracksTyped
      <4>2. CASE t = lane.of
        <5>1. /\ act'[t].state = "observing" /\ act'[t].wait = act[t].wait
              /\ act'[t].obstacle = act[t].obstacle
          BY Zenon, <3>2, <4>1, <4>2 DEF Rows
        <5> QED BY Zenon, <3>1, <4>1, <4>2, <5>1 DEF Open
      <4>3. CASE t # lane.of
        BY Zenon, <3>1, <3>2, <4>1, <4>3 DEF Open
      <4> QED BY Zenon, <4>2, <4>3
    <3> QED BY Zenon, SMTT(30), <3>1, <3>3, <3>4, <3>5 DEF SupInv
  <2> QED BY Zenon, <1>3, <2>1, <2>2, <2>3 DEF Observe
<1>4. CASE /\ pass' = [NoSupervision EXCEPT !.at = "evaluate", !.left = InOrder(found)]
           /\ UNCHANGED <<lane, act>>
  <2>1. Shaped(pass') /\ pass'.at = "evaluate"
    BY Zenon, <1>4 DEF Shaped, NoSupervision
  <2> QED BY Zenon, SMTT(30), <1>1, <1>4, <2>1, PassKeeps
<1> QED BY Zenon, <1>2, <1>3, <1>4 DEF PassBegin

\* ResponseLadder.evaluate holds, opens or advances the track's incident.
LEMMA EvaluateKeeps ==
    ASSUME SupInv, NEW recent, Evaluate(recent)
    PROVE  SupInv'
<1> DEFINE t0 == Cur
           says == Decision(t0, recent)
<1>1. /\ pass' = [pass EXCEPT !.at = "reconcile", !.says = says]
      /\ lane' = IF says # "hold" /\ lane.of = t0 THEN [lane EXCEPT !.of = "none"] ELSE lane
  BY Zenon DEF Evaluate
<1>2. Shaped(pass') /\ pass'.at = "reconcile" /\ LaneHeld(lane)'
  BY Zenon, <1>1 DEF SupInv, Shaped, LaneHeld
<1>3. CASE says = "hold"
  <2>1. UNCHANGED <<inc, act, order, turn, publications, ckpt, lane>>
    BY Zenon, <1>3, <1>1 DEF Evaluate
  <2> QED BY Zenon, <1>2, <2>1, PassKeeps
<1>4. CASE says # "hold"
  <2>1. /\ inc' = [inc EXCEPT ![t0] = Opened(t0)]
        /\ act' = [act EXCEPT ![t0] = NoRow]
        /\ order' = [order EXCEPT ![t0] = "none"]
        /\ turn' = [turn EXCEPT ![t0] = FALSE]
        /\ publications' = [publications EXCEPT ![t0] = 0]
        /\ ckpt' = [ckpt EXCEPT ![t0] = NoReceipt]
    BY Zenon, <1>4 DEF Evaluate
  <2> HIDE DEF t0, says
  <2>2. ASSUME t0 \in Tracks
        PROVE  Opened(t0) \in Incidents /\ Opened(t0).consumed = FALSE /\ Opened(t0).sealed = FALSE
    <3>1. inc[t0] \in Incidents
      BY Zenon, <2>2 DEF SupInv, TracksTyped
    <3>2. inc[t0].stage + 1 \in Nat
      BY <3>1 DEF Incidents
    <3> QED BY Zenon, <3>2 DEF Opened, NoIncident, Incidents
  <2>3. NoRow \in Rows /\ NoReceipt \in [binds : {"none", "bundle", "other"}, spent : BOOLEAN]
    BY Zenon DEF NoRow, Rows, NoReceipt
  <2>4. TracksTyped'
    BY Zenon, <2>1, <2>2, <2>3 DEF SupInv, TracksTyped
  <2>5. ASSUME NEW t \in Tracks PROVE Earned(t)' /\ Fresh(t)'
    BY Zenon, <1>2, <2>1, <2>2, <2>5 DEF SupInv, TracksTyped, Earned, Fresh
  <2>6. ASSUME NEW t \in Tracks PROVE Open(t)'
    <3>1. CASE t = t0
      <4>1. act'[t] = NoRow
        BY Zenon, <2>1, <3>1 DEF SupInv, TracksTyped
      <4>2. lane'.of # t \/ lane'.of = "none"
        BY Zenon, <1>1, <1>4, <3>1 DEF SupInv, LaneHeld
      <4>3. NoRow.wait = FALSE /\ NoRow.state = "none" /\ NoRow.obstacle = ""
        BY Zenon DEF NoRow
      <4> QED BY Zenon, <4>1, <4>2, <4>3 DEF Open
    <3>2. CASE t # t0
      <4>1. act'[t] = act[t]
        BY Zenon, <2>1, <3>2 DEF SupInv, TracksTyped
      <4>2. lane' = lane \/ lane'.of = "none"
        BY Zenon, <1>1 DEF SupInv, LaneHeld
      <4> QED BY Zenon, <4>1, <4>2 DEF SupInv, Open
    <3> QED BY Zenon, <3>1, <3>2
  <2> QED BY Zenon, <1>2, <2>4, <2>5, <2>6 DEF SupInv
<1> QED BY Zenon, <1>3, <1>4

\* A step that touches none of what the invariant is about.
LEMMA UntouchedKeeps ==
    ASSUME SupInv, UNCHANGED <<inc, act, order, turn, publications, ckpt, lane, pass>>
    PROVE  SupInv'
  BY Zenon, PassKeeps DEF SupInv

\* The consumption is bound to the incident.
LEMMA AttachKeeps ==
    ASSUME SupInv, Attach
    PROVE  SupInv'
<1>1. /\ Consumed(Cur) /\ inc' = [inc EXCEPT ![Cur].consumed = TRUE]
      /\ UNCHANGED <<act, order, turn, publications, ckpt, lane, pass>>
  BY Zenon DEF Attach
<1>2. TracksTyped' /\ Shaped(pass)' /\ LaneHeld(lane)'
  BY Zenon, <1>1 DEF SupInv, TracksTyped, Incidents, Shaped, LaneHeld
<1>3. ASSUME NEW t \in Tracks PROVE Earned(t)'
  <2>1. inc[t] \in Incidents /\ inc'[t] = IF t = Cur THEN [inc[t] EXCEPT !.consumed = TRUE] ELSE inc[t]
    BY Zenon, <1>1 DEF SupInv, TracksTyped
  <2>2. inc'[t].sealed = inc[t].sealed
    BY Zenon, <2>1 DEF Incidents
  <2> QED BY Zenon, <1>1, <2>1, <2>2 DEF SupInv, Earned, Consumed
<1>4. \A t \in Tracks : Fresh(t)' /\ Open(t)'
  BY Zenon, <1>1 DEF SupInv, Fresh, Open
<1> QED BY Zenon, <1>2, <1>3, <1>4 DEF SupInv

\* enqueue_dispatch_order
LEMMA PublishKeeps_ ==
    ASSUME SupInv, Publish
    PROVE  SupInv'
<1>1. /\ At("publish") /\ order' = [order EXCEPT ![Cur] = "queued"]
      /\ publications' = [publications EXCEPT ![Cur] = publications[Cur] + 1]
      /\ pass' = [pass EXCEPT !.at = "published"]
      /\ UNCHANGED <<inc, act, turn, ckpt, lane>>
  BY Zenon DEF Publish
<1>2. Shaped(pass)' /\ LaneHeld(lane)' /\ pass'.at = "published"
  BY Zenon, <1>1 DEF SupInv, Shaped, LaneHeld
<1>3. TracksTyped'
  <2>1. Cur \in Tracks => publications[Cur] + 1 \in Nat
    BY DEF SupInv, TracksTyped
  <2>2. publications' \in [Tracks -> Nat]
    BY Zenon, <1>1, <2>1 DEF SupInv, TracksTyped
  <2> QED BY Zenon, <1>1, <2>2 DEF SupInv, TracksTyped
<1>4. ASSUME NEW t \in Tracks PROVE Earned(t)'
  BY Zenon, <1>1 DEF SupInv, TracksTyped, Earned, Fresh, At, Cur
<1>5. \A t \in Tracks : Fresh(t)' /\ Open(t)'
  BY Zenon, <1>1, <1>2 DEF SupInv, Fresh, Open
<1> QED BY Zenon, SMTT(30), <1>2, <1>3, <1>4, <1>5 DEF SupInv

\* The action row of a correction that was just published.
LEMMA PublishedKeeps ==
    ASSUME SupInv, Published
    PROVE  SupInv'
<1> DEFINE r == At_("queued")
<1>1. r.attempt = act[Cur].attempt /\ r.wait = FALSE /\ r.state = "queued"
  BY Zenon DEF At_, NoRow
<1>2. Cur \in Tracks => r \in Rows
  BY Zenon, AtTyped
<1>3. Row(r, ToRescue) /\ UNCHANGED <<inc, turn, ckpt>>
  BY Zenon DEF Published
<1>4. Shaped(ToRescue) /\ ToRescue.at \in {"idle", "evaluate", "rescue"}
  BY Zenon, NextShape DEF SupInv
<1> HIDE DEF r
<1> QED BY Zenon, <1>1, <1>2, <1>3, <1>4, RowKeeps

\* reconcile_rescue_checkpoint up to the receipt.
LEMMA RescueKeeps ==
    ASSUME SupInv, RescueStage \/ WriteReceipt
    PROVE  SupInv'
<1>1. /\ Shaped(Following) /\ Following.at \in {"idle", "evaluate"}
  BY Zenon, NextShape DEF SupInv
<1>2. UNCHANGED <<inc, act, order, turn, publications, lane>>
  BY Zenon DEF RescueStage, WriteReceipt
<1>3. Shaped(pass') /\ pass'.at \notin {"publish", "sealing"}
  BY Zenon, <1>1 DEF RescueStage, WriteReceipt, SupInv, Shaped
<1>4. CASE UNCHANGED ckpt
  BY Zenon, SMTT(30), <1>2, <1>3, <1>4, PassKeeps
<1>5. CASE \E b \in {"bundle", "other"} : ckpt' = [ckpt EXCEPT ![Cur].binds = b]
  <2>1. PICK b \in {"bundle", "other"} : ckpt' = [ckpt EXCEPT ![Cur].binds = b]
    BY Zenon, <1>5
  <2>2. TracksTyped' /\ Shaped(pass)' /\ LaneHeld(lane)'
    BY Zenon, <1>2, <1>3, <2>1 DEF SupInv, TracksTyped, LaneHeld
  <2>3. \A t \in Tracks : ckpt'[t].spent = ckpt[t].spent
    BY Zenon, <2>1 DEF SupInv, TracksTyped
  <2>4. \A t \in Tracks : Earned(t)' /\ Fresh(t)' /\ Open(t)'
    BY Zenon, <1>2, <1>3, <2>3 DEF SupInv, Earned, Fresh, Open
  <2> QED BY Zenon, <2>2, <2>4 DEF SupInv
<1> QED BY Zenon, <1>4, <1>5 DEF RescueStage, WriteReceipt

\* seal_rescue_checkpoint: the receipt is spent, then the seal appended.
LEMMA SpendKeeps ==
    ASSUME SupInv, SpendReceipt
    PROVE  SupInv'
<1>1. UNCHANGED <<inc, act, order, turn, publications, lane>>
  BY Zenon DEF SpendReceipt
<1>2. CASE pass' = Following /\ UNCHANGED ckpt
  BY Zenon, SMTT(30), <1>1, <1>2, NextShape, PassKeeps DEF SupInv
<1>3. CASE ckpt' = [ckpt EXCEPT ![Cur].spent = TRUE] /\ pass' = [pass EXCEPT !.at = "sealing"]
  <2>1. TracksTyped' /\ Shaped(pass)' /\ LaneHeld(lane)'
    BY Zenon, <1>1, <1>3 DEF SupInv, TracksTyped, Shaped, LaneHeld
  <2>2. /\ \A t \in Tracks : ckpt'[t].spent = (ckpt[t].spent \/ t = Cur)
        /\ pass'.at = "sealing" /\ pass'.left = pass.left
    BY Zenon, <1>3 DEF SupInv, TracksTyped, Shaped
  <2>3. \A t \in Tracks : Earned(t)' /\ Fresh(t)' /\ Open(t)'
    BY ZenonT(60), <1>1, <2>2 DEF SupInv, Earned, Fresh, Open, Cur
  <2> QED BY Zenon, <2>1, <2>3 DEF SupInv
<1> QED BY Zenon, <1>2, <1>3 DEF SpendReceipt

\* The seal of an incident whose receipt was spent.
LEMMA SealKeeps ==
    ASSUME SupInv, AppendSeal
    PROVE  SupInv'
<1>1. /\ At("sealing") /\ inc' = [inc EXCEPT ![Cur].sealed = TRUE] /\ pass' = Following
      /\ UNCHANGED <<act, order, turn, publications, ckpt, lane>>
  BY Zenon DEF AppendSeal
<1>2. Shaped(pass)' /\ LaneHeld(lane)' /\ pass'.at \in {"idle", "evaluate"}
  BY Zenon, <1>1, NextShape DEF SupInv, LaneHeld
<1>3. TracksTyped'
  BY Zenon, <1>1 DEF SupInv, TracksTyped, Incidents
<1>4. \A t \in Tracks : inc'[t].consumed = inc[t].consumed /\ (inc'[t].sealed => inc[t].sealed \/ t = Cur)
  BY Zenon, <1>1 DEF SupInv, TracksTyped, Incidents
<1>5. \A t \in Tracks : Earned(t)'
  BY Zenon, <1>1, <1>4 DEF SupInv, Earned, Fresh, At, Cur
<1>6. \A t \in Tracks : Fresh(t)' /\ Open(t)'
  BY Zenon, <1>1, <1>2 DEF SupInv, Fresh, Open
<1> QED BY Zenon, <1>2, <1>3, <1>5, <1>6 DEF SupInv

\* dispatchd, the lane, and the operator around the monitor.
LEMMA OrderKeeps ==
    ASSUME SupInv, NEW t0 \in Tracks, NEW how \in {"none", "sent", "failed"} \cup Refusals,
           order[t0] = "queued", order' = [order EXCEPT ![t0] = how],
           UNCHANGED <<inc, act, turn, publications, ckpt, lane, pass>>
    PROVE  SupInv'
<1>1. TracksTyped' /\ Shaped(pass)' /\ LaneHeld(lane)'
  BY Zenon DEF SupInv, TracksTyped, Shaped, LaneHeld
<1>2. \A t \in Tracks : order'[t] = order[t] \/ order[t] = "queued"
  BY Zenon, SMTT(30) DEF SupInv, TracksTyped
<1>3. \A t \in Tracks : Earned(t)' /\ Fresh(t)' /\ Open(t)'
  BY ZenonT(60), <1>2 DEF SupInv, Earned, Fresh, Open
<1> QED BY Zenon, <1>1, <1>3 DEF SupInv

\* The lane's transcript moves on under bundles, receipts and the pass.
LEMMA MovedKeeps ==
    ASSUME SupInv, NEW how, Moved(how), NEW t0, turn' = turn \/ turn' = [turn EXCEPT ![t0] = TRUE],
           UNCHANGED <<inc, act, order, publications, lane>>
    PROVE  SupInv'
<1>1. /\ ckpt' = [t \in Tracks |-> IF ckpt[t].binds = "bundle" THEN [ckpt[t] EXCEPT !.binds = "other"]
                                   ELSE ckpt[t]]
      /\ pass' = IF pass.at \in {"receipt", "seal", "sealing"}
                 THEN [pass EXCEPT !.holds = IF pass.holds = "dead" THEN pass.holds ELSE how] ELSE pass
  BY Zenon DEF Moved
<1>2. TracksTyped' /\ LaneHeld(lane)'
  BY ZenonT(60), <1>1 DEF SupInv, TracksTyped, LaneHeld
<1>3. Shaped(pass)' /\ pass'.at = pass.at /\ pass'.left = pass.left
  BY Zenon, <1>1 DEF SupInv, Shaped
<1>4. \A t \in Tracks : ckpt'[t].spent = ckpt[t].spent /\ (turn[t] => turn'[t])
  BY Zenon, <1>1 DEF SupInv, TracksTyped
<1>5. \A t \in Tracks : Earned(t)' /\ Fresh(t)' /\ Open(t)'
  BY Zenon, <1>3, <1>4 DEF SupInv, Earned, Fresh, Open
<1> QED BY Zenon, <1>2, <1>3, <1>5 DEF SupInv

\* A backoff that runs out only ends the wait of its row.
LEMMA RetryDueKeeps ==
    ASSUME SupInv, NEW t0 \in Tracks, RetryDue(t0)
    PROVE  SupInv'
<1>1. /\ act' = [act EXCEPT ![t0].wait = FALSE]
      /\ UNCHANGED <<inc, order, turn, publications, ckpt, lane, pass>>
  BY Zenon DEF RetryDue
<1>2. TracksTyped' /\ Shaped(pass)' /\ LaneHeld(lane)'
  BY ZenonT(60), <1>1 DEF SupInv, TracksTyped, Rows, Shaped, LaneHeld
<1>3. \A t \in Tracks : /\ act'[t].state = act[t].state /\ act'[t].obstacle = act[t].obstacle
                        /\ (act'[t].wait => act[t].wait)
  BY ZenonT(60), <1>1 DEF SupInv, TracksTyped, Rows
<1>4. \A t \in Tracks : Earned(t)' /\ Fresh(t)'
  BY Zenon, <1>1 DEF SupInv, Earned, Fresh
<1>5. \A t \in Tracks : Open(t)'
  BY Zenon, <1>1, <1>3 DEF SupInv, Open
<1> QED BY Zenon, <1>2, <1>4, <1>5 DEF SupInv

\* monitord dies, or the goal is redirected.
LEMMA RestartKeeps ==
    ASSUME SupInv, MonitorDies \/ Redirect
    PROVE  SupInv'
<1>1. CASE MonitorDies
  BY Zenon, <1>1, NextShape, PassKeeps DEF MonitorDies, SupInv
<1>2. CASE Redirect
  <2>1. TracksTyped'
    BY Zenon, <1>2 DEF Redirect, TracksTyped, NoIncident, NoRow, NoReceipt, Rows, Incidents, Refusals
  <2>2. Shaped(pass)' /\ LaneHeld(lane)' /\ pass'.at = "idle" /\ lane'.of = "none"
    BY Zenon, <1>2 DEF Redirect, SupInv, Shaped, LaneHeld, At
  <2>3. \A t \in Tracks : Earned(t)' /\ Fresh(t)' /\ Open(t)'
    BY Zenon, <1>2, <2>2 DEF Redirect, Earned, Fresh, Open, NoIncident, NoRow
  <2> QED BY Zenon, <2>1, <2>2, <2>3 DEF SupInv
<1> QED BY Zenon, SMTT(30), <1>1, <1>2

\* Every step of the corrective loop and of what is around it keeps SupInv.
LEMMA SupStep == SupInv /\ [SupervisionNext]_supervisionVars => SupInv'
<1> SUFFICES ASSUME SupInv, [SupervisionNext]_supervisionVars PROVE SupInv'
  BY Zenon
<1>1. CASE Monitor
  <2>1. CASE HoldAtCap
    BY Zenon, <2>1, UntouchedKeeps DEF HoldAtCap
  <2> QED BY Zenon, SMTT(30), <1>1, <2>1, PassBeginKeeps, EvaluateKeeps, AttachKeeps, ReconcileKeeps, PublishKeeps_,
             PublishedKeeps, RescueKeeps, SpendKeeps, SealKeeps DEF Monitor
<1>2. ASSUME NEW t \in Tracks, Captured(t)
      PROVE  SupInv'
  BY Zenon, <1>2, UntouchedKeeps DEF Captured
<1>3. ASSUME NEW t \in Tracks, TakeTurn(t)
      PROVE  SupInv'
  <2>1. turn' = [turn EXCEPT ![t] = TRUE] /\ Moved("moved") /\ UNCHANGED <<inc, act, order, publications, lane>>
    BY Zenon, <1>3 DEF TakeTurn
  <2> QED BY Zenon, <2>1, MovedKeeps
<1>4. ASSUME NEW t \in Tracks, LoseOrder(t)
      PROVE  SupInv'
  BY Zenon, <1>4, OrderKeeps DEF LoseOrder
<1>5. ASSUME NEW t \in Tracks, NEW how \in {"sent", "failed"} \cup Refusals, Settle(t, how)
      PROVE  SupInv'
  BY Zenon, <1>5, OrderKeeps DEF Settle
<1>6. ASSUME NEW how \in {"moved", "dead"}, Drift(how)
      PROVE  SupInv'
  BY Zenon, <1>6, MovedKeeps DEF Drift
<1>7. CASE SetGoal \/ UNCHANGED supervisionVars
  BY Zenon, <1>7, UntouchedKeeps DEF SetGoal, supervisionVars
<1> QED BY Zenon, SMTT(30), <1>1, <1>2, <1>3, <1>4, <1>5, <1>6, <1>7, RetryDueKeeps, RestartKeeps DEF SupervisionNext

\* What the inductive invariant of the corrective loop says of every behavior.
THEOREM SupervisionInvariant == SupervisionSpec => []SupInv
  BY SupInitHolds, SupStep, PTL DEF SupervisionSpec

\* No step but the ladder's moves a track, and it moves only the one it is at.
LEMMA ClimbIsEarned ==
    ASSUME SupInv, [SupervisionNext]_supervisionVars, NEW t \in Tracks, inc'[t].stage > inc[t].stage
    PROVE  /\ inc'[t].stage = inc[t].stage + 1
           /\ inc[t].stage > 0 => order[t] = "sent" /\ turn[t]
           /\ inc[t].stage = Rescue => inc[t].sealed /\ ckpt[t].spent
<1>1. inc[t] \in Incidents /\ inc[t].stage \in Nat
  <2>1. inc[t] \in Incidents
    BY Zenon DEF SupInv, TracksTyped
  <2> QED BY Zenon, <2>1 DEF Incidents
<1>2. inc'[t].stage # inc[t].stage
  BY <1>1
<1>3. ASSUME inc'[t] = inc[t] PROVE FALSE
  BY Zenon, <1>2, <1>3
<1>4. CASE Attach \/ AppendSeal
  <2>1. inc'[t] = inc[t] \/ inc'[t] = [inc[t] EXCEPT !.consumed = TRUE] \/ inc'[t] = [inc[t] EXCEPT !.sealed = TRUE]
    BY Zenon, <1>4 DEF Attach, AppendSeal, SupInv, TracksTyped
  <2>2. inc'[t].stage = inc[t].stage
    BY Zenon, <1>1, <2>1 DEF Incidents
  <2> QED BY Zenon, <1>2, <2>2
<1>5. CASE Redirect
  <2>1. inc'[t].stage = 0
    BY Zenon, <1>5 DEF Redirect, NoIncident
  <2> QED BY <1>1, <2>1
<1>6. ASSUME NEW recent, Evaluate(recent)
      PROVE  /\ inc'[t].stage = inc[t].stage + 1
             /\ inc[t].stage > 0 => order[t] = "sent" /\ turn[t]
             /\ inc[t].stage = Rescue => inc[t].sealed /\ ckpt[t].spent
  <2>1. Decision(Cur, recent) # "hold" /\ inc' = [inc EXCEPT ![Cur] = Opened(Cur)]
    BY Zenon, SMTT(30), <1>3, <1>6 DEF Evaluate
  <2>2. t = Cur
    BY Zenon, SMTT(30), <1>3, <2>1 DEF SupInv, TracksTyped
  <2>3. inc'[t] = Opened(t)
    BY Zenon, <2>1, <2>2 DEF SupInv, TracksTyped
  <2>4. inc'[t].stage = inc[t].stage + 1
    BY Zenon, <2>3 DEF Opened, NoIncident
  <2>5. inc[t].stage > 0 => inc[t].consumed
    BY SMTT(30), <1>1, <2>1, <2>2 DEF Decision, Proven
  <2>6. inc[t].stage = Rescue => inc[t].sealed
    BY <2>1, <2>2 DEF Decision, Rescue
  <2> QED BY Zenon, <2>4, <2>5, <2>6 DEF SupInv, Earned
<1>7. CASE UNCHANGED inc
  BY Zenon, SMTT(30), <1>3, <1>7
<1>8. CASE Monitor
  <2>1. \/ \E recent \in BOOLEAN : Evaluate(recent)
        \/ Attach \/ AppendSeal \/ UNCHANGED inc
    BY Zenon, <1>8 DEF Monitor, PassBegin, HoldAtCap, Reconcile, Publish, Published, RescueStage, WriteReceipt, SpendReceipt
  <2> QED BY Zenon, SMTT(30), <2>1, <1>4, <1>6, <1>7
<1>9. CASE ~Monitor /\ SupervisionNext
  <2>1. Redirect \/ UNCHANGED inc
    BY Zenon, <1>9 DEF SupervisionNext, Captured, TakeTurn, RetryDue, LoseOrder, Settle, Drift, MonitorDies, SetGoal
  <2> QED BY Zenon, SMTT(30), <2>1, <1>5, <1>7
<1> QED BY Zenon, SMTT(30), <1>7, <1>8, <1>9 DEF supervisionVars

\* For any unmet items, stages, attempts and mishaps: a track climbs the ladder
\* one stage at a time, leaves a stage only when the lane completed a turn on
\* that stage's delivered order, and is relaunched only from a rescue sealed by
\* a spent receipt (ResponseLadder.evaluate, seal_rescue_checkpoint).
THEOREM EscalationsAreEarned == SupervisionSpec => EscalationIsEarned
<1>1. SupInv /\ [SupervisionNext]_supervisionVars =>
        [\A t \in Tracks : (inc'[t].stage > inc[t].stage) =>
            /\ inc'[t].stage = inc[t].stage + 1
            /\ inc[t].stage > 0 => order[t] = "sent" /\ turn[t]
            /\ inc[t].stage = Rescue => inc[t].sealed /\ ckpt[t].spent]_supervisionVars
  BY Zenon, SMTT(30), ClimbIsEarned
<1> QED
  BY <1>1, SupervisionInvariant, PTL DEF SupervisionSpec, EscalationIsEarned

\* A step is quiet about a track when it neither publishes its correction nor
\* records that it is given up.
Quiet(t) ==
    /\ publications'[t] = publications[t] \/ publications'[t] = 0
    /\ act'[t] = act[t] \/ act'[t].obstacle \notin {"closed", "cap", "replan"}

\* A row that gives nothing up.
LEMMA QuietRow ==
    ASSUME SupInv, NEW t \in Tracks, NEW row, NEW then, Row(row, then) \/ RowOnce(row, then)
    PROVE  /\ publications'[t] = publications[t] \/ publications'[t] = 0
           /\ act'[t] = act[t] \/ (t = Cur /\ act'[t] = row)
  BY DEF Row, RowOnce, SupInv, TracksTyped

\* Reconciling raises with the foreground what its row gives up.
LEMMA ReconcileRaises ==
    ASSUME SupInv, NEW t \in Tracks, Reconcile
    PROVE  /\ publications'[t] = publications[t] \/ publications'[t] = 0
           /\ (act'[t] # act[t] /\ act'[t].obstacle \in {"closed", "cap"}) => <<t, "terminal">> \in alerts'
           /\ (act'[t] # act[t] /\ act'[t].obstacle = "replan") => <<t, "replan">> \in alerts'
<1>1. CASE pass' = ToRescue /\ UNCHANGED <<lane, act, order, publications>>
  BY Zenon, <1>1
<1>2. CASE Quiet(t)
  BY Zenon, <1>2 DEF Quiet
<1>3. CASE ~(act[Cur].state = "blocked" /\ act[Cur].wait)
  <2>1. alerts' = alerts \cup Raised
    BY Zenon, <1>3 DEF Reconcile
  <2>2. CASE Delivered
    <3>1. \E r \in {At_("awaiting"), [At_("awaiting") EXCEPT !.boundary = TRUE]} : RowOnce(r, ToRescue)
      BY Zenon, <2>2 DEF Delivered
    <3>2. \A r \in {At_("awaiting"), [At_("awaiting") EXCEPT !.boundary = TRUE]} : r.obstacle = ""
      BY Zenon DEF At_, NoRow
    <3> QED BY Zenon, <1>2, <3>1, <3>2, QuietRow DEF Quiet
  <2>3. CASE Rejected /\ order[Cur] \in Refusals
    <3> DEFINE r == [At_("blocked") EXCEPT !.obstacle = order[Cur]]
    <3>1. RowOnce(r, ToRescue) /\ r.obstacle = order[Cur]
      BY Zenon, <2>3 DEF Rejected, At_, NoRow
    <3> HIDE DEF r
    <3>2. /\ publications'[t] = publications[t] \/ publications'[t] = 0
          /\ act'[t] = act[t] \/ (t = Cur /\ act'[t].obstacle = order[Cur])
      BY Zenon, <3>1, QuietRow
    <3>3. order[Cur] = "replan" => <<Cur, "replan">> \in alerts'
      BY Zenon, <2>1 DEF Raised, AtCap
    <3>4. order[Cur] = "closed" => <<Cur, "terminal">> \in alerts'
      BY Zenon, <2>1 DEF Raised
    <3> QED BY Zenon, SMTT(30), <2>3, <3>2, <3>3, <3>4 DEF Refusals
  <2>4. CASE Failed /\ order[Cur] = "failed"
    <3> DEFINE next == act[Cur].attempt + 1
               r == [At_("blocked") EXCEPT !.attempt = next, !.wait = next < MaxAttempts,
                        !.obstacle = IF next < MaxAttempts THEN "transport" ELSE "cap"]
    <3>1. Row(r, ToRescue) /\ r.obstacle = IF next < MaxAttempts THEN "transport" ELSE "cap"
      BY Zenon, <2>4 DEF Failed, At_, NoRow
    <3> HIDE DEF r
    <3>2. /\ publications'[t] = publications[t] \/ publications'[t] = 0
          /\ act'[t] = act[t] \/ (t = Cur /\ act'[t].obstacle = IF next < MaxAttempts THEN "transport" ELSE "cap")
      BY Zenon, <3>1, QuietRow
    <3>3. t = Cur /\ ~(next < MaxAttempts) => AtCap
      <4> SUFFICES ASSUME t = Cur, ~(next < MaxAttempts) PROVE AtCap
        BY Zenon
      <4>1. act[Cur] \in Rows
        BY Zenon DEF SupInv, TracksTyped
      <4>2. act[Cur].attempt \in Nat
        BY Zenon, <4>1 DEF Rows
      <4> QED BY SMTT(30), <2>4, <4>2, CapIsNatural DEF AtCap
    <3>4. AtCap => <<Cur, "terminal">> \in alerts'
      BY Zenon, SMTT(30), <2>1, <2>4 DEF Raised
    <3> QED BY Zenon, SMTT(30), <3>2, <3>3, <3>4
  <2>5. CASE RowOnce(At_("queued"), ToRescue)
    <3>1. At_("queued").obstacle = ""
      BY Zenon DEF At_, NoRow
    <3> QED BY Zenon, <1>2, <2>5, <3>1, QuietRow DEF Quiet
  <2>6. CASE Untraced
    <3> DEFINE lost == [At_("blocked") EXCEPT !.obstacle = "missing"]
               due == At_("pending")
    <3>1. lost.obstacle = "missing" /\ due.obstacle = ""
      BY Zenon DEF At_, NoRow
    <3>2. \/ Row(lost, ToRescue) \/ RowOnce(due, [pass EXCEPT !.at = "publish"])
          \/ pass' = ToRescue /\ UNCHANGED <<lane, act, order, publications>>
      BY Zenon, <2>6 DEF Untraced
    <3> HIDE DEF lost, due
    <3> QED BY Zenon, <1>1, <1>2, <3>1, <3>2, QuietRow DEF Quiet
  <2> QED BY Zenon, SMTT(30), <1>1, <1>3, <2>2, <2>3, <2>4, <2>5, <2>6 DEF Reconcile, Located
<1> QED BY Zenon, <1>1, <1>3 DEF Reconcile

\* The other steps give nothing up, and only Publish publishes.
LEMMA OthersAreQuiet ==
    ASSUME SupInv, [SupervisionNext]_supervisionVars, NEW t \in Tracks
    PROVE  Quiet(t) \/ Reconcile \/ (Publish /\ act' = act /\ (publications'[t] = publications[t] \/ t = Cur))
<1>1. CASE UNCHANGED <<publications, act>>
  BY Zenon, <1>1 DEF Quiet
<1>2. ASSUME NEW found, PassBegin(found) PROVE Quiet(t)
  <2>1. publications' = publications
    BY Zenon, <1>2 DEF PassBegin
  <2>2. CASE act' = act
    BY Zenon, <2>1, <2>2 DEF Quiet
  <2>3. CASE act' # act
    <3>1. /\ lane.state \in {"none", "awaiting"} /\ lane.of # "none"
          /\ act' = [act EXCEPT ![lane.of].state = "observing"]
      BY Zenon, <1>2, <2>3 DEF PassBegin, Observe
    <3>2. CASE t # lane.of
      BY Zenon, SMTT(30), <2>1, <3>1, <3>2 DEF Quiet, SupInv, TracksTyped
    <3>3. CASE t = lane.of
      <4>1. act[t] \in Rows /\ act[t].obstacle = ""
        BY Zenon, <3>1, <3>3 DEF SupInv, TracksTyped, Open
      <4>2. act'[t] = [act[t] EXCEPT !.state = "observing"]
        BY Zenon, SMTT(30), <3>1, <3>3 DEF SupInv, TracksTyped
      <4>3. act'[t].obstacle = ""
        BY Zenon, <4>1, <4>2 DEF Rows
      <4> QED BY Zenon, <2>1, <4>3 DEF Quiet
    <3> QED BY Zenon, <3>2, <3>3
  <2> QED BY Zenon, <2>2, <2>3
<1>3. ASSUME NEW recent, Evaluate(recent) PROVE Quiet(t)
  <2>1. CASE UNCHANGED <<publications, act>>
    BY Zenon, <2>1 DEF Quiet
  <2>2. CASE publications' = [publications EXCEPT ![Cur] = 0] /\ act' = [act EXCEPT ![Cur] = NoRow]
    <3>1. NoRow.obstacle = ""
      BY Zenon DEF NoRow
    <3>2. /\ publications'[t] = publications[t] \/ publications'[t] = 0
          /\ act'[t] = act[t] \/ act'[t] = NoRow
      BY Zenon, SMTT(30), <2>2 DEF SupInv, TracksTyped
    <3> QED BY Zenon, <3>1, <3>2 DEF Quiet
  <2> QED BY Zenon, SMTT(30), <1>3, <2>1, <2>2 DEF Evaluate
<1>4. CASE Published
  <2>1. At_("queued").obstacle = "" /\ Row(At_("queued"), ToRescue)
    BY Zenon, <1>4 DEF Published, At_, NoRow
  <2> QED BY Zenon, <2>1, QuietRow DEF Quiet
<1>5. ASSUME NEW u \in Tracks, RetryDue(u) PROVE Quiet(t)
  <2>1. publications' = publications /\ act[u].wait /\ act' = [act EXCEPT ![u].wait = FALSE]
    BY Zenon, <1>5 DEF RetryDue
  <2>2. CASE t # u
    BY Zenon, <2>1, <2>2 DEF Quiet, SupInv, TracksTyped
  <2>3. CASE t = u
    <3>1. act[t] \in Rows /\ act[t].obstacle = "transport"
      BY Zenon, <2>1, <2>3 DEF SupInv, TracksTyped, Open
    <3>2. act'[t] = [act[t] EXCEPT !.wait = FALSE]
      BY Zenon, <2>1, <2>3 DEF SupInv, TracksTyped
    <3>3. act'[t].obstacle = "transport"
      BY Zenon, <3>1, <3>2 DEF Rows
    <3> QED BY Zenon, SMTT(30), <2>1, <3>3 DEF Quiet
  <2> QED BY Zenon, <2>2, <2>3
<1>6. CASE Redirect
  <2>1. publications'[t] = 0 /\ act'[t] = NoRow
    BY Zenon, <1>6 DEF Redirect
  <2>2. NoRow.obstacle = ""
    BY Zenon DEF NoRow
  <2> QED BY Zenon, <2>1, <2>2 DEF Quiet
<1>7. CASE Publish
  BY Zenon, <1>7 DEF Publish, SupInv, TracksTyped
<1>8. CASE Monitor
  <2>1. \/ \E found \in SUBSET Tracks : PassBegin(found)
        \/ \E recent \in BOOLEAN : Evaluate(recent)
        \/ Reconcile \/ Publish \/ Published \/ UNCHANGED <<publications, act>>
    BY Zenon, <1>8 DEF Monitor, Attach, HoldAtCap, RescueStage, WriteReceipt, SpendReceipt, AppendSeal
  <2> QED BY Zenon, SMTT(30), <2>1, <1>1, <1>2, <1>3, <1>4, <1>7
<1>9. CASE ~Monitor /\ SupervisionNext
  <2>1. (\E u \in Tracks : RetryDue(u)) \/ Redirect \/ UNCHANGED <<publications, act>>
    BY Zenon, <1>9 DEF SupervisionNext, Captured, TakeTurn, LoseOrder, Settle, Drift, MonitorDies, SetGoal
  <2> QED BY Zenon, SMTT(30), <2>1, <1>1, <1>5, <1>6
<1> QED BY Zenon, SMTT(30), <1>1, <1>8, <1>9 DEF supervisionVars

\* A step publishes only what is not on its way, and gives up nothing unseen.
LEMMA RepublishStep ==
    ASSUME SupInv, [SupervisionNext]_supervisionVars, NEW t \in Tracks
    PROVE  /\ (publications'[t] > publications[t]) => (order[t] = "none")
           /\ (act'[t] # act[t] /\ act'[t].obstacle \in {"closed", "cap"}) => <<t, "terminal">> \in alerts'
           /\ (act'[t] # act[t] /\ act'[t].obstacle = "replan") => <<t, "replan">> \in alerts'
<1>1. publications[t] \in Nat
  BY Zenon DEF SupInv, TracksTyped
<1>2. publications'[t] = publications[t] \/ publications'[t] = 0 => ~(publications'[t] > publications[t])
  BY SMTT(30), <1>1
<1>3. CASE Quiet(t)
  BY Zenon, SMTT(30), <1>2, <1>3 DEF Quiet
<1>4. CASE Reconcile
  BY Zenon, SMTT(30), <1>2, <1>4, ReconcileRaises
<1>5. CASE Publish /\ act' = act /\ (publications'[t] = publications[t] \/ t = Cur)
  <2>1. t = Cur => order[t] = "none"
    BY Zenon, <1>5 DEF Publish, At, Cur, SupInv, Fresh
  <2> QED BY Zenon, SMTT(30), <1>2, <1>5, <2>1
<1> QED BY Zenon, SMTT(30), <1>3, <1>4, <1>5, OthersAreQuiet

\* For any unmet items, stages, attempts and mishaps: a correction that was
\* delivered or is on its way is never published again, and one that is given up
\* is in front of the foreground in the step that records it
\* (reconcile_corrective_action, locate_order).
THEOREM CorrectionsAreNotRepublished == SupervisionSpec => NoRepublication
<1>1. SupInv /\ [SupervisionNext]_supervisionVars =>
        [\A t \in Tracks :
          /\ (publications'[t] > publications[t]) => (order[t] = "none")
          /\ (act'[t] # act[t] /\ act'[t].obstacle \in {"closed", "cap"}) => <<t, "terminal">> \in alerts'
          /\ (act'[t] # act[t] /\ act'[t].obstacle = "replan") => <<t, "replan">> \in alerts']_supervisionVars
  BY Zenon, RepublishStep
<1> QED
  BY <1>1, SupervisionInvariant, PTL DEF SupervisionSpec, NoRepublication

=============================================================================
