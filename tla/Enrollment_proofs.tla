------------------------- MODULE Enrollment_proofs --------------------------
(***************************************************************************)
(* Theorems about enrollment and transfers (GoalEnrollment) and about the  *)
(* merge gate (MergeGate), for every value of their constants. Each part   *)
(* states its inductive invariant, proves that every action preserves it,  *)
(* and ends with its theorems.                                             *)
(***************************************************************************)
EXTENDS GoalEnrollment, MergeGate, WellFoundedInduction, TLAPS

\* A set of naturals that is not empty has its least element.
LEMMA LeastNatural ==
    ASSUME NEW S \in SUBSET Nat, S # {}
    PROVE  Min(S) \in S /\ \A y \in S : Min(S) <= y
<1>1. PICK x \in S : \A y \in S : ~ (<<y, x>> \in OpToRel(<, Nat))
  BY Zenon, WFMin, NatLessThanWellFounded
<1>2. \A y \in S : x <= y
  <2> TAKE y \in S
  <2>1. <<y, x>> \in Nat \X Nat /\ ~ (<<y, x>> \in OpToRel(<, Nat))
    BY Zenon, <1>1
  <2>2. ~(y < x)
    BY Zenon, <2>1 DEF OpToRel
  <2> QED
    BY <2>2
<1> QED
  BY Zenon, <1>2 DEF Min

-----------------------------------------------------------------------------
\* Enrollment and transfer (GoalEnrollment).

Enrolled == [receipt : Nat, pin : Nat, status : {"working", "held"}, to : Sessions \cup {""},
             by : {"interview", "transfer", "set"}, origin : Sessions \cup {""}]

NonceFiles == [id : Nat, request : Requests \cup {""}, consumed : BOOLEAN]

EnrollmentTyped ==
    /\ goal \in [Sessions -> Enrolled \cup {Missing}]
    /\ nonce \in [Sessions -> NonceFiles]
    /\ read \in [Sessions -> [receipt : Nat, pin : Nat] \cup {Missing}]
    /\ registry \in Nat /\ issued \in Nat

\* What holds the lock between its two writes.
BusyInv ==
    ~Unlocked =>
        /\ busy.s \in Sessions
        /\ busy.op = "transfer" =>
             /\ busy.to \in Sessions /\ busy.to # busy.s
             /\ HasGoal(busy.s) /\ goal[busy.s].to = busy.to

\* A record that says where it came from is the one its origin names as successor.
SuccessorInv ==
    \A s, x \in Sessions :
        HasGoal(s) /\ HasGoal(x) /\ goal[x].origin = s => goal[s].to = x

LaneNamesInv ==
    \A s, t \in Sessions : HasGoal(s) /\ HasGoal(t) /\ s # t => LaneId[s] # LaneId[t]

\* An interview's goal has its nonce spent, or is between its two writes.
NonceInv ==
    ~died => \A s \in Sessions :
        HasGoal(s) /\ goal[s].by = "interview" =>
            \/ goal[s].receipt \in spentNonces
            \/ ~Unlocked /\ busy.op = "enroll" /\ busy.s = s /\ busy.id = goal[s].receipt

EnrollmentInv == EnrollmentTyped /\ BusyInv /\ SuccessorInv /\ LaneNamesInv /\ NonceInv

\* An enrollment is not the absence of one.
LEMMA EnrolledIsThere == ASSUME NEW x \in Enrolled PROVE x # Missing
<1>1. "absent" \notin DOMAIN x
  BY Zenon DEF Enrolled
<1>2. "absent" \in DOMAIN Missing
  BY Zenon DEF Missing
<1> QED
  BY Zenon, <1>1, <1>2

\* An operation under way is not the absence of one.
LEMMA BusyIsThere ==
    ASSUME NEW x, NEW y, NEW z
    PROVE  [op |-> x, s |-> y, id |-> z] # Missing /\ [op |-> x, s |-> y, to |-> z] # Missing
<1>1. "absent" \in DOMAIN Missing
  BY Zenon DEF Missing
<1>2. "absent" \notin DOMAIN [op |-> x, s |-> y, id |-> z] /\ "absent" \notin DOMAIN [op |-> x, s |-> y, to |-> z]
  BY Zenon
<1> QED
  BY Zenon, <1>1, <1>2

\* What a verifier read is not the absence of it.
LEMMA ReadIsThere == ASSUME NEW x \in [receipt : Nat, pin : Nat] PROVE x # Missing
<1>1. "absent" \notin DOMAIN x
  BY Zenon
<1>2. "absent" \in DOMAIN Missing
  BY Zenon DEF Missing
<1> QED
  BY Zenon, <1>1, <1>2

\* Before the first enrollment the invariant holds.
LEMMA EnrollmentInitHolds == EnrollmentInit => EnrollmentInv
<1> SUFFICES ASSUME EnrollmentInit PROVE EnrollmentInv
  BY Zenon
<1>1. \A s \in Sessions : ~HasGoal(s)
  BY Zenon DEF EnrollmentInit, HasGoal
<1>2. EnrollmentTyped
  BY Zenon DEF EnrollmentInit, EnrollmentTyped, NoNonce, NonceFiles
<1>3. Unlocked
  BY Zenon DEF EnrollmentInit, Unlocked
<1> QED
  BY Zenon, <1>1, <1>2, <1>3 DEF EnrollmentInv, BusyInv, SuccessorInv, LaneNamesInv, NonceInv

\* What Create does to each record.
LEMMA CreateDoes ==
    ASSUME EnrollmentTyped, NEW s \in Sessions, NEW new \in Enrolled, Create(s, new)
    PROVE  /\ goal' \in [Sessions -> Enrolled \cup {Missing}] /\ goal'[s] = new /\ new # Missing
           /\ \A t \in Sessions \ {s} :
                /\ goal'[t] # Missing <=> HasGoal(t)
                /\ HasGoal(t) =>
                     /\ goal[t] \in Enrolled /\ goal'[t] \in Enrolled
                     /\ goal'[t].to = goal[t].to /\ goal'[t].by = goal[t].by
                     /\ goal'[t].receipt = goal[t].receipt
                     /\ goal'[t].origin = IF goal[t].origin = s THEN "" ELSE goal[t].origin
<1>1. ASSUME NEW t \in Sessions \ {s}, HasGoal(t), goal[t].origin = s
      PROVE  LET x == [goal[t] EXCEPT !.origin = ""]
             IN  /\ x \in Enrolled /\ x.to = goal[t].to /\ x.by = goal[t].by
                 /\ x.receipt = goal[t].receipt /\ x.origin = ""
  <2>1. goal[t] \in Enrolled
    BY Zenon, <1>1 DEF EnrollmentTyped, HasGoal
  <2> QED
    BY Zenon, <2>1 DEF Enrolled
<1>2. \A t \in Sessions :
        goal'[t] = IF t = s THEN new
                   ELSE IF HasGoal(t) /\ goal[t].origin = s THEN [goal[t] EXCEPT !.origin = ""]
                   ELSE goal[t]
  BY Zenon DEF Create
<1>3. \A t \in Sessions : HasGoal(t) => goal[t] \in Enrolled
  BY Zenon DEF EnrollmentTyped, HasGoal
<1>4. ASSUME NEW t \in Sessions \ {s}
      PROVE  /\ goal'[t] \in Enrolled \cup {Missing}
             /\ goal'[t] # Missing <=> HasGoal(t)
             /\ HasGoal(t) =>
                  /\ goal[t] \in Enrolled /\ goal'[t] \in Enrolled
                  /\ goal'[t].to = goal[t].to /\ goal'[t].by = goal[t].by
                  /\ goal'[t].receipt = goal[t].receipt
                  /\ goal'[t].origin = IF goal[t].origin = s THEN "" ELSE goal[t].origin
  <2>1. CASE HasGoal(t) /\ goal[t].origin = s
    BY ZenonT(60), <1>1, <1>2, <1>3, <2>1, EnrolledIsThere
  <2>2. CASE ~(HasGoal(t) /\ goal[t].origin = s)
    BY Zenon, <1>2, <1>3, <2>2 DEF HasGoal
  <2> QED
    BY Zenon, <2>1, <2>2
<1>5. goal'[s] = new /\ new # Missing
  BY Zenon, <1>2, EnrolledIsThere
<1>6. goal' \in [Sessions -> Enrolled \cup {Missing}]
  BY Zenon, <1>4, <1>5 DEF Create
<1> QED
  BY Zenon, <1>4, <1>5, <1>6

\* A new record under a free name, in order with the record it came from.
LEMMA CreateKeeps ==
    ASSUME EnrollmentInv, NEW s \in Sessions, NEW new \in Enrolled, Create(s, new), ~LaneTaken(s),
           \/ new.origin = ""
           \/ new.origin \in Sessions \ {s} /\ HasGoal(new.origin) /\ goal[new.origin].to = s
    PROVE  SuccessorInv' /\ LaneNamesInv'
<1>1. /\ goal'[s] = new /\ new # Missing
      /\ \A t \in Sessions \ {s} :
           /\ goal'[t] # Missing <=> HasGoal(t)
           /\ HasGoal(t) =>
                /\ goal'[t].to = goal[t].to
                /\ goal'[t].origin = IF goal[t].origin = s THEN "" ELSE goal[t].origin
  BY ZenonT(60), CreateDoes DEF EnrollmentInv
<1>2. LaneNamesInv'
  BY ZenonT(60), <1>1 DEF EnrollmentInv, LaneNamesInv, LaneTaken, HasGoal
<1>3. SuccessorInv'
  <2> SUFFICES ASSUME NEW t \in Sessions, NEW x \in Sessions, goal'[t] # Missing, goal'[x] # Missing,
                      goal'[x].origin = t
               PROVE  goal'[t].to = x
    BY Zenon DEF SuccessorInv, HasGoal
  <2>1. CASE x = s
    <3>1. new.origin = t /\ new.origin # ""
      BY Zenon, <1>1, <2>1, EnrollmentAssumption
    <3>2. t # s /\ HasGoal(t) /\ goal[t].to = s
      BY Zenon, <3>1
    <3> QED
      BY Zenon, <1>1, <2>1, <3>2
  <2>2. CASE x # s
    <3>1. HasGoal(x) /\ goal[x].origin = t /\ t # s
      BY Zenon, <1>1, <2>2, EnrollmentAssumption
    <3>2. HasGoal(t) /\ goal'[t].to = goal[t].to
      BY Zenon, <1>1, <3>1
    <3> QED
      BY Zenon, <3>1, <3>2 DEF EnrollmentInv, SuccessorInv
  <2> QED
    BY Zenon, <2>1, <2>2
<1> QED
  BY Zenon, <1>2, <1>3

\* The goal, its pin and its receipt are written under the lock.
LEMMA CommitEnrollmentKeeps ==
    ASSUME EnrollmentInv, NEW s \in Sessions, CommitEnrollment(s) PROVE EnrollmentInv'
<1> DEFINE new == Fresh(nonce[s].id, "interview", "")
           b == [op |-> "enroll", s |-> s, id |-> nonce[s].id]
<1>1. /\ Unlocked /\ ~LaneTaken(s) /\ Create(s, new) /\ busy' = b
      /\ UNCHANGED <<nonce, asking, read, registry, spentNonces, issued, died>>
  BY Zenon DEF CommitEnrollment
<1>2. new \in Enrolled /\ new.receipt = nonce[s].id /\ new.by = "interview" /\ new.origin = ""
  <2> DEFINE n == nonce[s].id
  <2>1. n \in Nat /\ registry \in Nat
    BY Zenon DEF EnrollmentInv, EnrollmentTyped, NonceFiles
  <2> HIDE DEF n
  <2>2. LET f == Fresh(n, "interview", "")
        IN  f \in Enrolled /\ f.receipt = n /\ f.by = "interview" /\ f.origin = ""
    BY Zenon, <2>1 DEF Fresh, Enrolled
  <2> QED
    BY Zenon, <2>2 DEF n
<1>3. b # Missing /\ b.op = "enroll" /\ b.s = s /\ b.id = nonce[s].id
  BY Zenon, BusyIsThere
<1> HIDE DEF new, b
<1>4. /\ goal' \in [Sessions -> Enrolled \cup {Missing}] /\ goal'[s] = new /\ new # Missing
      /\ \A t \in Sessions \ {s} :
           /\ goal'[t] # Missing <=> HasGoal(t)
           /\ HasGoal(t) => goal'[t].by = goal[t].by /\ goal'[t].receipt = goal[t].receipt
  BY ZenonT(60), <1>1, <1>2, CreateDoes DEF EnrollmentInv
<1>5. EnrollmentTyped' /\ BusyInv'
  BY Zenon, <1>1, <1>3, <1>4 DEF EnrollmentInv, EnrollmentTyped, BusyInv
<1>6. NonceInv'
  BY Zenon, <1>1, <1>2, <1>3, <1>4 DEF EnrollmentInv, NonceInv, Unlocked, HasGoal
<1> QED
  BY Zenon, <1>1, <1>2, <1>5, <1>6, CreateKeeps DEF EnrollmentInv

\* A step that leaves the records and the lock alone.
LEMMA RecordsUntouched ==
    ASSUME EnrollmentInv, UNCHANGED <<goal, busy, spentNonces, died>>, EnrollmentTyped'
    PROVE  EnrollmentInv'
  BY Zenon DEF EnrollmentInv, BusyInv, SuccessorInv, LaneNamesInv, NonceInv, HasGoal, Unlocked

\* A record is closed or rolled back.
LEMMA RecordRemoved ==
    ASSUME EnrollmentInv, NEW s \in Sessions, goal' = [goal EXCEPT ![s] = Missing]
    PROVE  /\ goal' \in [Sessions -> Enrolled \cup {Missing}] /\ SuccessorInv' /\ LaneNamesInv'
           /\ goal'[s] = Missing /\ \A t \in Sessions \ {s} : goal'[t] = goal[t]
  BY Zenon DEF EnrollmentInv, EnrollmentTyped, SuccessorInv, LaneNamesInv, HasGoal

\* A record changes its status, or is given a successor where it had none.
LEMMA RecordChanged ==
    ASSUME EnrollmentInv, NEW s \in Sessions, HasGoal(s), NEW x \in Enrolled,
           goal' = [goal EXCEPT ![s] = x], x.origin = goal[s].origin, x.to = goal[s].to
    PROVE  /\ goal' \in [Sessions -> Enrolled \cup {Missing}] /\ SuccessorInv' /\ LaneNamesInv'
           /\ goal'[s] = x /\ x # Missing /\ \A t \in Sessions \ {s} : goal'[t] = goal[t]
<1>1. /\ goal' \in [Sessions -> Enrolled \cup {Missing}]
      /\ goal'[s] = x /\ x # Missing /\ \A t \in Sessions \ {s} : goal'[t] = goal[t]
  BY Zenon, EnrolledIsThere DEF EnrollmentInv, EnrollmentTyped
<1>2. LaneNamesInv' /\ SuccessorInv'
  BY <1>1 DEF EnrollmentInv, LaneNamesInv, SuccessorInv, HasGoal
<1> QED
  BY Zenon, <1>1, <1>2

\* A nonce is used up.
LEMMA ConsumeNonceKeeps == ASSUME EnrollmentInv, ConsumeNonce PROVE EnrollmentInv'
<1> DEFINE s == busy.s
<1>1. /\ ~Unlocked /\ busy.op = "enroll" /\ busy' = Missing /\ s \in Sessions
      /\ UNCHANGED <<asking, read, registry, issued, died>>
  BY Zenon DEF ConsumeNonce, EnrollmentInv, BusyInv
<1>2. CASE nonce[s].id = busy.id
  <2>1. /\ nonce' = [nonce EXCEPT ![s].consumed = TRUE] /\ spentNonces' = spentNonces \cup {busy.id}
        /\ UNCHANGED goal
    BY Zenon, <1>2 DEF ConsumeNonce
  <2>2. EnrollmentTyped'
    BY Zenon, <1>1, <2>1 DEF EnrollmentInv, EnrollmentTyped, NonceFiles
  <2>3. NonceInv' /\ BusyInv'
    BY Zenon, <1>1, <2>1 DEF EnrollmentInv, NonceInv, BusyInv, Unlocked, HasGoal
  <2> QED
    BY Zenon, <2>1, <2>2, <2>3 DEF EnrollmentInv, SuccessorInv, LaneNamesInv, HasGoal
<1>3. CASE nonce[s].id # busy.id
  <2>1. goal' = [goal EXCEPT ![s] = Missing] /\ UNCHANGED <<nonce, spentNonces>>
    BY Zenon, <1>3 DEF ConsumeNonce
  <2>2. /\ goal' \in [Sessions -> Enrolled \cup {Missing}] /\ SuccessorInv' /\ LaneNamesInv'
        /\ goal'[s] = Missing /\ \A t \in Sessions \ {s} : goal'[t] = goal[t]
    BY Zenon, <1>1, <2>1, RecordRemoved
  <2>3. EnrollmentTyped' /\ BusyInv'
    BY Zenon, <1>1, <2>1, <2>2 DEF EnrollmentInv, EnrollmentTyped, BusyInv, Unlocked
  <2>4. NonceInv'
    BY Zenon, <1>1, <2>1, <2>2 DEF EnrollmentInv, NonceInv, HasGoal
  <2> QED
    BY Zenon, <2>2, <2>3, <2>4 DEF EnrollmentInv
<1> QED
  BY Zenon, <1>2, <1>3

\* The source of a transfer is put on hold.
LEMMA HoldTransferredKeeps ==
    ASSUME EnrollmentInv, NEW s \in Sessions, HoldTransferred(s) PROVE EnrollmentInv'
<1> DEFINE x == SuccessorRef(s)
           g == [goal[s] EXCEPT !.status = "held", !.to = x]
           b == [op |-> "transfer", s |-> s, to |-> x]
<1>1. /\ Unlocked /\ HasGoal(s) /\ goal[s].to = "" /\ FreeCandidates(s) # {}
      /\ goal' = [goal EXCEPT ![s].status = "held", ![s].to = x] /\ busy' = b
      /\ UNCHANGED <<nonce, asking, read, registry, spentNonces, issued, died>>
  BY Zenon DEF HoldTransferred, history
<1>2. x \in Sessions /\ ~HasGoal(x)
  <2>1. Candidates[s] \in Seq(Sessions)
    BY Zenon, EnrollmentAssumption
  <2>2. FreeCandidates(s) \in SUBSET Nat
    BY <2>1 DEF FreeCandidates
  <2>3. Min(FreeCandidates(s)) \in FreeCandidates(s)
    BY Zenon, <1>1, <2>2, LeastNatural
  <2>4. Min(FreeCandidates(s)) \in DOMAIN Candidates[s] /\ ~HasGoal(Candidates[s][Min(FreeCandidates(s))])
    BY Zenon, <2>3 DEF FreeCandidates
  <2> QED
    BY <2>1, <2>4 DEF SuccessorRef
<1> HIDE DEF x
<1>3. goal[s] \in Enrolled /\ x # s
  BY Zenon, <1>1, <1>2 DEF EnrollmentInv, EnrollmentTyped, HasGoal
<1>4. /\ g \in Enrolled /\ g.to = x /\ g.origin = goal[s].origin /\ g.by = goal[s].by
      /\ g.receipt = goal[s].receipt
  BY Zenon, <1>2, <1>3 DEF Enrolled
<1>5. goal' = [goal EXCEPT ![s] = g]
  BY Zenon, <1>1, <1>3 DEF EnrollmentInv, EnrollmentTyped, Enrolled
<1>6. b # Missing /\ b.op = "transfer" /\ b.s = s /\ b.to = x
  BY Zenon, BusyIsThere
<1> HIDE DEF g, b
<1>7. /\ goal' \in [Sessions -> Enrolled \cup {Missing}]
      /\ goal'[s] = g /\ g # Missing /\ \A t \in Sessions \ {s} : goal'[t] = goal[t]
  BY Zenon, <1>4, <1>5, EnrolledIsThere DEF EnrollmentInv, EnrollmentTyped
<1>8. EnrollmentTyped' /\ BusyInv'
  BY Zenon, <1>1, <1>2, <1>3, <1>4, <1>6, <1>7 DEF EnrollmentInv, EnrollmentTyped, BusyInv, HasGoal
<1>a. /\ \A t \in Sessions : goal'[t] # Missing <=> goal[t] # Missing
      /\ \A t \in Sessions : goal'[t].origin = goal[t].origin /\ goal'[t].by = goal[t].by
                             /\ goal'[t].receipt = goal[t].receipt
      /\ goal[s].to = "" /\ \A t \in Sessions \ {s} : goal'[t].to = goal[t].to
      /\ Unlocked /\ UNCHANGED <<spentNonces, died>>
  BY Zenon, <1>1, <1>4, <1>7 DEF HasGoal
<1>9. LaneNamesInv'
  BY Zenon, <1>a DEF EnrollmentInv, LaneNamesInv, HasGoal
<1>10. SuccessorInv'
  <2> SUFFICES ASSUME NEW t \in Sessions, NEW y \in Sessions, goal'[t] # Missing, goal'[y] # Missing,
                      goal'[y].origin = t
               PROVE  goal'[t].to = y
    BY Zenon DEF SuccessorInv, HasGoal
  <2>1. goal[t].to = y
    BY Zenon, <1>a DEF EnrollmentInv, SuccessorInv, HasGoal
  <2> QED
    BY ZenonT(60), <1>a, <2>1, EnrollmentAssumption
<1>11. NonceInv'
  BY Zenon, <1>a DEF EnrollmentInv, NonceInv, HasGoal
<1> QED
  BY Zenon, SMTT(30), <1>8, <1>9, <1>10, <1>11 DEF EnrollmentInv

\* The successor is scaffolded on a free reference.
LEMMA ScaffoldSuccessorKeeps == ASSUME EnrollmentInv, ScaffoldSuccessor PROVE EnrollmentInv'
<1> DEFINE s == busy.s
           x == busy.to
           new == Fresh(goal[s].receipt, "transfer", s)
<1>1. /\ ~Unlocked /\ busy.op = "transfer" /\ busy' = Missing /\ s \in Sessions /\ x \in Sessions \ {s}
      /\ HasGoal(s) /\ goal[s].to = x
      /\ UNCHANGED <<nonce, asking, read, registry, spentNonces, issued, died>>
  BY Zenon DEF ScaffoldSuccessor, EnrollmentInv, BusyInv
<1>2. CASE Accepted(x, goal[s].pin)
  <2>1. Create(x, new) /\ ~LaneTaken(x)
    BY Zenon, <1>2 DEF ScaffoldSuccessor, Accepted
  <2>2. goal[s].receipt \in Nat
    <3>1. goal[s] \in Enrolled
      BY Zenon, <1>1 DEF EnrollmentInv, EnrollmentTyped, HasGoal
    <3> QED
      BY Zenon, <3>1 DEF Enrolled
  <2>a. EnrollmentTyped /\ s \in Sessions /\ registry \in Nat
    BY Zenon, <1>1 DEF EnrollmentInv, EnrollmentTyped
  <2> HIDE DEF s, x
  <2>3. new \in Enrolled /\ new.by = "transfer" /\ new.origin = s
    <3> DEFINE n == goal[s].receipt
    <3>1. n \in Nat
      BY Zenon, <2>2
    <3> HIDE DEF n
    <3>2. LET f == Fresh(n, "transfer", s)
          IN  f \in Enrolled /\ f.by = "transfer" /\ f.origin = s
      BY Zenon, <2>a, <3>1 DEF Fresh, Enrolled
    <3> QED
      BY Zenon, <3>2 DEF n
  <2> HIDE DEF new
  <2>4. /\ goal' \in [Sessions -> Enrolled \cup {Missing}] /\ goal'[x] = new
        /\ \A t \in Sessions \ {x} :
             /\ goal'[t] # Missing <=> HasGoal(t)
             /\ HasGoal(t) => goal'[t].by = goal[t].by /\ goal'[t].receipt = goal[t].receipt
    <3>1. x \in Sessions
      BY Zenon, <1>1
    <3> QED
      BY Zenon, <2>1, <2>3, <2>a, <3>1, CreateDoes
  <2>5. EnrollmentTyped' /\ BusyInv'
    BY Zenon, <1>1, <2>4 DEF EnrollmentInv, EnrollmentTyped, BusyInv, Unlocked
  <2>6. NonceInv'
    BY Zenon, <1>1, <2>3, <2>4 DEF EnrollmentInv, NonceInv, HasGoal
  <2>7. SuccessorInv' /\ LaneNamesInv'
    BY Zenon, <1>1, <2>1, <2>3, CreateKeeps
  <2> QED
    BY Zenon, <2>5, <2>6, <2>7 DEF EnrollmentInv
<1>3. CASE ~Accepted(x, goal[s].pin)
  <2>1. UNCHANGED goal
    BY Zenon, <1>3 DEF ScaffoldSuccessor
  <2> QED
    BY Zenon, <1>1, <2>1 DEF EnrollmentInv, EnrollmentTyped, BusyInv, SuccessorInv, LaneNamesInv, NonceInv, HasGoal, Unlocked
<1> QED
  BY Zenon, SMTT(30), <1>2, <1>3

\* A step that leaves the lock free and each interview's goal as it was, or without one.
LEMMA StaysFree ==
    ASSUME EnrollmentInv, Unlocked, UNCHANGED <<busy, spentNonces, died>>, EnrollmentTyped',
           SuccessorInv', LaneNamesInv',
           \A t \in Sessions : goal'[t] # Missing /\ goal'[t].by = "interview" =>
               HasGoal(t) /\ goal[t].by = "interview" /\ goal'[t].receipt = goal[t].receipt
    PROVE  EnrollmentInv'
  BY Zenon DEF EnrollmentInv, BusyInv, NonceInv, HasGoal, Unlocked

\* The goal of a session is set again.
LEMMA WriteSetGoalKeeps ==
    ASSUME EnrollmentInv, NEW s \in Sessions, WriteSetGoal(s) PROVE EnrollmentInv'
<1>1. /\ Unlocked /\ read[s] # Missing /\ read' = [read EXCEPT ![s] = Missing]
      /\ UNCHANGED <<nonce, asking, busy, registry, spentNonces, issued, died>>
  BY Zenon DEF WriteSetGoal
<1>2. ASSUME goal' \in [Sessions -> Enrolled \cup {Missing}] PROVE EnrollmentTyped'
  BY Zenon, <1>1, <1>2 DEF EnrollmentInv, EnrollmentTyped
<1>3. CASE HasGoal(s) /\ goal[s].receipt = read[s].receipt
  <2> DEFINE g == Updated(s)
  <2>1. goal' = [goal EXCEPT ![s] = g] /\ goal[s] \in Enrolled
    BY Zenon, <1>3 DEF WriteSetGoal, EnrollmentInv, EnrollmentTyped, HasGoal
  <2>2. /\ g \in Enrolled /\ g.to = goal[s].to /\ g.origin = goal[s].origin /\ g.by = goal[s].by
        /\ g.receipt = goal[s].receipt
    BY Zenon, <2>1 DEF Updated, Enrolled
  <2> HIDE DEF g
  <2>3. /\ goal' \in [Sessions -> Enrolled \cup {Missing}] /\ SuccessorInv' /\ LaneNamesInv'
        /\ goal'[s] = g /\ \A t \in Sessions \ {s} : goal'[t] = goal[t]
    BY Zenon, <1>3, <2>1, <2>2, RecordChanged
  <2> QED
    BY Zenon, <1>1, <1>2, <1>3, <2>2, <2>3, StaysFree DEF HasGoal
<1>4. CASE HasGoal(s) /\ goal[s].receipt # read[s].receipt
  <2>1. UNCHANGED goal
    BY Zenon, <1>4 DEF WriteSetGoal
  <2>2. EnrollmentTyped'
    BY Zenon, <1>2, <2>1 DEF EnrollmentInv, EnrollmentTyped
  <2> QED
    BY Zenon, <1>1, <2>1, <2>2, RecordsUntouched
<1>5. CASE ~HasGoal(s) /\ Accepted(s, read[s].pin)
  <2> DEFINE new == Fresh(read[s].receipt, "set", "")
  <2>1. Create(s, new) /\ ~LaneTaken(s) /\ read[s].receipt \in Nat
    BY Zenon, <1>1, <1>5 DEF WriteSetGoal, Accepted, EnrollmentInv, EnrollmentTyped
  <2>2. new \in Enrolled /\ new.by = "set" /\ new.origin = ""
    <3> DEFINE n == read[s].receipt
    <3>1. n \in Nat /\ registry \in Nat
      BY Zenon, <2>1 DEF EnrollmentInv, EnrollmentTyped
    <3> HIDE DEF n
    <3>2. LET f == Fresh(n, "set", "")
          IN  f \in Enrolled /\ f.by = "set" /\ f.origin = ""
      BY Zenon, <3>1 DEF Fresh, Enrolled
    <3> QED
      BY Zenon, <3>2 DEF n
  <2> HIDE DEF new
  <2>3. /\ goal' \in [Sessions -> Enrolled \cup {Missing}] /\ goal'[s] = new
        /\ \A t \in Sessions \ {s} :
             /\ goal'[t] # Missing <=> HasGoal(t)
             /\ HasGoal(t) => goal'[t].by = goal[t].by /\ goal'[t].receipt = goal[t].receipt
    BY ZenonT(60), <2>1, <2>2, CreateDoes DEF EnrollmentInv
  <2>4. SuccessorInv' /\ LaneNamesInv'
    BY Zenon, <2>1, <2>2, CreateKeeps
  <2> QED
    BY Zenon, <1>1, <1>2, <2>2, <2>3, <2>4, StaysFree
<1>6. CASE ~HasGoal(s) /\ ~Accepted(s, read[s].pin)
  <2>1. UNCHANGED goal
    BY Zenon, <1>6 DEF WriteSetGoal
  <2>2. EnrollmentTyped'
    BY Zenon, <1>2, <2>1 DEF EnrollmentInv, EnrollmentTyped
  <2> QED
    BY Zenon, <1>1, <2>1, <2>2, RecordsUntouched
<1> QED
  BY Zenon, SMTT(30), <1>3, <1>4, <1>5, <1>6

\* A held session is resumed.
LEMMA ResumeHeldKeeps ==
    ASSUME EnrollmentInv, NEW s \in Sessions, ResumeHeld(s) PROVE EnrollmentInv'
<1> DEFINE g == [goal[s] EXCEPT !.status = "working"]
<1>1. /\ Unlocked /\ HasGoal(s) /\ goal' = [goal EXCEPT ![s].status = "working"]
      /\ UNCHANGED <<nonce, asking, read, busy, registry, spentNonces, issued, died>>
  BY Zenon DEF ResumeHeld, history
<1>2. goal[s] \in Enrolled
  BY Zenon, <1>1 DEF EnrollmentInv, EnrollmentTyped, HasGoal
<1>3. /\ g \in Enrolled /\ g.to = goal[s].to /\ g.origin = goal[s].origin /\ g.by = goal[s].by
      /\ g.receipt = goal[s].receipt
  BY Zenon, <1>2 DEF Enrolled
<1>4. goal' = [goal EXCEPT ![s] = g]
  BY Zenon, <1>1, <1>2 DEF EnrollmentInv, EnrollmentTyped, Enrolled
<1> HIDE DEF g
<1>5. /\ goal' \in [Sessions -> Enrolled \cup {Missing}] /\ SuccessorInv' /\ LaneNamesInv'
      /\ goal'[s] = g /\ \A t \in Sessions \ {s} : goal'[t] = goal[t]
  BY Zenon, <1>1, <1>3, <1>4, RecordChanged
<1>6. EnrollmentTyped'
  BY Zenon, <1>1, <1>5 DEF EnrollmentInv, EnrollmentTyped
<1> QED
  BY Zenon, SMTT(30), <1>1, <1>3, <1>5, <1>6, StaysFree DEF HasGoal

\* A session is closed.
LEMMA CloseSessionKeeps ==
    ASSUME EnrollmentInv, NEW s \in Sessions, CloseSession(s) PROVE EnrollmentInv'
<1>1. /\ Unlocked /\ goal' = [goal EXCEPT ![s] = Missing]
      /\ UNCHANGED <<nonce, asking, read, busy, registry, spentNonces, issued, died>>
  BY Zenon DEF CloseSession, history
<1>2. /\ goal' \in [Sessions -> Enrolled \cup {Missing}] /\ SuccessorInv' /\ LaneNamesInv'
      /\ goal'[s] = Missing /\ \A t \in Sessions \ {s} : goal'[t] = goal[t]
  BY Zenon, <1>1, RecordRemoved
<1>3. EnrollmentTyped'
  BY Zenon, <1>1, <1>2 DEF EnrollmentInv, EnrollmentTyped
<1> QED
  BY Zenon, <1>1, <1>2, <1>3, StaysFree DEF HasGoal

\* The steps before a lock, the registry's edits and a crash.
LEMMA EnrollmentAside ==
    ASSUME EnrollmentInv,
           \/ EditRegistry \/ EnrollmentDies \/ UNCHANGED enrollmentVars
           \/ \E s \in Sessions : \/ ReadAbsent(s) \/ ReadGoalForSet(s)
                                  \/ \E r \in Requests : IssueNonce(s, r)
    PROVE  EnrollmentInv'
<1>1. CASE EditRegistry \/ UNCHANGED enrollmentVars \/ \E s \in Sessions : ReadAbsent(s)
  <2>1. UNCHANGED <<goal, nonce, read, busy, issued, spentNonces, died>> /\ registry' \in Nat
    <3>1. registry \in Nat
      BY Zenon DEF EnrollmentInv, EnrollmentTyped
    <3>2. CASE EditRegistry
      BY <3>1, <3>2 DEF EditRegistry, history
    <3>3. CASE UNCHANGED enrollmentVars
      BY Zenon, <3>1, <3>3 DEF enrollmentVars
    <3>4. CASE \E s \in Sessions : ReadAbsent(s)
      BY Zenon, <3>1, <3>4 DEF ReadAbsent, history
    <3> QED
      BY Zenon, SMTT(30), <1>1, <3>2, <3>3, <3>4
  <2>2. EnrollmentTyped'
    BY Zenon, <2>1 DEF EnrollmentInv, EnrollmentTyped
  <2> QED
    BY Zenon, <2>1, <2>2, RecordsUntouched
<1>2. ASSUME NEW s \in Sessions, ReadGoalForSet(s) PROVE EnrollmentInv'
  <2> DEFINE r == [receipt |-> goal[s].receipt, pin |-> goal[s].pin]
  <2>1. HasGoal(s) /\ read' = [read EXCEPT ![s] = r] /\ UNCHANGED <<goal, nonce, busy, issued, spentNonces, died, registry>>
    BY Zenon, <1>2 DEF ReadGoalForSet, history
  <2>2. r \in [receipt : Nat, pin : Nat]
    <3>1. goal[s] \in Enrolled
      BY Zenon, <2>1 DEF EnrollmentInv, EnrollmentTyped, HasGoal
    <3> QED
      BY Zenon, <3>1 DEF Enrolled
  <2> HIDE DEF r
  <2>3. EnrollmentTyped'
    BY Zenon, <2>1, <2>2 DEF EnrollmentInv, EnrollmentTyped
  <2> QED
    BY Zenon, SMTT(30), <2>1, <2>3, RecordsUntouched
<1>3. ASSUME NEW s \in Sessions, NEW r \in Requests, IssueNonce(s, r) PROVE EnrollmentInv'
  <2>1. UNCHANGED <<goal, read, busy, spentNonces, died, registry>>
    BY Zenon, <1>3 DEF IssueNonce
  <2>2. nonce' \in [Sessions -> NonceFiles] /\ issued' \in Nat
    <3> DEFINE n == [id |-> issued + 1, request |-> r, consumed |-> FALSE]
    <3>0. nonce \in [Sessions -> NonceFiles]
      BY Zenon DEF EnrollmentInv, EnrollmentTyped
    <3>a. issued \in Nat
      BY Zenon DEF EnrollmentInv, EnrollmentTyped
    <3>1. issued + 1 \in Nat
      BY <3>a
    <3>2. n \in NonceFiles
      BY Zenon, <3>1 DEF NonceFiles
    <3>3. \/ UNCHANGED <<nonce, issued>>
          \/ issued' = issued + 1 /\ nonce' = [nonce EXCEPT ![s] = n]
      BY Zenon, <1>3 DEF IssueNonce
    <3> HIDE DEF n
    <3>4. issued' \in Nat
      BY Zenon, <3>a, <3>1, <3>3
    <3> QED
      BY Zenon, SMTT(30), <3>0, <3>2, <3>3, <3>4
  <2>3. EnrollmentTyped'
    BY Zenon, <2>1, <2>2 DEF EnrollmentInv, EnrollmentTyped
  <2> QED
    BY Zenon, SMTT(30), <2>1, <2>3, RecordsUntouched
<1>4. CASE EnrollmentDies
  BY Zenon, <1>4 DEF EnrollmentDies, EnrollmentInv, EnrollmentTyped, BusyInv, SuccessorInv, LaneNamesInv, NonceInv, HasGoal, Unlocked
<1> QED
  BY Zenon, <1>1, <1>2, <1>3, <1>4

\* Every step preserves the invariant.
LEMMA EnrollmentStep == EnrollmentInv /\ [EnrollmentNext]_enrollmentVars => EnrollmentInv'
  BY Zenon, SMTT(30), EnrollmentAside, CommitEnrollmentKeeps, ConsumeNonceKeeps, HoldTransferredKeeps, ScaffoldSuccessorKeeps,
     WriteSetGoalKeeps, ResumeHeldKeeps, CloseSessionKeeps DEF EnrollmentNext

\* The invariant implies both properties.
LEMMA EnrollmentInvSays == EnrollmentInv => EnrollmentFailsClosed /\ OneSuccessor
<1> SUFFICES ASSUME EnrollmentInv PROVE EnrollmentFailsClosed /\ OneSuccessor
  BY Zenon
<1>1. EnrollmentFailsClosed
  BY Zenon DEF EnrollmentInv, NonceInv, EnrollmentFailsClosed
<1>2. ASSUME NEW s \in Sessions, HasGoal(s)
      PROVE  \A x, y \in {t \in Sessions : HasGoal(t) /\ goal[t].origin = s} : x = y
  BY Zenon, <1>2 DEF EnrollmentInv, SuccessorInv
<1>3. OneSuccessor
  BY Zenon, <1>2 DEF OneSuccessor, EnrollmentInv, LaneNamesInv
<1> QED
  BY Zenon, <1>1, <1>3

\* For any sessions, hosts, successor names and requests, and any number of enrollments, transfers,
\* stale "set" commands and closes: unless a process died between its two writes, a goal enrolled by
\* an interview has its nonce consumed once the lock is free (_enroll_from_interview_result).
THEOREM EnrollmentsFailClosed == EnrollmentSpec => []EnrollmentFailsClosed
<1>1. EnrollmentSpec => []EnrollmentInv
  BY EnrollmentInitHolds, EnrollmentStep, PTL DEF EnrollmentSpec
<1> QED
  BY <1>1, EnrollmentInvSays, PTL

\* For the same: no two open goals share a lane name, and a lane has at most one successor
\* (transfer_goal, _upsert_goal_locked).
THEOREM TransfersHaveOneSuccessor == EnrollmentSpec => []OneSuccessor
<1>1. EnrollmentSpec => []EnrollmentInv
  BY EnrollmentInitHolds, EnrollmentStep, PTL DEF EnrollmentSpec
<1> QED
  BY <1>1, EnrollmentInvSays, PTL

-----------------------------------------------------------------------------

\* Merging on green (MergeGate).

MergeReasons ==
    {"repo_not_allowlisted", "identity_not_app", "author_is_a_bot", "author_not_a_lane",
     "stale_pull_request", "hold_label_present", "already_closed", "draft", "not_mergeable",
     "merge_state_not_clean", "checks_not_successful"}
Ids == {"app", "user", "none", ""}
PrStates == [head : Nat, open : BOOLEAN, draft : BOOLEAN, held : BOOLEAN, fresh : BOOLEAN,
             green : BOOLEAN, status : {"CLEAN", "BEHIND", "CONFLICTING", "UNKNOWN"}]
MergeRecords == [pr : Prs \cup {0}, head : Nat, reason : MergeReasons \cup {"ok", ""}, id : Ids,
                 merged : BOOLEAN, by : Ids]
Procs == [pc : {"idle", "discover", "fetch", "lock", "merge", "outcome", "append", "notify"},
          repos : Seq(STRING), todo : SUBSET Prs, pr : Prs \cup {0}, seen : PrStates, id : Ids,
          dry : BOOLEAN, record : MergeRecords]

MergeTyped ==
    /\ pr \in [Prs -> PrStates]
    /\ token \in {"app", "user", "none"}
    /\ repoLock \in [Repos -> Mergers \cup {NotLocked}]
    /\ proc \in [Mergers -> Procs]
    /\ \A l \in landed : l.by \in Ids

\* What a merger has established at each point of its way: the commit it read was let through,
\* it holds the repository's lock while it merges and records, and the record it is about to
\* append is of a merge that took place.
Order(m, x, lock, lines, merges, passed) ==
    /\ x.pc \in {"fetch", "lock", "merge", "outcome", "append", "notify"} => x.pr \in Prs
    /\ x.pc = "discover" => x.repos # <<>>
    /\ x.pc \in {"lock", "merge"} =>
         (decide(x.pr, x.seen, "app") = "ok" => <<x.pr, x.seen.head>> \in passed)
    /\ x.pc \in {"merge", "outcome", "append"} => lock[RepoOf[x.pr]] = m
    /\ x.record.merged => x.pc \in {"outcome", "append", "notify"}
    /\ x.pc \in {"outcome", "append"} /\ x.record.merged =>
         /\ x.record.pr = x.pr /\ x.record.id = "app"
         /\ \E l \in merges : l.pr = x.pr /\ l.head = x.record.head /\ x.record.by \in {"", l.by}
    /\ x.pc = "outcome" => x.record.merged
    /\ x.pc = "notify" => \E y \in lines : y.merged /\ y.pr = x.pr

\* A merged pull request is closed, and nothing is merged twice.
LandedInv ==
    /\ \A l \in landed : l.pr \in Prs /\ ~pr[l.pr].open
    /\ \A k, l \in landed : k.pr = l.pr => k = l

MergeInv ==
    /\ MergeTyped /\ LandedInv
    /\ Passing(pr) \subseteq qualified
    /\ \A m \in Mergers : Order(m, proc[m], repoLock, ledger, landed, qualified)
    /\ VerifiedIsWhatLands /\ LedgerIsTrue

\* decide: "ok" means that no doubt was raised.
LEMMA DecideSays ==
    ASSUME NEW p, NEW s, NEW id
    PROVE  /\ decide(p, s, id) \in MergeReasons \cup {"ok"}
           /\ decide(p, s, id) = "ok" => id = "app" /\ s.open
<1> DEFINE c == Doubts(p, s, id)
           raised == {i \in DOMAIN c : c[i][1]}
<1>1. /\ DOMAIN c = 1 .. 11
      /\ c[1][2] \in MergeReasons /\ c[2][2] \in MergeReasons /\ c[3][2] \in MergeReasons
      /\ c[4][2] \in MergeReasons /\ c[5][2] \in MergeReasons /\ c[6][2] \in MergeReasons
      /\ c[7][2] \in MergeReasons /\ c[8][2] \in MergeReasons /\ c[9][2] \in MergeReasons
      /\ c[10][2] \in MergeReasons /\ c[11][2] \in MergeReasons
  BY DEF Doubts, MergeReasons
<1>2. (c[2][1] <=> id # "app") /\ (c[7][1] <=> ~s.open)
  BY Zenon DEF Doubts
<1>3. decide(p, s, id) = IF raised = {} THEN "ok" ELSE c[Min(raised)][2]
  BY Zenon DEF decide
<1> HIDE DEF c
<1>4. \A i \in 1 .. 11 : c[i][2] \in MergeReasons
  BY <1>1
<1>5. raised \in SUBSET Nat /\ raised \subseteq 1 .. 11
  BY <1>1
<1>6. raised # {} => Min(raised) \in raised
  <2> HIDE DEF raised
  <2> QED
    BY Zenon, <1>5, LeastNatural
<1>7. "ok" \notin MergeReasons
  BY Zenon DEF MergeReasons
<1>8. raised = {} => ~c[2][1] /\ ~c[7][1]
  BY <1>1
<1> QED
  BY Zenon, <1>2, <1>3, <1>4, <1>5, <1>6, <1>7, <1>8

\* The values of a merger with nothing to do.
LEMMA RestingTyped ==
    /\ NoState \in PrStates /\ NoRecord \in MergeRecords /\ NoRecord.merged = FALSE
    /\ Resting \in Procs /\ Resting.pc = "idle" /\ Resting.record = NoRecord
<1>1. NoState \in PrStates
  BY Zenon DEF NoState, PrStates
<1>2. NoRecord \in MergeRecords /\ NoRecord.merged = FALSE
  BY Zenon DEF NoRecord, MergeRecords, Ids
<1>3. <<>> \in Seq(STRING)
  OBVIOUS
<1> QED
  BY Zenon, <1>1, <1>2, <1>3 DEF Resting, Procs, Ids

\* The rest of a list.
LEMMA TailOfList ==
    ASSUME NEW A, NEW r \in Seq(A), r # <<>>
    PROVE  Tail(r) \in Seq(A)
  OBVIOUS

\* A pass goes on with the next repository.
LEMMA TailTyped ==
    ASSUME NEW x \in Procs, x.repos # <<>>
    PROVE  [x EXCEPT !.repos = Tail(@)] \in Procs
<1> DEFINE t == Tail(x.repos)
<1>1. x.repos \in Seq(STRING)
  BY Zenon DEF Procs
<1>2. t \in Seq(STRING)
  BY Zenon, <1>1, TailOfList
<1> HIDE DEF t
<1>3. [x EXCEPT !.repos = t] \in Procs
  BY Zenon, SMTT(30), <1>2 DEF Procs
<1> QED
  BY Zenon, <1>3 DEF t

\* A merger between two pull requests.
Between(x) ==
    /\ x \in Procs /\ ~x.record.merged
    /\ \/ x.pc = "idle"
       \/ x.pc = "discover" /\ x.repos # <<>>
       \/ x.pc = "fetch" /\ x.pr \in Prs

\* Between two pull requests a merger owes nothing.
LEMMA BetweenIsOrder ==
    ASSUME NEW x, Between(x), NEW m, NEW lock, NEW lines, NEW merges, NEW passed
    PROVE  Order(m, x, lock, lines, merges, passed)
  BY Zenon DEF Between, Order

\* A merger at rest is between pull requests.
LEMMA RestingBetween == Between(Resting)
  BY Zenon, RestingTyped DEF Between

\* So is one that goes on to the next candidate.
LEMMA OnwardBetween == ASSUME NEW x \in Procs PROVE Between(Onward(x))
<1>1. CASE x.repos = <<>>
  BY Zenon, <1>1, RestingBetween DEF Onward
<1>2. CASE x.repos # <<>>
  <2> DEFINE y == [Resting EXCEPT !.pc = "discover", !.repos = x.repos, !.id = x.id, !.dry = x.dry]
  <2>1. y \in Procs /\ y.pc = "discover" /\ y.repos = x.repos /\ y.record = NoRecord
    BY Zenon, RestingTyped DEF Procs
  <2>2. Onward(x) = y
    BY Zenon, <1>2 DEF Onward
  <2> HIDE DEF y
  <2> QED
    BY Zenon, <1>2, <2>1, <2>2, RestingTyped DEF Between
<1> QED
  BY Zenon, <1>1, <1>2

\* So is one that goes on to the next repository.
LEMMA NextOfBetween == ASSUME NEW x \in Procs PROVE Between(NextOf(x))
<1>1. CASE x.todo = {}
  BY Zenon, <1>1, OnwardBetween DEF NextOf
<1>2. CASE x.todo # {}
  <2> DEFINE n == Min(x.todo)
             y == [x EXCEPT !.pc = "fetch", !.pr = n, !.todo = x.todo \ {n},
                            !.seen = NoState, !.record = NoRecord]
  <2>1. n \in Prs
    <3>1. x.todo \in SUBSET Prs
      BY Zenon DEF Procs
    <3>2. x.todo \in SUBSET Nat
      BY Zenon, <3>1, MergeAssumption
    <3> QED
      BY Zenon, <1>2, <3>1, <3>2, LeastNatural
  <2>2. NextOf(x) = y
    BY Zenon, <1>2 DEF NextOf, Procs
  <2> HIDE DEF n
  <2>3. y \in Procs /\ y.pc = "fetch" /\ y.pr = n /\ y.record = NoRecord
    BY Zenon, <2>1, RestingTyped DEF Procs
  <2> HIDE DEF y
  <2> QED
    BY Zenon, <2>1, <2>2, <2>3, RestingTyped DEF Between
<1> QED
  BY Zenon, <1>1, <1>2

\* What a merger has shown stays shown while the ledger and the merges only grow and it keeps its
\* locks.
LEMMA OrderGrows ==
    ASSUME NEW m, NEW x \in Procs, NEW lines, NEW merges, NEW passed, NEW lines2, NEW merges2, NEW passed2,
           NEW lock, NEW lock2, Order(m, x, lock, lines, merges, passed),
           \A r \in Repos : lock[r] = m => lock2[r] = m,
           lines \subseteq lines2, merges \subseteq merges2, passed \subseteq passed2
    PROVE  Order(m, x, lock2, lines2, merges2, passed2)
<1>1. x.pr \in Prs => RepoOf[x.pr] \in Repos
  BY Zenon DEF Repos
<1> QED
  BY Zenon, <1>1 DEF Order

\* What one merger does leaves the other one's order alone.
LEMMA OthersKeepOrder ==
    ASSUME MergeInv, NEW m, NEW k \in Mergers, k # m, NEW lock2, NEW lines2, NEW merges2, NEW passed2,
           \A r \in Repos : repoLock[r] \notin {m, NotLocked} => lock2[r] = repoLock[r],
           ledger \subseteq lines2, landed \subseteq merges2, qualified \subseteq passed2
    PROVE  Order(k, proc[k], lock2, lines2, merges2, passed2)
<1>1. Order(k, proc[k], repoLock, ledger, landed, qualified) /\ proc[k] \in Procs
  BY Zenon DEF MergeInv, MergeTyped
<1>2. NotLocked \notin Mergers
  BY Zenon DEF NotLocked, Mergers
<1>3. \A r \in Repos : repoLock[r] = k => lock2[r] = k
  BY Zenon, <1>2
<1> QED
  BY <1>1, <1>3, OrderGrows

\* Before the first pass the invariant holds.
LEMMA MergeInitHolds == MergeInit => MergeInv
<1> SUFFICES ASSUME MergeInit PROVE MergeInv
  BY Zenon
<1>1. pr \in [Prs -> PrStates]
  BY Zenon DEF MergeInit, PrStates
<1>2. MergeTyped
  BY Zenon, <1>1, RestingTyped DEF MergeInit, MergeTyped
<1>3. \A m \in Mergers : Order(m, proc[m], repoLock, ledger, landed, qualified)
  BY Zenon, RestingBetween, BetweenIsOrder DEF MergeInit
<1> QED
  BY Zenon, <1>2, <1>3 DEF MergeInit, MergeInv, LandedInv, VerifiedIsWhatLands, LedgerIsTrue

\* A merger moves on; GitHub stays as it is.
LEMMA MergerMoves ==
    ASSUME MergeInv, NEW m \in Mergers, NEW x \in Procs, Becomes(m, x),
           UNCHANGED <<pr, token, landed, qualified>>,
           repoLock' \in [Repos -> Mergers \cup {NotLocked}],
           \A r \in Repos : repoLock[r] \notin {m, NotLocked} => repoLock'[r] = repoLock[r],
           Order(m, x, repoLock', ledger', landed, qualified),
           ledger \subseteq ledger',
           \A y \in ledger' \ ledger : y.merged =>
               y.id = "app" /\ \E l \in landed : l.pr = y.pr /\ l.head = y.head /\ y.by \in {"", l.by},
           unheard \subseteq unheard',
           proc[m].record.merged /\ proc[m].pr \in Prs /\ repoLock[RepoOf[proc[m].pr]] = m =>
               \/ \E y \in ledger' : y.merged /\ y.pr = proc[m].pr
               \/ x.record.merged /\ x.pr = proc[m].pr /\ repoLock'[RepoOf[x.pr]] = m
               \/ proc[m].pr \in unheard',
           \A t \in told' \ told : \E y \in ledger' : y.merged /\ y.pr = t.pr
    PROVE  MergeInv'
<1>1. proc'[m] = x /\ \A k \in Mergers \ {m} : proc'[k] = proc[k]
  BY Zenon DEF MergeInv, MergeTyped, Becomes
<1>2. MergeTyped'
  BY Zenon, <1>1 DEF MergeInv, MergeTyped, Becomes
<1>3. NotLocked \notin Mergers
  BY Zenon DEF NotLocked, Mergers
<1>4. ASSUME NEW k \in Mergers PROVE Order(k, proc'[k], repoLock', ledger', landed', qualified')
  <2>1. CASE k = m
    BY Zenon, <1>1, <2>1
  <2>2. CASE k # m
    <3>1. Order(k, proc[k], repoLock', ledger', landed, qualified)
      BY Zenon, <2>2, OthersKeepOrder
    <3> QED
      BY Zenon, <1>1, <2>2, <3>1
  <2> QED
    BY Zenon, <2>1, <2>2
<1>5. Passing(pr') = Passing(pr)
  BY Zenon
<1>6. LandedInv' /\ VerifiedIsWhatLands'
  BY Zenon DEF MergeInv, LandedInv, VerifiedIsWhatLands
<1>7. LedgerIsTrue'
  <2>1. \A y \in {z \in ledger' : z.merged} :
          y.id = "app" /\ \E l \in landed : l.pr = y.pr /\ l.head = y.head /\ y.by \in {"", l.by}
    BY Zenon DEF MergeInv, LedgerIsTrue
  <2>2. ASSUME NEW l \in landed
        PROVE  \/ \E y \in ledger' : y.merged /\ y.pr = l.pr
               \/ \E k \in Mergers : proc'[k].record.merged /\ proc'[k].pr = l.pr /\ repoLock'[RepoOf[l.pr]] = k
               \/ l.pr \in unheard'
    <3>1. l.pr \in Prs /\ RepoOf[l.pr] \in Repos
      BY Zenon DEF MergeInv, LandedInv, Repos
    <3>2. CASE \E k \in Mergers : proc[k].record.merged /\ proc[k].pr = l.pr /\ repoLock[RepoOf[l.pr]] = k
      <4>1. PICK k \in Mergers : proc[k].record.merged /\ proc[k].pr = l.pr /\ repoLock[RepoOf[l.pr]] = k
        BY Zenon, <3>2
      <4>2. CASE k = m
        <5>1. proc[m].record.merged /\ proc[m].pr = l.pr /\ repoLock[RepoOf[l.pr]] = m
          BY Zenon, <4>1, <4>2
        <5>2. \/ \E y \in ledger' : y.merged /\ y.pr = l.pr
              \/ x.record.merged /\ x.pr = l.pr /\ repoLock'[RepoOf[l.pr]] = m
              \/ l.pr \in unheard'
          BY Zenon, <3>1, <5>1
        <5> QED
          BY Zenon, <1>1, <5>2
      <4>3. CASE k # m
        <5>1. repoLock'[RepoOf[l.pr]] = k
          BY Zenon, <1>3, <3>1, <4>1, <4>3
        <5>2. proc'[k].record.merged /\ proc'[k].pr = l.pr
          BY ZenonT(60), <1>1, <4>1, <4>3
        <5> QED
          BY Zenon, <5>1, <5>2
      <4> QED
        BY Zenon, <4>2, <4>3
    <3> QED
      BY Zenon, <3>2 DEF MergeInv, LedgerIsTrue
  <2>3. \A t \in told' : \E y \in ledger' : y.merged /\ y.pr = t.pr
    BY Zenon DEF MergeInv, LedgerIsTrue
  <2> QED
    BY Zenon, <2>1, <2>2, <2>3 DEF LedgerIsTrue
<1> QED
  BY Zenon, <1>2, <1>4, <1>5, <1>6, <1>7 DEF MergeInv

\* ... to another pull request, with nothing merged on its record.
LEMMA MergerTurns ==
    ASSUME MergeInv, NEW m \in Mergers, NEW x, Between(x), Becomes(m, x),
           UNCHANGED <<pr, token, landed, qualified, ledger, told>>, repoLock' \in {repoLock, Released(m)},
           unheard \subseteq unheard', proc[m].record.merged => proc[m].pr \in unheard'
    PROVE  MergeInv'
<1>1. /\ repoLock' \in [Repos -> Mergers \cup {NotLocked}]
      /\ \A r \in Repos : repoLock[r] \notin {m, NotLocked} => repoLock'[r] = repoLock[r]
  BY Zenon DEF MergeInv, MergeTyped, Released
<1>2. x \in Procs /\ Order(m, x, repoLock', ledger', landed, qualified)
  BY Zenon, BetweenIsOrder DEF Between
<1> QED
  BY Zenon, <1>1, <1>2, MergerMoves

\* A pass or a merge verb begins.
LEMMA BeginKeeps == ASSUME MergeInv, BeginPass \/ \E p \in Prs : BeginVerb(p) PROVE MergeInv'
<1>1. ASSUME NEW dry \in BOOLEAN, AllowedRepos # <<>>
      PROVE  Between([Identity(dry) EXCEPT !.pc = "discover", !.repos = AllowedRepos])
  <2> DEFINE y == [Identity(dry) EXCEPT !.pc = "discover", !.repos = AllowedRepos]
  <2>1. y \in Procs /\ y.pc = "discover" /\ y.repos = AllowedRepos /\ y.record = NoRecord
    BY Zenon, RestingTyped, MergeAssumption DEF Identity, Procs, MergeInv, MergeTyped, Ids
  <2> HIDE DEF y
  <2>2. Between(y)
    BY Zenon, <1>1, <2>1, RestingTyped DEF Between
  <2> QED
    BY Zenon, <2>2 DEF y
<1>2. ASSUME NEW dry \in BOOLEAN, NEW p \in Prs
      PROVE  Between([Identity(dry) EXCEPT !.pc = "fetch", !.pr = p])
  <2> DEFINE y == [Identity(dry) EXCEPT !.pc = "fetch", !.pr = p]
  <2>1. y \in Procs /\ y.pc = "fetch" /\ y.pr = p /\ y.record = NoRecord
    BY Zenon, RestingTyped DEF Identity, Procs, MergeInv, MergeTyped, Ids
  <2> HIDE DEF y
  <2>2. Between(y)
    BY Zenon, <2>1, RestingTyped DEF Between
  <2> QED
    BY Zenon, <2>2 DEF y
<1>3. \A m \in Mergers : proc[m].pc = "idle" => ~proc[m].record.merged
  BY Zenon DEF MergeInv, Order
<1>4. CASE BeginPass
  <2>1. PICK dry \in BOOLEAN :
          Becomes("merged", [Identity(dry) EXCEPT !.pc = "discover", !.repos = AllowedRepos])
    BY Zenon, <1>4 DEF BeginPass
  <2>2. /\ proc["merged"].pc = "idle" /\ AllowedRepos # <<>> /\ "merged" \in Mergers
        /\ UNCHANGED <<pr, token, repoLock, ledger, told, landed, unheard, qualified>>
    BY Zenon, <1>4 DEF BeginPass, Mergers
  <2> QED
    BY Zenon, <1>1, <1>3, <2>1, <2>2, MergerTurns
<1>5. ASSUME NEW p \in Prs, BeginVerb(p) PROVE MergeInv'
  <2>1. PICK dry \in BOOLEAN : Becomes("chitra-merge", [Identity(dry) EXCEPT !.pc = "fetch", !.pr = p])
    BY Zenon, <1>5 DEF BeginVerb
  <2>2. /\ proc["chitra-merge"].pc = "idle" /\ "chitra-merge" \in Mergers
        /\ UNCHANGED <<pr, token, repoLock, ledger, told, landed, unheard, qualified>>
    BY Zenon, <1>5 DEF BeginVerb, Mergers
  <2> QED
    BY Zenon, <1>2, <1>3, <2>1, <2>2, MergerTurns
<1> QED
  BY Zenon, <1>4, <1>5

\* The candidates of a repository are listed.
LEMMA DiscoverKeeps == ASSUME MergeInv, NEW m \in Mergers, Discover(m) PROVE MergeInv'
<1> DEFINE repo == Head(proc[m].repos)
           found == {p \in Prs : RepoOf[p] = repo /\ Author[p] = "lane" /\ pr[p].open /\ ~pr[p].draft}
           rest == [proc[m] EXCEPT !.repos = Tail(@)]
           y == [rest EXCEPT !.todo = found]
<1>1. /\ proc[m].pc = "discover" /\ Becomes(m, NextOf(y))
      /\ UNCHANGED <<pr, token, landed, qualified, ledger, told, unheard, repoLock>>
  BY Zenon DEF Discover, beyond
<1>2. proc[m] \in Procs /\ proc[m].repos # <<>> /\ ~proc[m].record.merged
  BY Zenon, <1>1 DEF MergeInv, MergeTyped, Order
<1>3. found \in SUBSET Prs
  BY Zenon
<1> HIDE DEF found
<1>4. rest \in Procs
  BY Zenon, <1>2, TailTyped
<1> HIDE DEF rest
<1>5. y \in Procs
  BY Zenon, SMTT(30), <1>3, <1>4 DEF Procs
<1> HIDE DEF y
<1> QED
  BY Zenon, SMTT(30), <1>1, <1>2, <1>5, NextOfBetween, MergerTurns

\* The state of a pull request is read and judged.
LEMMA FetchKeeps == ASSUME MergeInv, NEW m \in Mergers, Fetch(m) PROVE MergeInv'
<1> DEFINE w == proc[m]
           x == [w EXCEPT !.pc = "lock", !.seen = pr[w.pr]]
<1>1. /\ w.pc = "fetch" /\ Becomes(m, x)
      /\ UNCHANGED <<pr, token, landed, qualified, ledger, told, unheard, repoLock>>
  BY Zenon DEF Fetch, beyond
<1>2. w \in Procs /\ w.pr \in Prs /\ ~w.record.merged /\ pr[w.pr] \in PrStates
  BY Zenon, <1>1 DEF MergeInv, MergeTyped, Order
<1> HIDE DEF w
<1>3. x \in Procs /\ x.pc = "lock" /\ x.pr = w.pr /\ x.seen = pr[w.pr] /\ x.record = w.record
  BY Zenon, <1>2 DEF Procs
<1> HIDE DEF x
<1>4. decide(x.pr, x.seen, "app") = "ok" => <<x.pr, x.seen.head>> \in qualified
  BY Zenon, <1>2, <1>3 DEF MergeInv, Passing
<1>5. Order(m, x, repoLock', ledger', landed, qualified)
  BY Zenon, <1>2, <1>3, <1>4 DEF Order
<1>6. repoLock' \in [Repos -> Mergers \cup {NotLocked}]
  BY Zenon, <1>1 DEF MergeInv, MergeTyped
<1> QED
  BY Zenon, <1>1, <1>2, <1>3, <1>5, <1>6, MergerMoves DEF w

\* The lock of the repository is taken.
LEMMA LockKeeps == ASSUME MergeInv, NEW m \in Mergers, Lock(m) PROVE MergeInv'
<1> DEFINE w == proc[m]
           x == [w EXCEPT !.pc = "merge"]
           repo == RepoOf[w.pr]
<1>1. /\ w.pc = "lock" /\ UNCHANGED <<pr, token, landed, qualified, ledger, told, unheard>>
      /\ \/ repoLock[repo] = NotLocked /\ repoLock' = [repoLock EXCEPT ![repo] = m] /\ Becomes(m, x)
         \/ Becomes(m, Onward(w)) /\ UNCHANGED repoLock
  BY Zenon DEF Lock, beyond
<1>2. w \in Procs /\ w.pr \in Prs /\ ~w.record.merged /\ repo \in Repos
  BY Zenon, <1>1 DEF MergeInv, MergeTyped, Order, Repos
<1>3. CASE Becomes(m, Onward(w)) /\ UNCHANGED repoLock
  BY Zenon, SMTT(30), <1>1, <1>2, <1>3, OnwardBetween, MergerTurns
<1>4. CASE repoLock[repo] = NotLocked /\ repoLock' = [repoLock EXCEPT ![repo] = m] /\ Becomes(m, x)
  <2>1. x \in Procs /\ x.pc = "merge" /\ x.pr = w.pr /\ x.seen = w.seen /\ x.record = w.record
    BY Zenon, <1>2 DEF Procs
  <2>2. /\ repoLock' \in [Repos -> Mergers \cup {NotLocked}] /\ repoLock'[repo] = m
        /\ \A r \in Repos : repoLock[r] \notin {m, NotLocked} => repoLock'[r] = repoLock[r]
    BY Zenon, <1>2, <1>4 DEF MergeInv, MergeTyped
  <2>3. decide(w.pr, w.seen, "app") = "ok" => <<w.pr, w.seen.head>> \in qualified
    BY Zenon, <1>1 DEF MergeInv, Order
  <2> HIDE DEF x
  <2>4. Order(m, x, repoLock', ledger', landed, qualified)
    BY Zenon, SMTT(30), <1>2, <2>1, <2>2, <2>3 DEF Order
  <2> QED
    BY Zenon, <1>1, <1>2, <1>4, <2>1, <2>2, <2>4, MergerMoves
<1> QED
  BY Zenon, <1>1, <1>3, <1>4

\* A pull request that fails a gate is passed over.
LEMMA RefuseKeeps == ASSUME MergeInv, NEW m \in Mergers, Refuse(m) PROVE MergeInv'
<1> DEFINE w == proc[m]
           reason == decide(w.pr, w.seen, w.id)
           r == [NoRecord EXCEPT !.pr = w.pr, !.head = w.seen.head, !.reason = reason, !.id = w.id]
           x == [w EXCEPT !.pc = "append", !.record = r]
<1>1. /\ w.pc = "merge" /\ Becomes(m, x)
      /\ UNCHANGED <<pr, token, landed, qualified, ledger, told, unheard, repoLock>>
  BY Zenon DEF Refuse, beyond
<1>2. w \in Procs /\ w.pr \in Prs /\ ~w.record.merged /\ repoLock[RepoOf[w.pr]] = m
  BY Zenon, <1>1 DEF MergeInv, MergeTyped, Order
<1>3. reason \in MergeReasons \cup {"ok", ""}
  BY Zenon, DecideSays
<1> HIDE DEF reason
<1>4. w.seen \in PrStates /\ w.seen.head \in Nat /\ w.id \in Ids
  BY Zenon, <1>2 DEF Procs, PrStates
<1>5. r \in MergeRecords /\ r.merged = FALSE
  BY Zenon, <1>2, <1>3, <1>4, RestingTyped DEF MergeRecords
<1> HIDE DEF r
<1>6. x \in Procs /\ x.pc = "append" /\ x.pr = w.pr /\ x.record = r
  BY Zenon, <1>2, <1>5 DEF Procs
<1> HIDE DEF x
<1>7. Order(m, x, repoLock', ledger', landed, qualified)
  BY Zenon, <1>1, <1>2, <1>5, <1>6 DEF Order
<1>8. repoLock' \in [Repos -> Mergers \cup {NotLocked}]
  BY Zenon, <1>1 DEF MergeInv, MergeTyped
<1> QED
  BY Zenon, <1>1, <1>2, <1>6, <1>7, <1>8, MergerMoves

\* The forge refuses the merge.
LEMMA MergeRefusedKeeps == ASSUME MergeInv, NEW m \in Mergers, MergeRefused(m) PROVE MergeInv'
<1>1. /\ proc[m].pc = "merge" /\ Becomes(m, Onward(proc[m])) /\ repoLock' = Released(m)
      /\ UNCHANGED <<pr, token, landed, qualified, ledger, told, unheard>>
  BY Zenon, SMTT(30) DEF MergeRefused, beyond
<1>2. proc[m] \in Procs /\ ~proc[m].record.merged
  BY Zenon, <1>1 DEF MergeInv, MergeTyped, Order
<1> QED
  BY Zenon, <1>1, <1>2, OnwardBetween, MergerTurns

\* The outcome of the merge is read back.
LEMMA ReadOutcomeKeeps == ASSUME MergeInv, NEW m \in Mergers, ReadOutcome(m) PROVE MergeInv'
<1> DEFINE w == proc[m]
<1>1. /\ w.pc = "outcome"
      /\ UNCHANGED <<pr, token, landed, qualified, ledger, told, unheard, repoLock>>
      /\ \/ \E l \in landed : l.pr = w.pr /\ Becomes(m, [w EXCEPT !.pc = "append", !.record.by = l.by])
         \/ Becomes(m, [w EXCEPT !.pc = "append"])
  BY Zenon DEF ReadOutcome, beyond
<1>2. /\ w \in Procs /\ w.pr \in Prs /\ w.record \in MergeRecords /\ repoLock[RepoOf[w.pr]] = m
      /\ w.record.merged /\ w.record.pr = w.pr /\ w.record.id = "app"
  BY Zenon, <1>1 DEF MergeInv, MergeTyped, Order, Procs
<1>3. PICK k \in landed : k.pr = w.pr /\ k.head = w.record.head /\ w.record.by \in {"", k.by}
  BY Zenon, <1>1, <1>2 DEF MergeInv, Order
<1>4. repoLock' \in [Repos -> Mergers \cup {NotLocked}]
  BY Zenon, <1>1 DEF MergeInv, MergeTyped
<1>5. ASSUME NEW x \in Procs, Becomes(m, x), x.pc = "append", x.pr = w.pr, x.record.merged,
             x.record.pr = w.pr, x.record.id = "app", x.record.head = w.record.head,
             x.record.by \in {"", k.by}
      PROVE  MergeInv'
  <2>1. Order(m, x, repoLock', ledger', landed, qualified)
    BY Zenon, <1>1, <1>2, <1>3, <1>5 DEF Order
  <2> QED
    BY Zenon, <1>1, <1>2, <1>4, <1>5, <2>1, MergerMoves
<1>6. ASSUME NEW l \in landed, l.pr = w.pr, Becomes(m, [w EXCEPT !.pc = "append", !.record.by = l.by])
      PROVE  MergeInv'
  <2> DEFINE r == [w.record EXCEPT !.by = l.by]
             x == [w EXCEPT !.pc = "append", !.record = r]
  <2>1. l = k /\ l.by \in Ids
    BY Zenon, <1>3, <1>6 DEF MergeInv, LandedInv, MergeTyped
  <2>2. r \in MergeRecords /\ r.merged = w.record.merged /\ r.pr = w.record.pr /\ r.id = w.record.id
        /\ r.head = w.record.head /\ r.by = l.by
    BY Zenon, <1>2, <2>1 DEF MergeRecords
  <2>3. x = [w EXCEPT !.pc = "append", !.record.by = l.by]
    BY Zenon, <1>2 DEF Procs
  <2> HIDE DEF r, w
  <2>4. x \in Procs /\ x.pc = "append" /\ x.pr = w.pr /\ x.record = r
    BY Zenon, <1>2, <2>2 DEF Procs
  <2>5. Becomes(m, x)
    BY Zenon, <1>6, <2>3
  <2> HIDE DEF x
  <2> QED
    BY Zenon, <1>2, <1>5, <2>1, <2>2, <2>4, <2>5
<1>7. CASE Becomes(m, [w EXCEPT !.pc = "append"])
  <2> DEFINE x == [w EXCEPT !.pc = "append"]
  <2> HIDE DEF w
  <2>1. x \in Procs /\ x.pc = "append" /\ x.pr = w.pr /\ x.record = w.record
    BY Zenon, <1>2 DEF Procs
  <2>2. Becomes(m, x)
    BY Zenon, SMTT(30), <1>7
  <2> HIDE DEF x
  <2> QED
    BY Zenon, <1>2, <1>3, <1>5, <2>1, <2>2
<1> QED
  BY Zenon, <1>1, <1>6, <1>7

\* The ledger line is appended.
LEMMA AppendRecordKeeps == ASSUME MergeInv, NEW m \in Mergers, AppendRecord(m) PROVE MergeInv'
<1> DEFINE w == proc[m]
           x == IF ~w.record.merged THEN NextOf(w)
                ELSE IF m = "merged" THEN [w EXCEPT !.pc = "notify"] ELSE Resting
<1>1. /\ w.pc = "append" /\ ledger' = ledger \cup {w.record} /\ repoLock' = Released(m) /\ Becomes(m, x)
      /\ UNCHANGED <<pr, token, landed, qualified, told, unheard>>
  BY Zenon DEF AppendRecord, beyond
<1>2. /\ w \in Procs /\ w.pr \in Prs
      /\ w.record.merged =>
           /\ w.record.pr = w.pr /\ w.record.id = "app"
           /\ \E l \in landed : l.pr = w.pr /\ l.head = w.record.head /\ w.record.by \in {"", l.by}
  BY Zenon, <1>1 DEF MergeInv, MergeTyped, Order
<1>3. /\ repoLock' \in [Repos -> Mergers \cup {NotLocked}]
      /\ \A r \in Repos : repoLock[r] \notin {m, NotLocked} => repoLock'[r] = repoLock[r]
  BY Zenon, <1>1 DEF MergeInv, MergeTyped, Released
<1>4. x \in Procs /\ Order(m, x, repoLock', ledger', landed, qualified)
  <2>1. CASE ~w.record.merged
    <3>1. x = NextOf(w)
      BY Zenon, <2>1
    <3> QED
      BY Zenon, <1>2, <3>1, NextOfBetween, BetweenIsOrder DEF Between
  <2>2. CASE w.record.merged /\ m = "merged"
    <3> DEFINE y == [w EXCEPT !.pc = "notify"]
    <3>1. x = y
      BY Zenon, <2>2
    <3> HIDE DEF w, x
    <3>2. y \in Procs /\ y.pc = "notify" /\ y.pr = w.pr /\ y.record = w.record
      BY Zenon, <1>2 DEF Procs
    <3> HIDE DEF y
    <3>3. Order(m, y, repoLock', ledger', landed, qualified)
      BY Zenon, <1>1, <1>2, <2>2, <3>2 DEF Order
    <3> QED
      BY Zenon, <3>1, <3>2, <3>3
  <2>3. CASE w.record.merged /\ m # "merged"
    <3>1. x = Resting
      BY Zenon, SMTT(30), <2>3
    <3> QED
      BY Zenon, SMTT(30), <3>1, RestingBetween, BetweenIsOrder DEF Between
  <2> QED
    BY Zenon, <2>1, <2>2, <2>3
<1> HIDE DEF x, w
<1>5. \A y \in ledger' \ ledger : y.merged =>
        y.id = "app" /\ \E l \in landed : l.pr = y.pr /\ l.head = y.head /\ y.by \in {"", l.by}
  BY Zenon, <1>1, <1>2
<1>6. w.record.merged => \E y \in ledger' : y.merged /\ y.pr = w.pr
  BY Zenon, <1>1, <1>2
<1> QED
  BY Zenon, <1>1, <1>3, <1>4, <1>5, <1>6, MergerMoves DEF w

\* The merge is announced and the lock released.
LEMMA NotifyKeeps == ASSUME MergeInv, NEW m \in Mergers, Notify(m) PROVE MergeInv'
<1> DEFINE w == proc[m]
           x == Onward(w)
<1>1. /\ w.pc = "notify" /\ Becomes(m, x)
      /\ told' \subseteq told \cup {[lane |-> l, pr |-> w.pr] : l \in NamedBy[w.pr]}
      /\ UNCHANGED <<pr, token, landed, qualified, ledger, unheard, repoLock>>
  BY Zenon, SMTT(30) DEF Notify, beyond
<1>2. w \in Procs /\ \E y \in ledger : y.merged /\ y.pr = w.pr
  BY Zenon, <1>1 DEF MergeInv, MergeTyped, Order
<1>3. x \in Procs /\ Order(m, x, repoLock', ledger', landed, qualified)
  BY Zenon, SMTT(30), <1>2, OnwardBetween, BetweenIsOrder DEF Between
<1>4. \A t \in told' \ told : t.pr = w.pr
  BY SMTT(30), <1>1
<1>5. repoLock' \in [Repos -> Mergers \cup {NotLocked}]
  BY Zenon, SMTT(30), <1>1 DEF MergeInv, MergeTyped
<1> HIDE DEF x
<1> QED
  BY Zenon, <1>1, <1>2, <1>3, <1>4, <1>5, MergerMoves

\* A call to the forge fails.
LEMMA CallFailsKeeps == ASSUME MergeInv, NEW m \in Mergers, CallFails(m) PROVE MergeInv'
<1> DEFINE w == proc[m]
           y == [w EXCEPT !.repos = Tail(@)]
<1>1. /\ w.pc \in {"discover", "fetch"} /\ Becomes(m, IF w.pc = "discover" THEN Onward(y) ELSE Onward(w))
      /\ UNCHANGED <<pr, token, landed, qualified, ledger, told, unheard, repoLock>>
  BY Zenon DEF CallFails, beyond
<1>2. w \in Procs /\ ~w.record.merged /\ (w.pc = "discover" => w.repos # <<>>)
  BY Zenon, <1>1 DEF MergeInv, MergeTyped, Order
<1> HIDE DEF w
<1>3. w.pc = "discover" => y \in Procs
  BY Zenon, <1>2, TailTyped
<1> HIDE DEF y
<1> QED
  BY Zenon, SMTT(30), <1>1, <1>2, <1>3, OnwardBetween, MergerTurns DEF w

\* The process ends between two of its writes.
LEMMA MergerDiesKeeps == ASSUME MergeInv, NEW m \in Mergers, MergerDies(m) PROVE MergeInv'
<1>1. /\ Becomes(m, Resting) /\ repoLock' = Released(m)
      /\ unheard' = unheard \cup {p \in {proc[m].pr} : proc[m].record.merged}
      /\ UNCHANGED <<pr, token, landed, qualified, ledger, told>>
  BY Zenon DEF MergerDies, beyond
<1> QED
  BY Zenon, SMTT(30), <1>1, RestingBetween, MergerTurns

\* GitHub merges the commit that was decided on.
LEMMA MergeKeeps == ASSUME MergeInv, NEW m \in Mergers, Merge(m) PROVE MergeInv'
<1> DEFINE w == proc[m]
           new == [pr |-> w.pr, head |-> pr[w.pr].head, by |-> token]
           r == [NoRecord EXCEPT !.pr = w.pr, !.head = w.seen.head, !.reason = "ok", !.id = w.id, !.merged = TRUE]
           y == [w EXCEPT !.pc = "outcome", !.record = r]
<1>1. /\ w.pc = "merge" /\ decide(w.pr, w.seen, w.id) = "ok" /\ Accepts(w.pr, w.seen.head)
      /\ pr' = [pr EXCEPT ![w.pr].open = FALSE] /\ landed' = landed \cup {new}
      /\ UNCHANGED <<token, ledger, told, qualified>>
      /\ \/ Becomes(m, y) /\ UNCHANGED <<repoLock, unheard>>
         \/ Becomes(m, Onward(w)) /\ repoLock' = Released(m) /\ unheard' = unheard \cup {w.pr}
  BY Zenon DEF Merge
<1>2. /\ w \in Procs /\ w.pr \in Prs /\ ~w.record.merged /\ repoLock[RepoOf[w.pr]] = m
      /\ RepoOf[w.pr] \in Repos
      /\ decide(w.pr, w.seen, "app") = "ok" => <<w.pr, w.seen.head>> \in qualified
  BY Zenon, <1>1 DEF MergeInv, MergeTyped, Order, Repos
<1>3. w.id = "app" /\ pr[w.pr].head = w.seen.head /\ pr[w.pr].open /\ <<w.pr, w.seen.head>> \in qualified
  BY SMTT(30), <1>1, <1>2, DecideSays DEF Accepts
<1>4. /\ pr' \in [Prs -> PrStates] /\ pr'[w.pr].open = FALSE
      /\ \A p \in Prs \ {w.pr} : pr'[p] = pr[p]
  <2> DEFINE c == [pr[w.pr] EXCEPT !.open = FALSE]
  <2>1. pr[w.pr] \in PrStates
    BY Zenon, <1>2 DEF MergeInv, MergeTyped
  <2>2. c \in PrStates /\ c.open = FALSE
    BY Zenon, <2>1 DEF PrStates
  <2>3. pr' = [pr EXCEPT ![w.pr] = c]
    BY Zenon, <1>1, <1>2 DEF MergeInv, MergeTyped
  <2> HIDE DEF c, w
  <2> QED
    BY Zenon, SMTT(30), <1>2, <2>2, <2>3 DEF MergeInv, MergeTyped
<1>5. /\ new.pr = w.pr /\ new.head = w.seen.head /\ new.by \in Ids
  BY Zenon, <1>3 DEF MergeInv, MergeTyped, Ids
<1>6. w.seen.head \in Nat
  BY Zenon, <1>2 DEF Procs, PrStates
<1> HIDE DEF w, new
<1>7. r \in MergeRecords /\ r.merged = TRUE /\ r.pr = w.pr /\ r.head = w.seen.head /\ r.id = "app" /\ r.by = ""
  <2>1. NoRecord.by = ""
    BY Zenon DEF NoRecord
  <2> QED
    BY Zenon, <1>2, <1>3, <1>6, <2>1, RestingTyped DEF MergeRecords, Ids
<1> HIDE DEF r
<1>8. y \in Procs /\ y.pc = "outcome" /\ y.pr = w.pr /\ y.record = r
  BY Zenon, <1>2, <1>7 DEF Procs
<1> HIDE DEF y
<1>9. PICK x \in Procs :
        /\ Becomes(m, x) /\ Order(m, x, repoLock', ledger', landed', qualified')
        /\ repoLock' \in [Repos -> Mergers \cup {NotLocked}]
        /\ \A s \in Repos : repoLock[s] \notin {m, NotLocked} => repoLock'[s] = repoLock[s]
        /\ unheard \subseteq unheard'
        /\ \/ x.record.merged /\ x.pr = w.pr /\ repoLock'[RepoOf[w.pr]] = m
           \/ w.pr \in unheard'
  <2>1. CASE Becomes(m, y) /\ UNCHANGED <<repoLock, unheard>>
    <3>1. Order(m, y, repoLock', ledger', landed', qualified')
      BY Zenon, <1>1, <1>2, <1>5, <1>7, <1>8, <2>1 DEF Order
    <3>2. repoLock' \in [Repos -> Mergers \cup {NotLocked}]
      BY Zenon, SMTT(30), <2>1 DEF MergeInv, MergeTyped
    <3> QED
      BY Zenon, <1>2, <1>7, <1>8, <2>1, <3>1, <3>2
  <2>2. CASE Becomes(m, Onward(w)) /\ repoLock' = Released(m) /\ unheard' = unheard \cup {w.pr}
    <3>1. Onward(w) \in Procs /\ Order(m, Onward(w), repoLock', ledger', landed', qualified')
      BY Zenon, SMTT(30), <1>2, OnwardBetween, BetweenIsOrder DEF Between
    <3>2. /\ repoLock' \in [Repos -> Mergers \cup {NotLocked}]
          /\ \A s \in Repos : repoLock[s] \notin {m, NotLocked} => repoLock'[s] = repoLock[s]
      BY Zenon, SMTT(30), <2>2 DEF MergeInv, MergeTyped, Released
    <3> QED
      BY Zenon, SMTT(30), <2>2, <3>1, <3>2
  <2> QED
    BY Zenon, <1>1, <2>1, <2>2
<1>10. proc'[m] = x /\ (\A k \in Mergers \ {m} : proc'[k] = proc[k]) /\ proc' \in [Mergers -> Procs]
  BY Zenon, <1>9 DEF MergeInv, MergeTyped, Becomes
<1>11. MergeTyped'
  BY Zenon, SMTT(30), <1>1, <1>4, <1>5, <1>9, <1>10 DEF MergeInv, MergeTyped
<1>12. NotLocked \notin Mergers
  BY Zenon DEF NotLocked, Mergers
<1>13. ASSUME NEW k \in Mergers PROVE Order(k, proc'[k], repoLock', ledger', landed', qualified')
  <2>1. CASE k = m
    BY Zenon, <1>9, <1>10, <2>1
  <2>2. CASE k # m
    <3>1. landed \subseteq landed' /\ ledger \subseteq ledger' /\ qualified \subseteq qualified'
      BY Zenon, SMTT(30), <1>1
    <3>2. Order(k, proc[k], repoLock', ledger', landed', qualified')
      BY Zenon, <1>9, <2>2, <3>1, OthersKeepOrder
    <3> QED
      BY Zenon, <1>10, <2>2, <3>2
  <2> QED
    BY Zenon, SMTT(30), <2>1, <2>2
<1>14. LandedInv'
  <2>1. \A l \in landed : l.pr # w.pr
    BY Zenon, <1>3 DEF MergeInv, LandedInv
  <2> QED
    BY <1>1, <1>2, <1>4, <1>5, <2>1 DEF MergeInv, LandedInv
<1>15. Passing(pr') \subseteq qualified'
  <2>1. \A p \in Prs : decide(p, pr'[p], "app") = "ok" => p # w.pr
    BY <1>4, DecideSays
  <2> QED
    BY Zenon, <1>1, <1>4, <2>1 DEF MergeInv, Passing
<1>16. VerifiedIsWhatLands'
  BY Zenon, <1>1, <1>3, <1>5 DEF MergeInv, VerifiedIsWhatLands
<1>17. LedgerIsTrue'
  <2>1. \A z \in {z \in ledger' : z.merged} :
          z.id = "app" /\ \E l \in landed' : l.pr = z.pr /\ l.head = z.head /\ z.by \in {"", l.by}
    BY Zenon, <1>1 DEF MergeInv, LedgerIsTrue
  <2>2. ASSUME NEW l \in landed'
        PROVE  \/ \E z \in ledger' : z.merged /\ z.pr = l.pr
               \/ \E k \in Mergers : proc'[k].record.merged /\ proc'[k].pr = l.pr /\ repoLock'[RepoOf[l.pr]] = k
               \/ l.pr \in unheard'
    <3>1. CASE l = new
      BY Zenon, SMTT(30), <1>5, <1>9, <1>10, <3>1
    <3>2. CASE l \in landed
      <4>1. RepoOf[l.pr] \in Repos
        BY Zenon, SMTT(30), <3>2 DEF MergeInv, LandedInv, Repos
      <4>2. CASE \E k \in Mergers : proc[k].record.merged /\ proc[k].pr = l.pr /\ repoLock[RepoOf[l.pr]] = k
        <5>1. PICK k \in Mergers : proc[k].record.merged /\ proc[k].pr = l.pr /\ repoLock[RepoOf[l.pr]] = k
          BY Zenon, <4>2
        <5>2. k # m
          BY Zenon, <1>2, <5>1 DEF w
        <5> QED
          BY SMTT(30), <1>9, <1>10, <1>12, <4>1, <5>1, <5>2
      <4> QED
        BY Zenon, <1>1, <1>9, <3>2, <4>2 DEF MergeInv, LedgerIsTrue
    <3> QED
      BY Zenon, SMTT(30), <1>1, <3>1, <3>2
  <2>3. \A t \in told' : \E z \in ledger' : z.merged /\ z.pr = t.pr
    BY Zenon, <1>1 DEF MergeInv, LedgerIsTrue
  <2> QED
    BY Zenon, <2>1, <2>2, <2>3 DEF LedgerIsTrue
<1> QED
  BY Zenon, SMTT(30), <1>11, <1>13, <1>14, <1>15, <1>16, <1>17 DEF MergeInv

\* A pull request changes into another state of one.
LEMMA ChangedTyped == ASSUME NEW s \in PrStates PROVE Changed(s) \subseteq PrStates
<1>1. ASSUME NEW b \in BOOLEAN
      PROVE  /\ [s EXCEPT !.green = b] \in PrStates
             /\ [s EXCEPT !.held = b, !.fresh = TRUE] \in PrStates
             /\ [s EXCEPT !.draft = b, !.fresh = TRUE] \in PrStates
             /\ [s EXCEPT !.fresh = b] \in PrStates /\ [s EXCEPT !.open = b] \in PrStates
  BY Zenon DEF PrStates
<1>2. s.head + 1 \in Nat /\ s.green \in BOOLEAN /\ s.held \in BOOLEAN /\ s.draft \in BOOLEAN
  BY DEF PrStates
<1>3. [s EXCEPT !.head = s.head + 1, !.green = FALSE, !.fresh = TRUE] \in PrStates
  BY Zenon, <1>2 DEF PrStates
<1>4. \A t \in {"CLEAN", "BEHIND", "CONFLICTING"} : [s EXCEPT !.status = t] \in PrStates
  BY Zenon DEF PrStates
<1>5. (~s.green) \in BOOLEAN /\ (~s.held) \in BOOLEAN /\ (~s.draft) \in BOOLEAN
  BY Zenon
<1>6. /\ [s EXCEPT !.green = ~s.green] \in PrStates
      /\ [s EXCEPT !.held = ~s.held, !.fresh = TRUE] \in PrStates
      /\ [s EXCEPT !.draft = ~s.draft, !.fresh = TRUE] \in PrStates
      /\ [s EXCEPT !.fresh = FALSE] \in PrStates /\ [s EXCEPT !.open = FALSE] \in PrStates
  BY Zenon, <1>1, <1>5
<1> QED
  BY Zenon, <1>3, <1>4, <1>6 DEF Changed

\* Somebody changes a pull request.
LEMMA PrChangesKeeps == ASSUME MergeInv, NEW p \in Prs, PrChanges(p) PROVE MergeInv'
<1>1. /\ pr[p].open /\ qualified' = qualified \cup Passing(pr')
      /\ UNCHANGED <<token, repoLock, proc, ledger, told, landed, unheard>>
  BY Zenon DEF PrChanges
<1>2. PICK s \in Changed(pr[p]) : pr' = [pr EXCEPT ![p] = s]
  BY Zenon DEF PrChanges
<1>3. s \in PrStates
  BY Zenon, ChangedTyped DEF MergeInv, MergeTyped
<1>4. pr' \in [Prs -> PrStates] /\ \A q \in Prs \ {p} : pr'[q] = pr[q]
  BY Zenon, <1>2, <1>3 DEF MergeInv, MergeTyped
<1>5. MergeTyped'
  BY Zenon, <1>1, <1>4 DEF MergeInv, MergeTyped
<1>6. LandedInv'
  BY Zenon, <1>1, <1>4 DEF MergeInv, LandedInv
<1>7. ASSUME NEW m \in Mergers PROVE Order(m, proc'[m], repoLock', ledger', landed', qualified')
  <2>1. Order(m, proc[m], repoLock, ledger, landed, qualified) /\ proc[m] \in Procs
    BY Zenon DEF MergeInv, MergeTyped
  <2>2. qualified \subseteq qualified'
    BY Zenon, SMTT(30), <1>1
  <2> HIDE DEF Order
  <2>3. Order(m, proc[m], repoLock, ledger, landed, qualified')
    BY Zenon, <2>1, <2>2, OrderGrows
  <2> QED
    BY Zenon, <1>1, <2>3
<1> QED
  BY Zenon, <1>1, <1>5, <1>6, <1>7 DEF MergeInv, VerifiedIsWhatLands, LedgerIsTrue

\* The token changes, or nothing does.
LEMMA TokenChangesKeeps == ASSUME MergeInv, TokenChanges \/ UNCHANGED mergeVars PROVE MergeInv'
<1>1. /\ UNCHANGED <<pr, repoLock, proc, ledger, told, landed, unheard, qualified>>
      /\ token' \in {"app", "user", "none"}
  BY Zenon, SMTT(30) DEF TokenChanges, mergeVars, MergeInv, MergeTyped
<1>2. MergeTyped' /\ LandedInv' /\ VerifiedIsWhatLands' /\ LedgerIsTrue'
  BY Zenon, <1>1 DEF MergeInv, MergeTyped, LandedInv, VerifiedIsWhatLands, LedgerIsTrue
<1>3. \A m \in Mergers : Order(m, proc'[m], repoLock', ledger', landed', qualified')
  BY Zenon, <1>1 DEF MergeInv
<1> QED
  BY Zenon, SMTT(30), <1>1, <1>2, <1>3 DEF MergeInv

\* Every step preserves the invariant.
LEMMA MergeStep == MergeInv /\ [MergeNext]_mergeVars => MergeInv'
  BY Zenon, SMTT(30), BeginKeeps, DiscoverKeeps, FetchKeeps, LockKeeps, RefuseKeeps, MergeKeeps, MergeRefusedKeeps,
     ReadOutcomeKeeps, AppendRecordKeeps, NotifyKeeps, CallFailsKeeps, MergerDiesKeeps, PrChangesKeeps,
     TokenChangesKeeps DEF MergeNext

\* For any pull requests, repositories, authors and allowlist, and any number of passes, calls,
\* changes and crashes: whatever is merged is a commit the policy once let through, and the ledger
\* and GitHub agree on it (merge, merged, merge_cli).
THEOREM MergesAreAccounted == MergeSpec => []MergesAreAccountedFor
<1>1. MergeSpec => []MergeInv
  BY MergeInitHolds, MergeStep, PTL DEF MergeSpec
<1>2. MergeInv => MergesAreAccountedFor
  BY Zenon DEF MergeInv, MergesAreAccountedFor
<1> QED
  BY <1>1, <1>2, PTL

=============================================================================
