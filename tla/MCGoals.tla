------------------------------- MODULE MCGoals -------------------------------
(***************************************************************************)
(* GoalRecords, GoalEnrollment, LaneAnchor, Questions, Receipts,           *)
(* MergeGate, Petra and Ownership for TLC: what a goal goes through from   *)
(* its enrollment to the merge of its work, and who is told of it.  They   *)
(* are checked side by side: a behavior is one of a single component, and  *)
(* the variables of the others keep their initial values.                  *)
(***************************************************************************)
EXTENDS GoalRecords, GoalEnrollment, LaneAnchor, Questions, Receipts, MergeGate, Petra

VARIABLE part           \* the component this behavior is about

LaneIds == [s \in Sessions |-> IF s = "a" THEN "L" ELSE IF s = "ay" THEN "Ly" ELSE "Lx"]
SuccessorRefs == [s \in Sessions |-> IF s = "a" THEN <<"ax", "ay">> ELSE <<>>]
KindOf == [c \in Commands |-> c]
Asked == <<"denied", "open">>

Full(name, content) ==
    [status |-> "PASS", evidence |-> [f \in Files |-> IF f = name THEN content ELSE 0], tree |-> 0]
OldReceipt == Full("out", 10)
NewReceipts == {Full("rep", 20)}

OneRepo == [p \in Prs |-> "r"]
LaneAuthor == [p \in Prs |-> "lane"]
PrsOf == [p \in Prs |-> IF p = 1 THEN {"a"} ELSE {"a", "b"}]
TwoRepos == <<"r", "s">>

LaneOfSession == [s \in SessionRefs |-> "L"]

TwoProviders == INSTANCE Ownership WITH
        Providers <- {"p", "q"}, MaxTime <- 0, MaxAsks <- 2

allVars == <<part, recordsVars, enrollmentVars, anchorVars, questionsVars, receiptsVars,
        mergeVars, petraVars>>

MCInit ==
    /\ part \in {"records", "enrollment", "anchor", "questions", "receipts", "merges",
        "petra", "ownership"}
    /\ RecordsInit /\ (part # "records" => rec = Absent)
    /\ EnrollmentInit
    /\ AnchorInit /\ (part # "anchor" => atOnce = 1)
    /\ QuestionsInit
    /\ ReceiptsInit /\ (part # "receipts" => enrolled = {"a"})
    /\ MergeInit /\ (part # "merges" => token = "app")
    /\ IF part = "ownership" THEN TwoProviders!OwnershipInit /\ LedgerInit ELSE PetraInit

MCNext ==
    \/ part = "records" /\ RecordsNext
       /\ UNCHANGED <<part, enrollmentVars, anchorVars, questionsVars, receiptsVars,
        mergeVars, petraVars>>
    \/ part = "enrollment" /\ EnrollmentNext
       /\ UNCHANGED <<part, recordsVars, anchorVars, questionsVars, receiptsVars,
        mergeVars, petraVars>>
    \/ part = "anchor" /\ AnchorNext
       /\ UNCHANGED <<part, recordsVars, enrollmentVars, questionsVars, receiptsVars,
        mergeVars, petraVars>>
    \/ part = "questions" /\ QuestionsNext
       /\ UNCHANGED <<part, recordsVars, enrollmentVars, anchorVars, receiptsVars,
        mergeVars, petraVars>>
    \/ part = "receipts" /\ ReceiptsNext
       /\ UNCHANGED <<part, recordsVars, enrollmentVars, anchorVars, questionsVars,
        mergeVars, petraVars>>
    \/ part = "merges" /\ MergeNext
       /\ UNCHANGED <<part, recordsVars, enrollmentVars, anchorVars, questionsVars,
        receiptsVars, petraVars>>
    \/ part = "petra" /\ PetraNext
       /\ UNCHANGED <<part, recordsVars, enrollmentVars, anchorVars, questionsVars,
        receiptsVars, mergeVars>>
    \/ part = "ownership" /\ TwoProviders!OwnershipNext
       /\ UNCHANGED <<part, recordsVars, enrollmentVars, anchorVars, questionsVars,
        receiptsVars, mergeVars, advisory, past>>

MCSpec == MCInit /\ [][MCNext]_allVars
=============================================================================
