---------------------------- MODULE MCCompletion ----------------------------
(***************************************************************************)
(* LaneLock and CompletionPipeline for TLC.  A behavior is one of a single *)
(* component, "part"; the variables of the other keep their initial        *)
(* values.                                                                 *)
(***************************************************************************)
EXTENDS LaneLock, CompletionPipeline

VARIABLE part           \* the component this behavior is about (never changes)

PassesAt == [i \in Items |-> IF i = "i1" THEN {0, 1} ELSE {0}]

allVars == <<part, vars, pipelineVars>>

MCInit ==
    /\ part \in {"pipeline", "lock"}
    /\ PipelineInit /\ (part = "lock" => ~separate)
    /\ Init

InPipeline == part = "pipeline" /\ UNCHANGED <<part, vars>>
InLock == part = "lock" /\ UNCHANGED <<part, pipelineVars>>

MCNext == (InPipeline /\ PipelineNext) \/ (InLock /\ Next)

\* The fairness of the components' own specifications.
MCSpec ==
    /\ MCInit /\ [][MCNext]_allVars
    /\ WF_allVars(InPipeline /\ PassStep) /\ WF_allVars(InPipeline /\ WorkerStep)
    /\ WF_allVars(InPipeline /\ MarkStep) /\ WF_allVars(InPipeline /\ ReviewWorker)
    /\ WF_allVars(InPipeline /\ RetryDue)
    /\ \A p \in Procs : WF_allVars(InLock /\ Step(p))
=============================================================================
