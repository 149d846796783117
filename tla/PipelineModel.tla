---------------------------- MODULE PipelineModel ----------------------------
(***************************************************************************)
(* The vocabulary of internal/pipeline shared by the execution modules:    *)
(* stage statuses, continue conditions, dependency graphs.  A stage is an  *)
(* element of Stage; only what decides scheduling is kept of it.           *)
(***************************************************************************)
EXTENDS FiniteSets, Naturals, Sequences

CONSTANT Stage      \* the stages of the pipeline, by name

ASSUME StageAssumption == Stage # {} /\ IsFiniteSet(Stage)

-----------------------------------------------------------------------------
Terminal    == {"success", "failed", "skipped", "canceled"}
StageStatus == {"pending", "running"} \cup Terminal

ContinueCondition == {"success", "failure", "always"}

\* Does a sequential fail-fast pipeline go on after a stage that returned no
\* error?  The empty condition of the YAML means "success".
shouldContinue(cond, status) ==
    \/ cond = "always"
    \/ cond = "failure" /\ status = "failed"
    \/ cond = "success" /\ status = "success"

\* Faulty: only failed stages count.
failedOnlyStatus(statuses) == IF "failed" \in statuses THEN "failed" ELSE "success"

\* The status of a pipeline from the statuses of its recorded stages.
determineOverallStatus(statuses) ==
    IF "canceled" \in statuses THEN "canceled"
    ELSE IF "failed" \in statuses THEN "failed"
    ELSE "success"

\* A dependency relation is acyclic when every non-empty set of stages has a
\* member that depends on no member of the set.
Acyclic(deps) ==
    \A S \in (SUBSET Stage) \ {{}} : \E s \in S : deps[s] \cap S = {}

\* The graphs Pipeline.Validate lets through: known stages, no cycle.
ValidDependencies == {deps \in [Stage -> SUBSET Stage] : Acyclic(deps)}
=============================================================================
