------------------------- MODULE SequentialExecutor -------------------------
(***************************************************************************)
(* DefaultExecutor.Execute for a pipeline with Parallel unset: validation  *)
(* (the search of CycleCheck), the execution order (TopologicalSort), then *)
(* executeSequential.  One goroutine; the context is canceled around it.   *)
(***************************************************************************)
EXTENDS CycleCheck, TopologicalSort

VARIABLES
    failFast,   \* pipeline.FailFast
    dryRun,     \* opts.DryRun
    ctx,        \* "live", or "done" once canceled or timed out
    phase,      \* where Execute is
    current,    \* position in order of the stage at hand
    outcome,    \* what executeStage returned for the stage at hand
    continueOn, \* the continue_on conditions consulted so far
    completed,  \* completed[s]: status of s, "pending" if absent
    results,    \* result.Stages, by name
    verdict     \* "none", then the Status of the result; "invalid" for none

pipeline == <<deps, failFast, dryRun>>
run  == <<current, outcome, continueOn, completed, results>>
vars == <<pipeline, search, sort, ctx, phase, run, verdict>>

-----------------------------------------------------------------------------
Phase == {"validate", "sort", "loop", "begin", "running", "ended",
          "finished", "stopped", "returned"}

Completed == {s \in Stage : completed[s] # "pending"}
Recorded  == {results[i] : i \in 1..Len(results)}

\* The runners of runner.go return an error exactly with these.
IsError(status) == status \in {"failed", "canceled"}

Init ==
    /\ deps \in DependencyLists
    /\ SearchInit
    /\ inDegree = [s \in Stage |-> 0] /\ queue = <<>> /\ order = <<>>
    /\ failFast \in BOOLEAN
    /\ dryRun \in BOOLEAN
    /\ ctx = "live"
    /\ phase = "validate"
    /\ current = 1
    /\ outcome = "pending"
    /\ continueOn = [s \in Stage |-> "unread"]
    /\ completed = [s \in Stage |-> "pending"]
    /\ results = <<>>
    /\ verdict = "none"

\* The caller cancels the context, or the pipeline's timeout expires.
Cancel ==
    /\ ctx = "live" /\ ctx' = "done"
    /\ UNCHANGED <<pipeline, search, sort, phase, run, verdict>>

-----------------------------------------------------------------------------
(* Before the stages.                                                      *)

Validate ==
    /\ phase = "validate" /\ SearchStep
    /\ UNCHANGED <<failFast, dryRun, sort, ctx, phase, run, verdict>>

\* Execute returns an empty result for a pipeline that does not validate.
Reject ==
    /\ phase = "validate" /\ cycle
    /\ phase' = "returned" /\ verdict' = "invalid"
    /\ UNCHANGED <<pipeline, search, sort, ctx, run>>

StartSort ==
    /\ phase = "validate" /\ SearchDone /\ ~cycle
    /\ phase' = "sort" /\ SortInit
    /\ UNCHANGED <<pipeline, search, ctx, run, verdict>>

Sort ==
    /\ phase = "sort" /\ Dequeue
    /\ UNCHANGED <<pipeline, search, ctx, phase, run, verdict>>

FinishSort ==
    /\ phase = "sort" /\ queue = <<>>
    /\ IF SortFails
       THEN phase' = "returned" /\ verdict' = "failed"
       ELSE phase' = "loop" /\ UNCHANGED verdict
    /\ UNCHANGED <<pipeline, search, sort, ctx, run>>

-----------------------------------------------------------------------------
(* executeSequential.                                                      *)

\* Top of the loop: all stages done, context done, or take the next stage.
Loop ==
    /\ phase = "loop"
    /\ phase' = IF current > Len(order) THEN "finished"
                ELSE IF ctx = "done" THEN "stopped"
                ELSE "begin"
    /\ UNCHANGED <<pipeline, search, sort, ctx, run, verdict>>

\* executeStage up to the runner: a dry run skips the stage, a runner that
\* finds its context (or the stage's own timeout) done gives up.
BeginStage ==
    /\ phase = "begin"
    /\ \/ /\ ~dryRun /\ ctx = "live"
          /\ phase' = "running" /\ UNCHANGED outcome
       \/ /\ phase' = "ended"
          /\ outcome' = IF dryRun THEN "skipped" ELSE "canceled"
    /\ UNCHANGED <<pipeline, search, sort, ctx, current, continueOn, completed, results, verdict>>

EndStage(status) ==
    /\ phase = "running"
    /\ phase' = "ended" /\ outcome' = status
    /\ UNCHANGED <<pipeline, search, sort, ctx, current, continueOn, completed, results, verdict>>

\* The result is recorded; then an error ends a fail-fast run, and so does a
\* continue condition that does not hold.  The condition of a stage is read
\* here only, so its value is chosen here.
Conclude(cond) ==
    /\ phase = "ended"
    /\ LET s == order[current]
           stop == failFast /\ (IsError(outcome) \/ ~shouldContinue(cond, outcome))
       IN  /\ results' = Append(results, s)
           /\ completed' = [completed EXCEPT ![s] = outcome]
           /\ continueOn' = [continueOn EXCEPT ![s] = IF IsError(outcome) THEN @ ELSE cond]
           /\ phase' = IF stop THEN "stopped" ELSE "loop"
    /\ current' = current + 1
    /\ outcome' = "pending"
    /\ UNCHANGED <<pipeline, search, sort, ctx, verdict>>

\* Faulty: the error of executeSequential is dropped.
ReturnDropsError ==
    /\ phase \in {"finished", "stopped"}
    /\ phase' = "returned"
    /\ verdict' = determineOverallStatus({completed[s] : s \in Recorded})
    /\ UNCHANGED <<pipeline, search, sort, ctx, run>>

\* Execute completes the result: an error makes it "failed", otherwise the
\* recorded stages decide.
Return ==
    /\ phase \in {"finished", "stopped"}
    /\ phase' = "returned"
    /\ verdict' = IF phase = "stopped" THEN "failed"
                  ELSE determineOverallStatus({completed[s] : s \in Recorded})
    /\ UNCHANGED <<pipeline, search, sort, ctx, run>>

-----------------------------------------------------------------------------
Execute ==
    \/ Validate \/ Reject \/ StartSort \/ Sort \/ FinishSort
    \/ Loop \/ BeginStage \/ Return
    \/ \E status \in {"success", "failed"} : EndStage(status)
    \/ \E cond \in ContinueCondition : Conclude(cond)

Next == Cancel \/ Execute

Spec == Init /\ [][Next]_vars

\* One goroutine, and every runner comes back: its stage has a timeout.
FairSpec == Spec /\ WF_vars(Execute)

-----------------------------------------------------------------------------
(* What must hold.                                                         *)

\* Every variable keeps the type of its Go counterpart.
TypeOK ==
    /\ deps \in DependencyLists /\ failFast \in BOOLEAN /\ dryRun \in BOOLEAN
    /\ roots \subseteq Stage /\ visited \subseteq Stage /\ recStack \subseteq visited
    /\ stack \in Seq([node : Stage, next : Nat \ {0}]) /\ cycle \in BOOLEAN
    /\ inDegree \in [Stage -> Nat]
    /\ queue \in Seq(Stage) /\ order \in Seq(Stage)
    /\ phase \in Phase /\ ctx \in {"live", "done"}
    /\ current \in 1..(Cardinality(Stage) + 1)
    /\ outcome \in StageStatus
    /\ continueOn \in [Stage -> ContinueCondition \cup {"unread"}]
    /\ completed \in [Stage -> StageStatus]
    /\ results \in Seq(Stage)
    /\ verdict \in {"none", "success", "failed", "canceled", "invalid"}

\* A pipeline is refused exactly when its dependencies are circular, whatever
\* root and neighbour order the search takes: no DAG is refused for a node
\* reached twice, no cycle slips through behind a visited node.
ValidationDecidesCycles ==
    /\ verdict = "invalid" => ~Acyclic(DependencySets)
    /\ phase \notin {"validate", "returned"} => Acyclic(DependencySets)

\* At every moment of the sort the order has no stage twice, and has a stage
\* only after all its dependencies; so has the queue behind the order.
OrderFollowsDependencies ==
    LET line == order \o queue
    IN  /\ \A i, j \in 1..Len(line) : line[i] = line[j] => i = j
        /\ \A i \in 1..Len(line) : \A d \in DependencySets[line[i]] :
              \E j \in 1..Len(order) : j < i /\ order[j] = d

\* Execute reports success only if every stage was recorded and none went
\* wrong; a failure that did not interrupt the run still makes it failed,
\* unless a canceled stage takes precedence.  A failed run has a reason: a
\* stage, the context, or a continue condition that did not hold.  With
\* fail-fast, nothing is recorded after any of these but the context.
VerdictTellsStages ==
    LET WentWrong(s) == IsError(completed[s])
        Unmet(s) == ~shouldContinue(continueOn[s], completed[s])
    IN  /\ phase = "returned" =>
              /\ verdict = "success" => Recorded = Stage /\ ~\E s \in Stage : WentWrong(s)
              /\ verdict = "canceled" =>
                    Recorded = Stage /\ \E s \in Stage : completed[s] = "canceled"
              /\ verdict = "failed" =>
                    \/ ctx = "done" \/ \E s \in Stage : WentWrong(s)
                    \/ failFast /\ \E s \in Recorded : Unmet(s)
        /\ failFast => \A i \in 1..(Len(results) - 1) :
              ~WentWrong(results[i]) /\ ~Unmet(results[i])

\* Execute returns, whatever the graph and whatever the stages do.
ExecuteReturns == <>(phase = "returned")

-----------------------------------------------------------------------------
(* The sequential executor implements StageLifecycle with one worker.      *)

Status == [s \in Stage |->
              IF phase \in {"running", "ended"} /\ order[current] = s THEN "running"
              ELSE completed[s]]

Lifecycle == INSTANCE StageLifecycle WITH
    dependsOn <- DependencySets, status <- Status, MaxWorkers <- 1

ImplementsLifecycle == Lifecycle!Spec
=============================================================================
