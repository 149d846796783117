-------------------------- MODULE ParallelExecutor --------------------------
(***************************************************************************)
(* DefaultExecutor.executeParallel: a dispatcher that launches the stages  *)
(* whose dependencies are complete, and one goroutine per launched stage.  *)
(* The goroutines share a semaphore, the completed map (completedMu), the  *)
(* list of results (resultMu) and the first error (errMu).  Each critical  *)
(* section, channel operation and call of a runner is one action.          *)
(***************************************************************************)
EXTENDS PipelineModel

CONSTANTS
    MaxWorkers,     \* capacity of the semaphore: opts.MaxParallel
    NoError,        \* firstErr == nil
    Torn            \* a result whose fields were only partly written

ASSUME WorkersAssumption == MaxWorkers \in Nat \ {0}
ASSUME NoErrorAssumption == NoError \notin Stage
ASSUME TornAssumption == Torn \notin Stage

VARIABLES
    dependsOn,  \* deps: the stages each stage depends on
    failFast,   \* pipeline.FailFast
    dryRun,     \* opts.DryRun
    ctx,        \* "live", or "done" once canceled or timed out
    dispatch,   \* where the dispatcher is in its loop
    pending,    \* stages not launched yet
    ready,      \* stages found ready and still to be launched in this round
    worker,     \* worker[s]: where the goroutine of stage s is
    outcome,    \* outcome[s]: the status executeStage returned for s
    snapshot,   \* snapshot[s]: names in the copy of completed s works from
    completed,  \* completed[s]: status published for s, "pending" if absent
    results,    \* result.Stages, by name
    firstErr,   \* the stage of the first recorded error, or NoError
    verdict,    \* "none" until Execute returns, then the result's Status
    returned    \* result.Stages as the caller of Execute sees it

pipeline   == <<dependsOn, failFast, dryRun>>
dispatcher == <<dispatch, pending, ready>>
call       == <<verdict, returned>>
shared     == <<completed, results, firstErr>>
vars == <<pipeline, ctx, dispatcher, worker, outcome, snapshot, shared, call>>

-----------------------------------------------------------------------------
DispatchState == {"check", "find", "launch", "wait", "returned"}

WorkerState == {"none", "queued", "admitted", "refused", "cleared",
                "prepared", "running", "ran", "appended", "published",
                "releasing", "done"}

\* Faulty: the slot is given back before the error is recorded.
HoldingUntilPublished == {"admitted", "refused", "cleared", "prepared",
                          "running", "ran", "appended"}

\* The goroutines that hold a slot of the semaphore.
Holding == {"admitted", "refused", "cleared", "prepared", "running", "ran",
            "appended", "published", "releasing"}
Holders == {s \in Stage : worker[s] \in Holding}

\* The stages with an entry in the completed map.
Completed == {s \in Stage : completed[s] # "pending"}

\* Did executeStage return an error with this status?  The runners of
\* runner.go return one exactly with "failed" and "canceled".
IsError(status) == status \in {"failed", "canceled"}

Init ==
    /\ dependsOn \in ValidDependencies
    /\ failFast \in BOOLEAN
    /\ dryRun \in BOOLEAN
    /\ ctx = "live"
    /\ dispatch = "check"
    /\ pending = Stage
    /\ ready = {}
    /\ worker = [s \in Stage |-> "none"]
    /\ outcome = [s \in Stage |-> "pending"]
    /\ snapshot = [s \in Stage |-> {}]
    /\ completed = [s \in Stage |-> "pending"]
    /\ results = <<>>
    /\ firstErr = NoError
    /\ verdict = "none"
    /\ returned = <<>>

-----------------------------------------------------------------------------
(* The environment.                                                        *)

\* The caller cancels the context, or the pipeline's timeout expires.
Cancel ==
    /\ ctx = "live"
    /\ ctx' = "done"
    /\ UNCHANGED <<pipeline, dispatcher, worker, outcome, snapshot, shared, call>>

-----------------------------------------------------------------------------
(* The dispatcher.                                                         *)

\* Top of the loop: leave it when nothing is pending, return at once when the
\* context is done.  The copy of the result is then taken while goroutines
\* may be appending to it, so the caller may see an entry half written.
CheckContext ==
    /\ dispatch = "check"
    /\ IF pending = {}
       THEN /\ dispatch' = "wait"
            /\ UNCHANGED call
       ELSE IF ctx = "done"
       THEN /\ dispatch' = "returned"
            /\ verdict' = "failed"
            /\ \/ returned' = results
               \/ /\ \E s \in Stage : worker[s] = "ran"
                  /\ returned' = Append(results, Torn)
       ELSE /\ dispatch' = "find"
            /\ UNCHANGED call
    /\ UNCHANGED <<pipeline, ctx, pending, ready, worker, outcome, snapshot, shared>>

\* Faulty: one complete dependency is enough.
findReadyStagesAny ==
    {s \in pending : dependsOn[s] = {} \/ dependsOn[s] \cap Completed # {}}

\* Faulty: a dependency that did not succeed holds its dependents back.
findReadyStagesSuccess ==
    {s \in pending : \A d \in dependsOn[s] : completed[d] = "success"}

\* The pending stages whose dependencies all have an entry in completed.
findReadyStages == {s \in pending : dependsOn[s] \subseteq Completed}

\* One pass under completedMu; when it finds nothing, sleep and loop.
FindReady ==
    /\ dispatch = "find"
    /\ ready' = findReadyStages
    /\ dispatch' = IF findReadyStages = {} THEN "check" ELSE "launch"
    /\ UNCHANGED <<pipeline, ctx, pending, worker, outcome, snapshot, shared, call>>

\* Faulty: the stage is not deleted from pending.
LaunchKeepsPending(s) ==
    /\ dispatch = "launch"
    /\ s \in ready
    /\ ready' = ready \ {s}
    /\ worker' = [worker EXCEPT ![s] = "queued"]
    /\ dispatch' = IF ready = {s} THEN "check" ELSE "launch"
    /\ UNCHANGED <<pipeline, ctx, pending, outcome, snapshot, shared, call>>

\* Start the goroutine of one ready stage; after the last, loop.
Launch(s) ==
    /\ dispatch = "launch"
    /\ s \in ready
    /\ ready' = ready \ {s}
    /\ pending' = pending \ {s}
    /\ worker' = [worker EXCEPT ![s] = "queued"]
    /\ dispatch' = IF ready = {s} THEN "check" ELSE "launch"
    /\ UNCHANGED <<pipeline, ctx, outcome, snapshot, shared, call>>

\* Faulty: no wg.Wait.
ReturnWithoutWait ==
    /\ dispatch = "wait"
    /\ dispatch' = "returned"
    /\ verdict' = IF firstErr # NoError THEN "failed" ELSE "success"
    /\ returned' = results
    /\ UNCHANGED <<pipeline, ctx, pending, ready, worker, outcome, snapshot, shared>>

\* wg.Wait, then Execute fills in the status of the result and returns.
Return ==
    /\ dispatch = "wait"
    /\ \A s \in Stage : worker[s] \in {"none", "done"}
    /\ dispatch' = "returned"
    /\ verdict' = IF firstErr # NoError THEN "failed"
                  ELSE determineOverallStatus({outcome[results[i]] : i \in 1..Len(results)})
    /\ returned' = results
    /\ UNCHANGED <<pipeline, ctx, pending, ready, worker, outcome, snapshot, shared>>

-----------------------------------------------------------------------------
(* The goroutine of stage s.                                               *)

Goto(s, from, to) ==
    /\ worker[s] = from
    /\ worker' = [worker EXCEPT ![s] = to]

\* Faulty: the goroutine does not wait for a slot.
AcquireUnbounded(s) ==
    /\ Goto(s, "queued", "admitted")
    /\ UNCHANGED <<pipeline, ctx, dispatcher, outcome, snapshot, shared, call>>

\* semaphore <- struct{}{}
Acquire(s) ==
    /\ Goto(s, "queued", "admitted")
    /\ Cardinality(Holders) < MaxWorkers
    /\ UNCHANGED <<pipeline, ctx, dispatcher, outcome, snapshot, shared, call>>

\* Faulty: fail-fast whether the pipeline asks for it or not.
CheckFailFastAlways(s) ==
    /\ Goto(s, "admitted", IF firstErr # NoError THEN "refused" ELSE "cleared")
    /\ UNCHANGED <<pipeline, ctx, dispatcher, outcome, snapshot, shared, call>>

\* Under errMu: has an earlier stage failed in a fail-fast pipeline?
CheckFailFast(s) ==
    /\ Goto(s, "admitted", IF failFast /\ firstErr # NoError THEN "refused" ELSE "cleared")
    /\ UNCHANGED <<pipeline, ctx, dispatcher, outcome, snapshot, shared, call>>

\* Faulty: the early return keeps the slot.
PublishSkipKeepsSlot(s) ==
    /\ Goto(s, "refused", "refused")
    /\ completed' = [completed EXCEPT ![s] = "skipped"]
    /\ UNCHANGED <<pipeline, ctx, dispatcher, outcome, snapshot, results, firstErr, call>>

\* Under completedMu: the stage is skipped; it leaves no entry in the results.
PublishSkip(s) ==
    /\ Goto(s, "refused", "releasing")
    /\ completed' = [completed EXCEPT ![s] = "skipped"]
    /\ UNCHANGED <<pipeline, ctx, dispatcher, outcome, snapshot, results, firstErr, call>>

\* Under completedMu: copy the completed map.
TakeSnapshot(s) ==
    /\ Goto(s, "cleared", "prepared")
    /\ snapshot' = [snapshot EXCEPT ![s] = Completed]
    /\ UNCHANGED <<pipeline, ctx, dispatcher, outcome, shared, call>>

\* executeStage up to the runner: a dry run returns at once, and so does a
\* runner that finds its context (or the stage's own timeout) done.
BeginStage(s) ==
    /\ \/ /\ ~dryRun /\ ctx = "live"
          /\ Goto(s, "prepared", "running")
          /\ UNCHANGED outcome
       \/ /\ Goto(s, "prepared", "ran")
          /\ outcome' = [outcome EXCEPT ![s] = IF dryRun THEN "skipped" ELSE "canceled"]
    /\ UNCHANGED <<pipeline, ctx, dispatcher, snapshot, shared, call>>

\* Faulty: the status is published before the result is appended.
EndStagePublishes(s, status) ==
    /\ Goto(s, "running", "ran")
    /\ outcome' = [outcome EXCEPT ![s] = status]
    /\ completed' = [completed EXCEPT ![s] = status]
    /\ UNCHANGED <<pipeline, ctx, dispatcher, snapshot, results, firstErr, call>>

\* The runner comes back with a result.
EndStage(s, status) ==
    /\ Goto(s, "running", "ran")
    /\ outcome' = [outcome EXCEPT ![s] = status]
    /\ UNCHANGED <<pipeline, ctx, dispatcher, snapshot, shared, call>>

\* Faulty: two appends without resultMu overlap, and one entry is lost.
AppendResultTorn(s) ==
    /\ Goto(s, "ran", "appended")
    /\ results' = Append(results, Torn)
    /\ UNCHANGED <<pipeline, ctx, dispatcher, outcome, snapshot, completed, firstErr, call>>

\* Under resultMu.
AppendResult(s) ==
    /\ Goto(s, "ran", "appended")
    /\ results' = Append(results, s)
    /\ UNCHANGED <<pipeline, ctx, dispatcher, outcome, snapshot, completed, firstErr, call>>

\* Under completedMu: from here on the dependents of s may be launched.
Publish(s) ==
    /\ Goto(s, "appended", "published")
    /\ completed' = [completed EXCEPT ![s] = outcome[s]]
    /\ UNCHANGED <<pipeline, ctx, dispatcher, outcome, snapshot, results, firstErr, call>>

\* Under errMu: only the first error is kept.
RecordError(s) ==
    /\ Goto(s, "published", "releasing")
    /\ firstErr' = IF IsError(outcome[s]) /\ firstErr = NoError THEN s ELSE firstErr
    /\ UNCHANGED <<pipeline, ctx, dispatcher, outcome, snapshot, completed, results, call>>

\* The deferred calls: give the slot back, then wg.Done.
Release(s) ==
    /\ Goto(s, "releasing", "done")
    /\ UNCHANGED <<pipeline, ctx, dispatcher, outcome, snapshot, shared, call>>

-----------------------------------------------------------------------------
Dispatch == CheckContext \/ FindReady \/ (\E s \in Stage : Launch(s)) \/ Return

\* A goroutine's own steps; what a runner returns is the environment's.
Work(s) ==
    \/ Acquire(s) \/ CheckFailFast(s) \/ PublishSkip(s) \/ TakeSnapshot(s)
    \/ BeginStage(s) \/ (\E status \in {"success", "failed"} : EndStage(s, status))
    \/ AppendResult(s) \/ Publish(s) \/ RecordError(s) \/ Release(s)

Next == Cancel \/ Dispatch \/ \E s \in Stage : Work(s)

Spec == Init /\ [][Next]_vars

\* The Go scheduler runs every goroutine that can run, and every stage has a
\* timeout that its runner obeys.  A goroutine blocked on the semaphore may be
\* overtaken, but channel waiters are served in order, hence the strong
\* fairness of Acquire.  The context need not ever be done.
Fairness ==
    /\ WF_vars(Dispatch)
    /\ \A s \in Stage : WF_vars(Work(s)) /\ SF_vars(Acquire(s))

FairSpec == Spec /\ Fairness

-----------------------------------------------------------------------------
(* What must hold.                                                         *)

\* The goroutines past the fail-fast check that have copied completed.
Prepared == {"prepared", "running", "ran", "appended", "published"}

Recorded == {results[i] : i \in 1..Len(results)}

\* Every variable keeps the type of its Go counterpart.
TypeOK ==
    /\ dependsOn \in [Stage -> SUBSET Stage]
    /\ failFast \in BOOLEAN
    /\ dryRun \in BOOLEAN
    /\ ctx \in {"live", "done"}
    /\ dispatch \in DispatchState
    /\ pending \in SUBSET Stage
    /\ ready \in SUBSET Stage
    /\ worker \in [Stage -> WorkerState]
    /\ outcome \in [Stage -> StageStatus]
    /\ snapshot \in [Stage -> SUBSET Stage]
    /\ completed \in [Stage -> StageStatus]
    /\ results \in Seq(Stage)
    /\ firstErr \in Stage \cup {NoError}
    /\ verdict \in {"none", "success", "failed", "canceled"}
    /\ returned \in Seq(Stage \cup {Torn})

\* A stage that gets to run works from a copy of completed that has every
\* stage it depends on, whatever ran and failed beside it.
SnapshotHasDependencies ==
    \A s \in Stage : worker[s] \in Prepared => dependsOn[s] \subseteq snapshot[s]

\* The results list a stage once, after every stage it depends on: the list
\* is written (resultMu) before the map that releases the dependents
\* (completedMu), and a stage skipped by fail-fast takes its dependents along.
ResultsFollowDependencies ==
    \A i \in 1..Len(results) :
        /\ \A j \in 1..(i - 1) : results[j] # results[i]
        /\ \A d \in dependsOn[results[i]] : \E j \in 1..(i - 1) : results[j] = d

\* A stage is skipped only by a dry run, or in a fail-fast pipeline after
\* another stage published an error.
SkippedOnlyAfterError ==
    \A s \in Stage : completed[s] = "skipped" =>
        \/ dryRun
        \/ failFast /\ firstErr # NoError /\ IsError(completed[firstErr])

\* With one worker fail-fast is exact: the slot is given back only after the
\* error is recorded, and the check is made with the slot in hand, so the
\* stage that failed is the last one in the results.
SerialFailFast ==
    MaxWorkers = 1 /\ failFast =>
        \A i \in 1..Len(results) : IsError(outcome[results[i]]) => i = Len(results)

\* When Execute returns without having been canceled no goroutine is left,
\* every stage is accounted for, as a result or as a skipped stage, the
\* result is the one the goroutines wrote, and its status tells whether a
\* stage went wrong.
ReturnAccountsForAll ==
    dispatch = "returned" /\ pending = {} =>
        /\ \A s \in Stage : worker[s] = "done"
        /\ \A s \in Stage : completed[s] = IF s \in Recorded THEN outcome[s] ELSE "skipped"
        /\ returned = results
        /\ verdict = IF \E s \in Stage : IsError(completed[s]) THEN "failed" ELSE "success"

\* A goroutine publishes its stage once: an entry of completed, which other
\* goroutines have copied and the dispatcher has acted on, never changes.
CompletedIsFinal ==
    [][\A s \in Completed : completed'[s] = completed[s]]_vars

\* Execute returns: by itself, or because the context is done.
ExecuteReturns == <>(verdict # "none")

\* Also the goroutines that a canceled Execute leaves behind end.
GoroutinesEnd == <>[](\A s \in Stage : worker[s] \in {"none", "done"})

-----------------------------------------------------------------------------
(* The executor implements StageLifecycle: a stage is running from the     *)
(* moment executeStage is entered until its status is published.           *)

Status == [s \in Stage |->
              IF worker[s] \in {"running", "ran", "appended"} THEN "running"
              ELSE completed[s]]

Lifecycle == INSTANCE StageLifecycle WITH status <- Status

ImplementsLifecycle == Lifecycle!Spec

-----------------------------------------------------------------------------
(* What the documentation says of fail_fast ("Fail fast on first error").  *)

\* In a fail-fast pipeline no stage is running whose dependency is published
\* as failed.
FailFastStopsDependents ==
    failFast => \A s \in Stage : worker[s] = "running" =>
        \A d \in dependsOn[s] : ~IsError(completed[d])
=============================================================================
