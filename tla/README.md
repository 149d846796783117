# Verification of DevSec

TLA+ specifications of [DevSec](../src/README.md), a Go command-line tool that
runs security scanners in pipelines, checks the findings against policies and
compliance frameworks, guards Helm deployments and sends alerts. The modules
are translated from the Go source; the line ranges are in `PROJECT.json`
("map"). TLC checks small instances; TLAPS proves the theorems of the `*Proofs`
modules for every instance.

## 1. The system

| Component (package) | State | Operations | Interacts with | Hard behaviour | Correct when |
|---|---|---|---|---|---|
| Parallel executor (`pipeline/executor.go`) | `pending`, `completed` (completedMu), `result.Stages` (resultMu), `firstErr` (errMu), a semaphore, a WaitGroup | `executeParallel`, `findReadyStages`, `executeStage` | runners, reporter, the caller's context | one goroutine per stage, three mutexes never held together, cancellation without waiting | stages start after their dependencies, the result accounts for all, fail-fast skips only after an error |
| Sequential executor (same file) and graph checks (`pipeline.go`) | position in the order, `completed`, `result.Stages` | `Validate`, `topologicalSort`, `executeSequential` | runners, reporter | random map order, duplicate dependencies, fail-fast with continue conditions | cycles refused and nothing else, order follows dependencies, verdict tells the stages |
| Pipeline files (`pipeline/loader.go`, templates in `cli`) | the file | load, find, save, generate | commands, executor | three validations in a row must agree | what loads can run, what is generated loads |
| Stage runners (`runner.go`) | none between runs | scan, policy, report, compliance, custom | scanners, policy engine, reports, compliance | timeouts, findings passed on through artifacts | an error exactly with failed and canceled |
| Progress (`progress`) | a buffered channel, `closed` | `Report*`, `Close` | executor to TUI | full channel drops, close races with late reports | no panic, no blocking |
| TUI (`tui`) | the bubbletea model | `Update`, `waitForEvent`, `Run` | channel, user, terminal | gaps in the events, early quit, made-up completion | shows the past, learns the end |
| Commands (`cli`) | result channels, the output file | pipeline, scan, compliance, policy, sign, attestation, sbom, ml | everything | goroutine + TUI + result; fan-out to the scanners; files that the next command reads | exit status follows the result |
| Scanners (`scanner/*`) | a report file in the temporary directory, a batch of queries | `Scan` of Gitleaks, Semgrep, Trivy, OSV | external programs, a service | they fail, time out, or leave a bad report at any step | success is complete, nothing is left behind |
| Policy engine (`policy`) | compiled policies (RWMutex) | load, evaluate, decide, validate | OPA, findings | several forms of decisions, missing rules | a gate denies what the policy means to deny |
| Compliance (`compliance`) | assessments, gaps, mappings | map findings, assess, gaps, coverage | findings | findings of several scanners in any order | every finding reaches its controls |
| Report (`report`) | aggregator; audit trail | aggregate, deduplicate, format | findings | limits, what counts as a duplicate | |
| Signing, attestation, SBOM (`signing`, `attestation`, `sbom`) | the files of a directory | generate keys, sign, verify, attest, inspect, list | several users and editors | files read and written one at a time | nothing unchanged is refused in time, a list is complete |
| Deployment gates (`gates`) | result of one `Deploy`; the history is Helm's | `Deploy`, `PreCheck`, `PostCheck`, `Rollback` | Helm, Kubernetes | several callers on one release, failing rollbacks, stale revision numbers | report matches Helm, rollback goes back |
| Helm, Kubernetes clients (`helm`, `kubernetes`) | client handles | upgrade, rollback, history; `WaitForReady`, pod health | clusters | polling, errors taken as transient, stale status | a pass was seen in the cluster |
| Alert manager and notifiers (`alerting`) | list of notifiers (RWMutex), channel of `SendAsync` | `AddNotifier`, `RemoveNotifier`, `Send`, `SendBatch`, `SendAsync`, `Close` | Slack and webhooks | list changes during sends, channel sized before the copy | one result per enabled notifier, channel closed once |
| ML detector (`ml/detector.go`) | task channel, shared result, counter, cache | `Detect`, `DetectConcurrent`, `DetectWithCache` | file system | worker pool, limits checked apart from the append, cancellation, edits | result within the limits and complete or marked |
| Metrics, ML reports, CI providers, logging, configuration | | | | | see section 5 |

How they interact: a command loads a pipeline, builds an executor and a
reporter, runs `Execute` in a goroutine and the TUI in front of it; the
executor calls runners, which call scanners, the policy engine, the compliance
mapper and the report formatter and pass findings on through the `completed`
map. Runners and executor report to the channel that the TUI reads. The scan
and compliance commands call the scanners themselves; what they write, the
policy and compliance commands read. The gates, the alert manager, and the
ML detector's concurrent scan are library components with callers of their own.

## 2. The modules

Pipelines:

| Module | Models | How |
|---|---|---|
| `PipelineModel` | vocabulary of `internal/pipeline` | statuses, `shouldContinue`, `determineOverallStatus`; graphs that validate are the acyclic ones |
| `StageLifecycle` | the abstract specification of an execution | start once after the dependencies, at most `MaxWorkers` at a time, skip only after an error, success only when all ended well |
| `ParallelExecutor` | `executeParallel` | `dispatch` is the place of the loop, `worker[s]` that of the goroutine of stage s; one action per critical section, channel operation or call |
| `ParallelExecutorProofs` | | theorems about it, as in every module of such a name |
| `StageGraph`, `CycleCheck`, `TopologicalSort` | `hasCycleDFS`, `topologicalSort` | dependency lists with duplicates; the recursion as a stack of frames; Kahn's algorithm one dequeue at a time; `InFileOrder` is the inner loop over the stages, in the order of the file |
| `SequentialExecutor`, `SequentialExecutorProofs` | `Execute` of a sequential pipeline | composes the three above: validate, sort, loop over the stages |
| `PipelineFiles` | loader, `Validate`, saving, the templates | operators on records; a text is a class of texts ("too long", "malformed"). `EveryStageCanRun` is the reference that validation is measured against |
| `ChannelReporter` | `progress.ChannelReporter` | `send` and `Close` as operators on the channel's variables |
| `PipelineCommand`, `PipelineCommandProofs` | the `pipeline` commands and the TUI | from the file, good, bad or generated, to the exit status; composes the channel with executing goroutine, TUI and command; the executor is abstract: stages are launched, start or are dropped, and end, also after `Execute` has returned |

Findings:

| Module | Models | How |
|---|---|---|
| `Scanners` | the four `Scan`s | one step per call of a program, a file or the service; the context may end between steps. What these answer is chosen once, in `target` |
| `Policy` | loading, evaluation, decision points, validation, the policy stage | operators; `RegoValue` stands for OPA |
| `Compliance`, `Frameworks` | enrichment, assessment, gaps, coverage, report; the three catalogues and the CWE table | operators on sequences of findings |
| `Aggregator` | limit, deduplication, summary, the report stage | operators |
| `ScanCommands`, `ScanCommandsProofs` | `scan`, `compliance`, `policy`, and a pipeline's later stage | composes the four above: a session of commands that leave and read an output file, main goroutine, job, wait group, result channel, terminal UI |
| `Detector`, `DetectorProofs` | the three scans of the ML detector | callers and workers; one step per critical section, and per call of the cache, a `sync.Map` without a lock around it: count, visits of its `Range`, delete, store; files change meanwhile; the walk is the set of entries that are visited, and a call's `pos` the last of them |

Artifacts and deployments:

| Module | Models | How |
|---|---|---|
| `Signing`, `Sbom` | keys, signatures, envelopes; manifests and documents | operators; a key is a number, a digest is the content |
| `Provenance`, `ProvenanceProofs` | the `sign`, `attestation` and `sbom` commands | several users on one directory, one file access per step, killed or failing anywhere; a function that looks at the context first (`InTime`) ends its command, or, when verifying, refuses |
| `Gates` | policy and severity gate, the pre-check, how decisions combine | operators on counts of findings |
| `DeployGates`, `DeployGatesProofs` | `gates.Deploy`, `gates.Rollback`, the Helm client under them | one step per call, several deployers and an operator on one release, of which Helm's history is kept |
| `Cluster`, `Rollout` (theorems in `DeployGatesProofs`) | pods and their published status; `PostCheck`, the readiness and health gates, `WaitForReady` | one post-check call by call while pods change: the detail of what is one answer per gate in `DeployGates` |
| `Notifiers`, `AlertManager`, `AlertManagerProofs` | the two notifiers and the registry; `alerting.Manager` | operators for what a configuration makes and an answer means; one batch caller, one `SendAsync` with its goroutines, concurrent changes of the list |

Each `MC*` module instantiates one of them for TLC. Definitions marked
"Faulty:" are variants of the operator that follows them, with a bug that this
code could plausibly have; no specification uses them. They document what
each property excludes: put in place of the correct operator, TLC finds the
property violated.

Abstractions. In the executors, artifacts, findings, durations and messages are
left out; a runner is the status it returns. Runners return an error exactly with
`failed` and `canceled` (`runner.go`), so the status determines the error. A data
race is a choice: the result that a canceled parallel run hands to its caller
while goroutines still append may contain a `Torn` entry. The length that
`SendAsync` reads without the lock is one machine word, so it is a length the
list has had. `continue_on` of a stage is chosen when it is read, which is once.
The TUI's log, counters and layout are left out. A finding is its rule, place,
severity and CWEs. A file that `Detector` reads is a kind and the frameworks its
patterns match. Where patterns or tables are Go maps, their random order is a
choice. In `Cluster`, pods of the old and the new revision are not told apart,
as they are not by the client. A missing Kubernetes client means no post
gates, and a post-check without gates passes, as in the code.

## 3. The runs

| Run | Question | Bounds |
|---|---|---|
| `parallel` | safety and refinement of the parallel executor | 3 stages, 2 workers, every acyclic graph, fail-fast and dry run on and off, symmetry over stages |
| `parallel_serial` | fail-fast with one worker; termination | 3 stages, 1 worker; no symmetry, since liveness is checked |
| `sequential` | validation, sort and sequential run | 3 stages, lists of up to 2 entries, every graph |
| `tui` | the pipeline commands, with and without TUI | 2 stages, channel of 2 events; every file of `MCFiles`, at most 7 stages |
| `scans` | findings from scanners to file, gates and controls | the projects and sessions of `MCScanCommands`; batches of 2 dependencies; a quick scan of 3 scanners |
| `ml_detect` | the ML detector | 4 trees of up to 7 entries, 2 workers, 2 callers, channel, cache and models limited to 1, 1 edit |
| `provenance` | signatures and bills of materials of a shared directory | 2 users with up to 3 commands each, 3 manifests, 1 edit |
| `deploy_gates` | deployments and rollbacks of one release; a post-check in detail | 2 deployers and 1 operator; 1 replica and a surge of 1, every list of gates |
| `alerts` | sends during changes of the list | 2 notifiers, one of each kind and configured in every way, list of up to 2, 1 alert |
| `failfast`, `tui_success`, `rollback` | a statement of the documentation each, which the code does not keep | 2 stages / 2 stages / 2 deployers |

What the passing runs show:

* `parallel`: the dependencies of a stage are in the snapshot its runner gets
  (`SnapshotHasDependencies`) and before it in the results
  (`ResultsFollowDependencies`); fail-fast skips only after an error
  (`SkippedOnlyAfterError`); a complete return accounts for every stage
  (`ReturnAccountsForAll`), a published status never changes
  (`CompletedIsFinal`), and the whole implements `StageLifecycle`.
* `parallel_serial`: with one worker nothing starts after an error
  (`SerialFailFast`); `Execute` and its goroutines end.
* `sequential`: the search finds exactly the cycles, the order follows the
  dependencies, and the verdict has its reason in the stages: nothing is
  recorded after a stage that ends a fail-fast run, and no run stops without
  such a stage or a context that is done (`VerdictTellsStages`).
* `tui`: no send on a closed channel, also by stages that start when a canceled
  `Execute` has returned and the reporter is closed (`NoSendOnClosedChannel`);
  the view never runs ahead of them (`ViewLagsBehind`), the TUI learns the end
  although events are dropped, the command ends although nobody looks,
  and the exit status is the result's, whatever the screen said; a command
  that succeeds had a file whose stages can all run, and no generated file is
  blamed (`ExitTellsResult`).
* `scans`: a successful scan is complete, except one of dependencies whose time
  is up while it reads the manifests (`SuccessIsComplete`); no report is left in
  the temporary directory; the quick scan loses and doubles nothing
  (`NothingLost`); exit codes tell the scan; policy check and policy stage deny
  what is found now (`GateTellsScan`); controls are compliant exactly when
  nothing concerns them (`ControlsTellFindings`); every session ends.
* `ml_detect`: an uninterrupted scan accounts for every entry
  (`ResultComplete`); the limit of models, checked in one critical section and
  used in another, is passed by less than the number of workers
  (`ModelsBounded`); the cache outgrows its limit only by what was stored by callers whose
  `SetCacheEntry` another one overlapped (`CacheGrowsByOverlap`); calls return
  and leave no worker behind.
* `provenance`: verify refuses only what is not what was signed, as long as no
  command has met halves of two key pairs, and its time was not up
  (`RefusalTellsChange`; that it passes nothing else is the signature's doing); a
  bill of materials lists a manifest completely or not at all.
* `deploy_gates`: results tell what Helm did, rollbacks go back far enough,
  failures try one; a post-check passes only on what the API server said during
  it (`GatesTellCluster`), and ends.
* `alerts`: `Send` follows its copy of the list; a closed channel is complete;
  `SendAsync` ends if its reader stays, or had room.

Why the bounds are enough. Three stages have the shapes that matter: a chain, a
fork, a join, independent stages, and every race is between a stage, one beside
it and one that depends on it; two workers are both a pool that is full and
stages that overlap. Three nodes with lists of two hold duplicates, self-free
cycles of two and three, and nodes reached twice. The channel of 100 events is
checked with 2, so that it can overflow before the first stage has ended: two
stages make at least five reports, and any number of findings. `MCFiles` has
each flaw the loader looks for, one and two stages with any names and
dependencies, every graph of three, and, with a limit of 7 (the longest
template), a pipeline that is too long.

A session of `scans` has one or two commands, because a command knows of the
earlier ones only what is in the output file. The six projects have scanners
that find several severities, nothing, and fail in every way, manifests of
every kind of line, and a time limit that may strike anywhere. `runQuickScan`
takes three scanners instead of four: the order of any two answers and of the
closer is what matters, and the fourth multiplies the states by ten. The trees
of `ml_detect` hold two models for a limit of one, more frameworks than
reported, what the walk passes over, and a file that is edited in the cache; a cache of
one entry and two callers reach two that are about to delete the same entry, and
a cache of two.
Two users of `provenance` put any access of one between any two of the other.

Two deployers interleave every pair of calls, and the operator adds the third
party. `MCDeployGates` checks `DeployGates` and `Rollout` side by side, each
behaviour being of the one or the other: they share no state, since `Deploy`
sees of a post-check only its decisions, and their product would say
nothing more. One replica and a surge of one give pods that are ready,
starting, gone, or two at a time, shares of healthy pods on either side of the
threshold of 0.8, and a published status that is late. For alerts, two list entries are a
full channel plus one result too many; larger instances (three entries, or
two alerts) were run once and passed, but take several minutes.

Deadlock is not checked where the modelled call really ends, which every
configuration says; `scans` checks it, as its sessions end in a step of their own.

### Fairness

* Goroutines are run when they can run (Go's scheduler): weak fairness of each.
* A goroutine that waits for a slot of the semaphore can be overtaken, but Go
  serves the waiters of a channel first come first served: strong fairness of
  `Acquire`.
* A stage that runs ends: every stage has a timeout (`Stage.GetTimeout` has a
  default) and the runners pass it on; scanners run under the context of their
  command; notifiers have HTTP timeouts.
* A timer goes off: `WaitForReady` returns when its timeout is over, whatever
  the API server answers.
* In `scans` the terminal UI ends, as the events it shows do; that it does is
  what `tui` checks (`TuiLearnsEnd`).
* Not assumed: that a context is ever done, that the user presses a key, that
  the terminal fails, that a caller of `SendAsync` keeps reading, that pods
  become ready, that a file is edited or a deployment retried.

### What the failing runs show

* `failfast`: the status of a failed stage is published before `firstErr` is
  set, so a stage that depends on it can start in a `fail_fast` pipeline
  (`executor.go:283-293`). With one worker it cannot (`SerialFailFast`): the
  slot is released last.
* `tui_success`: "Pipeline completed successfully" is shown for every
  completion without an error, also that of a pipeline with failed stages, and
  for the one the TUI makes up when the channel was full. The exit status is
  right all the same (`ExitTellsResult`).
* `rollback`: `GetPreviousRevision` is documented to give the previous healthy
  revision and gives the current one minus one, which may be a failed one.

Also met while modelling:

* Pipelines: a sequential `fail_fast` run in dry-run mode ends with "continue
  condition not met" after its first stage, because skipped is not success;
  `continue_on` has no effect in parallel pipelines, nor on a last stage, as in
  the full template; the "Execution Order" of `--dry-run` is the order of the
  file; a pipeline that ends `canceled` without an error exits with status 0.
* Findings: the policy stage evaluates its policies and then decides by severity
  alone (`runner.go:341`); `examples/policies/security.rego` does not define
  `data.devsec.decision`, so `policy check` passes everything with it; a text
  scan without findings leaves the output file of an earlier one
  (`scan.go:162`); errors of reading manifests are swallowed, the end of the
  context included (`osv.go:152`); deduplication by file, rule and line merges
  a vulnerability of two packages of one manifest; without findings nothing is
  assessed, so a clean project has no compliant controls.
* ML detector: `Detect` counts every file twice, so the limit of files is half
  of what it says; callers share the counter, which each resets; the cache does
  not keep its limit (`detector.go:46`, "maximum number of cache entries") when
  callers share the detector, since two may evict the same entry and store one
  each, and since a call evicts one entry at most, it never shrinks again: no
  multiple of the callers bounds it; a cache entry
  gets the modification time of a file that was edited after it was read.
* Artifacts: a verification whose time is up after the file was read reports
  "Verification FAILED" for an unchanged, correctly signed file
  (`signing.go:390`, `sign.go:185-189`; likewise `attestation verify`), so a
  refusal does not tell of a change; `LoadKeyPair` never parses the public key,
  so halves of different
  pairs go unnoticed until verification; `attestation inspect` fails on a
  statement that is not signed, which `generate` without a key writes; the SPDX
  document describes a package that it does not list.
* Deployments: a failed read of the current revision leaves automatic rollback
  silently off (`gates.go:160-163`); the current revision may be a failed one; a
  pre-check with policy gates and no findings fails; `HealthThreshold`,
  `MinReadySeconds`, `Timeout` and `StrictMode` of the checks are read by nothing;
  right after an upgrade `WaitForReady` may pass on the status of the old
  pods (`deployment.go:153`), and with four replicas and a surge of one a
  rollout whose new pods all crash passes both gates.
* Alerts: a `SendAsync` without notifiers leaves its goroutine behind if nobody
  reads; two webhooks have one name, so removing one by name removes both.

## 4. What is proved

Eight `*Proofs` modules, each for every value of the constants that the named
assumptions of the modules allow: any finite set of stages, callers, workers,
deployers, notifiers or users, any limit, any session of commands over reports and
manifests of any size. Assumptions say no more than that a set is
finite, a bound a number, a graph one that validated (`PipelineModel`), that the
controls of a framework have ids of their own (`ControlsAssumption`), or what
shape a project to scan has (`ScenariosAssumption`: in `Detector` entries of the
known kinds, and one `DetectConcurrent` at a time, whose channel and workers are
modelled; in `ScanCommands` answers and commands with the fields that they have;
in `Provenance` commands and manifest lines likewise).

None of the invariants is inductive as it stands. Each module defines the
invariant that is, part by part, proves that every action keeps each part, and
draws the listed theorems from it.

| Module | Theorems | The property |
|---|---|---|
| `ParallelExecutorProofs` | `SnapshotComplete`, `ResultsOrdered`, `ReturnComplete`, `SkipsJustified`, `CompletedFinal`, `SerialFailFastExact`, `Refinement` | `SnapshotHasDependencies`, `ResultsFollowDependencies`, `ReturnAccountsForAll`, `SkippedOnlyAfterError`, `CompletedIsFinal`, `SerialFailFast`, `ImplementsLifecycle` |
| `SequentialExecutorProofs` | `CyclesRefused`, `OrderCorrect`, `VerdictCorrect`, `Refinement` | `ValidationDecidesCycles`, `OrderFollowsDependencies`, `VerdictTellsStages`, `ImplementsLifecycle` |
| `PipelineCommandProofs` | `NoPanic`, `ScreenShowsThePast`, `ExitStatusTells` | `NoSendOnClosedChannel`, `ViewLagsBehind`, `ExitTellsResult` |
| `DeployGatesProofs` | `DeployReportTellsHelm`, `RollbackRestoresOlder`, `FailureCallsRollback`, `PassedGatesSawIt` | `ReportTellsHelm`, `RestoresOlderRevision`, `FailureTriesRollback`, `GatesTellCluster` |
| `DetectorProofs` | `CacheGrowthCounted`, `ModelsStayBounded`, `ScanComplete` | `CacheGrowsByOverlap`, `ModelsBounded`, `ResultComplete` |
| `AlertManagerProofs` | `SendInOrder`, `AsyncComplete` | `SendFollowsCopy`, `ClosedIsComplete` |
| `ScanCommandsProofs` | `CleansUp`, `ExitCorrect`, `ScanComplete`, `AssessLosesNothing`, `GatesCorrect`, `ControlsCorrect` | `NoReportLeftBehind`, `ExitTellsScan`, `SuccessIsComplete`, `NothingLost`, `GateTellsScan`, `ControlsTellFindings` |
| `ProvenanceProofs` | `RefusalsTellChange`, `SbomsListManifests` | `RefusalTellsChange`, `SbomListsManifests` |

The first six also prove `TypeCorrect` (`DeployGatesProofs` that of `DeployGates`);
`ScanCommandsProofs` proves `PlacesCorrect`, and `ProvenanceProofs` the whole of
its `Invariant`.

`ParallelExecutor`. That a stage's dependencies are in the results when it is
appended depends on where each goroutine is, on what `completed` says about it,
and on fail-fast never forgetting an error. `IInv` adds

* `LaunchInv`: a stage is pending until its goroutine exists, and one that is
  ready or launched has all its dependencies in `completed`;
* `OutcomeInv`: an entry of `completed` exists exactly when the goroutine has
  published, and agrees with the outcome of a recorded stage;
* `ErrorInv`: `firstErr` names a stage that published an error, every published
  error is recorded before the slot is released, and a refused goroutine has
  seen one;
* `RecordInv`: recorded stages have been appended, a finished one that is not
  recorded was skipped by fail-fast, and one that passed the check has all its
  dependencies recorded;
* `SlotInv`: the semaphore is within its capacity, which the refinement needs.

The key step is `CheckFailFast`: a stage whose dependency was skipped was
launched after `firstErr` was set, so it is refused too, and hence a stage that
is cleared has all its dependencies in the results. `AppendResult` and `Publish`
then keep the order. For `SerialFailFast`, `SerialInv` adds that with one worker
at most one goroutine holds the slot (`OneHolder`), and that while a published
error is not yet in `firstErr` it is the holder that published it.

`SequentialExecutor`. The depth-first search is right because the recursion
stack is a path in the graph (`PathInv`), what lies behind a frame is explored
(`FrameInv`), and every non-empty set of explored stages has one that depends on
nothing in the set (`ExploredInv`): an edge to the stack closes a cycle, and
without one all stages are explored, so that the graph is acyclic. For the
sort, the degree of a stage is the number of its dependencies that are not in
the order (`DegreeInv`), the queue has exactly those of degree 0 that are not
(`LineInv`); when the queue is empty and the order incomplete, the stages left
would be a set without such a member. The loop runs the order from its
beginning (`ResultInv`, `LoopInv`).

`PipelineCommand`. Each event in the channel or in the TUI's hands was true of
the stages when it was sent, and, since stages only advance, tells their past
(`EventInv`): drops, late reports and stages that start after `Execute` has
returned do not matter, as `send` looks at `closed` each time. `CommandInv` relates where
the command, the executing goroutine and the TUI are; a file that `generate`
wrote passes the loader.

`DeployGates`. Between any two calls of a deployment others change the history.
The invariant says of each deployment what is its own: the revisions it has
written, that the previous revision it knows is older than all of them and the
only one they go back to (`PreviousInv`), and how far its report is ahead or
behind (`ProgressInv`, `ReportInv`). The history only grows, and no revision of
one deployment is changed by another.

`Rollout`. `seen` collects what the API server said during the check; each
decision that was made has its evidence in it (`EvidenceInv`), the first half of
a combined gate too, and the decisions are those of the gates before the one at
hand (`PositionInv`).

`Detector`. Models plus workers that have passed the check and not yet added
are within the bound (`ModelsInv`). For the cache no such count holds. What holds
is said of each caller whom no other one has disturbed (`RoomInv` in `CacheInv`):
what its `Range` has visited is in the cache, all of it when the `Range` is over;
the oldest it has chosen is there, so that deleting it makes room; and when it
is ready to store, there is room for one more. Whoever deletes or stores disturbs the
others, and what a disturbed caller stores is counted in `overlaps`, a history
variable. For `ResultComplete`,
every entry of the walk is in the channel, in the hands of one worker
(`QueueInv`), or accounted for: found, an error, or beyond a limit
(`AccountInv`); what a worker still has to add is what is missing of its entry;
a walk that ended with `ok`, live and below the limit of files (`CountInv`
relates the counter to the files seen) has seen all entries (`EndInv`), and then
the pool is waited for until the channel is empty (`DoneInv`). What is cached of
an entry is everything of it, or as much as the limit (`StoreInv`).

`AlertManager`. `SendInv` gives the entry i of the copy its place, the number
of enabled entries up to it, and says the loop is either running, with one
result for each enabled entry behind it, or stopped by the last result. For
`SendAsync`, `Control` has one goroutine for each enabled entry, and `CountInv`
counts: the results for a notifier, taken or in the buffer, are as many as the
goroutines for it that are done. Receiving moves a result from the buffer to the
reader and leaves the two, one after the other, unchanged.

`ScanCommands`. What `Concat` computes is proved by induction: every nonempty
set of naturals has a least element (`Least`), which gives `Induction` for a
set instead of a predicate, and the recursive function in `Concat` is the one
that satisfies its equation, as such a function exists and is unique
(`UpToExists`, `UpToUnique`). From its two equations (`ConcatUnfolds`) follow
the length and the elements of what is joined, and how many pairs of a part and
a place in it there are (`ConcatCounts`). The invariants build on each other:

* `IInv` is control alone: a report file belongs to a scanner that is about to
  read it (`ReportInv`), nothing works for a scanner that is quiet, a job is
  done only when its scanners are (`JobInv`), and the result of a `scan` is its
  scanner's (`ScanResultInv`).
* `DataInv` says what each scanner has found. A program's scan has the findings
  of its report or none (`ToolOk`). While the context lives, the OSV scan has
  the dependencies of the manifests read so far, then the vulnerabilities of
  the first k dependencies, and the other dependencies left (`OsvOk`); a batch
  adds as many to the one as it takes from the other.
* `AnswersInv`: the scanners that have sent their answer are those in the
  channel and those taken from it, each once, and the findings are `Concat` of
  the answers taken. When the channel is closed and empty, the answers taken
  enumerate the scanners, which makes them one of `Orders(QuickScan)`.
* `GateInv` carries the claim over the end of a command: when the first command
  was a scan with JSON output, the file has its findings (`SavedInv`) until the
  second command has read them. Whatever the order of its findings, a policy's
  verdict depends on which there are (`Verdict`, `CountPositive`).
* `AssessInv`: the report is that of the findings handed on. That
  `assessControl` looks only at the first of several findings with one id
  loses nothing, since findings with a CWE are told apart by their ids
  (`IdsTell`): Gitleaks, whose fingerprints need not differ, names no CWE.

`Provenance`. A refusal rests on what the key files were when each command
read them, so the invariant follows the pair through every hand:

* `PairInv`: as long as no command has met key files of two pairs, these two are
  one pair, except while exactly one user is about to write the second of them;
  then nobody is between reading the two, and that user has the key of the first.
  Who has read the private key will read its public one.
* `SignerInv` and `SignedInv` carry the pair on: into the signer's variables,
  the signature it has made or read, the `.sig` files and the attestation. A
  genuine signature verifies exactly the content it was made of (`VerifyFacts`).
* `ListedInv`: the list of a bill of materials has, of every manifest read so
  far, everything in one stretch, or nothing for a reason, and nothing of those
  to come. That a manifest's stretch stays where it is when others are appended
  is `JoinOther`, and that it is complete `JoinOwn`.

Definitions are written so that the provers can use them, with the same meaning
as the code: `RemoveNotifier` and `InFileOrder` choose the ascending sequence of
the entries that stay instead of calling a recursive filter, `PreCheckEnds` is a
predicate on the decisions, `OfKind` picks lines with `Concat` where a recursive
filter would (by counting, in `Sbom`), and the walk of the detector is a set taken in
ascending order. `MaxHighAssumption` says that the limit of high findings is a
number. `ResultComplete` asks for strictly fewer files than the limit: with
exactly that many the walk ends with the last file, and misses a SavedModel
directory after it, which the attempt to prove the property showed.

Every safety property that a passing run checks is a theorem. Only model-checked
are termination and the other liveness properties (`ExecuteReturns`,
`GoroutinesEnd`, `CommandEnds`, `TuiLearnsEnd`, `PostCheckEnds`, `AsyncEnds`,
`CallsReturn`), since the prover has no fairness.

## 5. What is not modelled

* Formatting and parsing of texts, HTTP, the external programs, Rego, Helm and
  Kubernetes themselves, and cryptography: their answers are choices.
* The metrics server: no command starts it. Its `Serve` goroutine reads
  `s.server` without the lock, so that after a `Stop` and a `Start` it may serve
  the new server on the old listener; the hazard is listed.
* The audit trail: only its tests use it.
* ML reports (fairness, statistics, model cards, validation): formulas in
  floating-point arithmetic, rendered. The metadata that the detector extracts
  from model files, and its confidence values.
* CI providers and webhooks: event payloads and single requests, no state in
  between and no caller.
* Logging, configuration, the plain records of `internal/model`, and the
  registries of scanners, stage runners and notifiers, each a map behind one lock.
* `CustomRunner`, `ExecuteWithResult` of the gates, `Install`, `Uninstall` and
  `List` of the Helm client, rollout, readiness and liveness reports of the
  Kubernetes client: nothing modelled calls them, or, for the first, a command
  line is all there is to it.

Hazards without a property are in `PROJECT.json` with the reason.

## 6. What is left

`DeployGates` takes one answer per gate where `Rollout` has the calls behind it;
both are proved, but not that a post-check of `Rollout` refines that answer. Each
hazard without a property has its reason beside it.
