----------------------- MODULE ParallelExecutorProofs -----------------------
(***************************************************************************)
(* Theorems about ParallelExecutor, for every set of stages, every number  *)
(* of workers and every acyclic dependency graph.                          *)
(***************************************************************************)
EXTENDS ParallelExecutor, FiniteSetTheorems, SequenceTheorems, TLAPS

-----------------------------------------------------------------------------
(* The inductive invariant.  ResultsFollowDependencies is not inductive by *)
(* itself: that the dependencies of a stage are in the results when it is  *)
(* appended rests on where each goroutine is, on what completed says of    *)
(* it, and on fail-fast never forgetting an error.                         *)

\* The goroutines that have published an entry of completed.
Past == {"published", "releasing", "done"}

\* Launched goroutines, pending stages and ready stages.
LaunchInv ==
    /\ \A s \in Stage : worker[s] = "none" <=> s \in pending
    /\ ready \subseteq pending
    /\ \A s \in Stage : s \in ready \/ s \notin pending => dependsOn[s] \subseteq Completed
    /\ dispatch = "wait" => pending = {}
    /\ dispatch # "returned" => verdict = "none"

\* Where a goroutine is, and what completed and outcome say of its stage.
OutcomeInv ==
    /\ \A s \in Stage : completed[s] # "pending" <=> worker[s] \in Past
    /\ \A s \in Stage : completed[s] # "running"
    /\ \A s \in Stage : worker[s] \in {"ran", "appended", "published"} => outcome[s] \in Terminal
    /\ \A s \in Stage : outcome[s] = "skipped" => dryRun
    /\ \A s \in Stage : s \in Recorded /\ completed[s] # "pending" => completed[s] = outcome[s]

\* The first error is that of a stage that published it.
ErrorInv ==
    /\ firstErr # NoError =>
          /\ worker[firstErr] \in {"releasing", "done"}
          /\ IsError(completed[firstErr])
    /\ \A s \in Stage : worker[s] \in {"releasing", "done"} /\ IsError(completed[s]) =>
          firstErr # NoError
    /\ \A s \in Stage : worker[s] = "refused" => failFast /\ firstErr # NoError

\* The stages in the results, and why the others are not in it.
RecordInv ==
    /\ \A s \in Stage : s \in Recorded => worker[s] \in {"appended"} \cup Past
    /\ \A s \in Stage : worker[s] \in {"appended", "published"} => s \in Recorded
    /\ \A s \in Stage : worker[s] \in {"releasing", "done"} /\ s \notin Recorded =>
          completed[s] = "skipped" /\ failFast /\ firstErr # NoError
    /\ \A s \in Stage : worker[s] \in {"cleared", "prepared", "running", "ran"} =>
          dependsOn[s] \subseteq Recorded

\* The semaphore is never over its capacity.
SlotInv == Cardinality(Holders) <= MaxWorkers

IInv ==
    /\ TypeOK
    /\ LaunchInv
    /\ OutcomeInv
    /\ ErrorInv
    /\ RecordInv
    /\ SnapshotHasDependencies
    /\ ResultsFollowDependencies
    /\ ReturnAccountsForAll
    /\ SlotInv

-----------------------------------------------------------------------------
(* Type correctness.                                                       *)

\* The caller's copy of the results has the results' type.
LEMMA WiderSeq ==
    ASSUME NEW q \in Seq(Stage)
    PROVE  q \in Seq(Stage \cup {Torn})
<1>1. PICK n \in Nat : q \in [1..n -> Stage]
  BY SeqDef
<1>2. q \in [1..n -> Stage \cup {Torn}]
  BY <1>1
<1> QED
  BY <1>2, SeqDef

LEMMA InitType == Init => TypeOK
<1> SUFFICES ASSUME Init PROVE TypeOK
  OBVIOUS
<1>1. results \in Seq(Stage) /\ returned \in Seq(Stage \cup {Torn})
  BY EmptySeq DEF Init
<1> QED
  BY <1>1 DEF Init, TypeOK, ValidDependencies, DispatchState, WorkerState, StageStatus

LEMMA NextType == TypeOK /\ [Next]_vars => TypeOK'
<1> SUFFICES ASSUME TypeOK, [Next]_vars PROVE TypeOK'
  OBVIOUS
<1> USE DEF TypeOK, DispatchState, WorkerState, StageStatus, Terminal, Goto,
            pipeline, dispatcher, call, shared
<1>1. CASE Cancel
  BY <1>1 DEF Cancel
<1>2. CASE CheckContext
  <2>1. results \in Seq(Stage \cup {Torn}) /\ Append(results, Torn) \in Seq(Stage \cup {Torn})
    BY WiderSeq, AppendProperties
  <2>2. returned' \in Seq(Stage \cup {Torn})
    BY <1>2, <2>1 DEF CheckContext
  <2> QED
    BY <1>2, <2>2 DEF CheckContext
<1>3. CASE FindReady
  BY <1>3 DEF FindReady, findReadyStages
<1>4. ASSUME NEW s \in Stage, Launch(s) PROVE TypeOK'
  BY <1>4 DEF Launch
<1>5. CASE Return
  <2>1. results \in Seq(Stage \cup {Torn})
    BY WiderSeq
  <2>2. verdict' \in {"success", "failed", "canceled"}
    BY <1>5 DEF Return, determineOverallStatus
  <2> QED
    BY <1>5, <2>1, <2>2 DEF Return
<1>6. ASSUME NEW s \in Stage, Acquire(s) PROVE TypeOK'
  BY <1>6 DEF Acquire
<1>7. ASSUME NEW s \in Stage, CheckFailFast(s) PROVE TypeOK'
  BY <1>7 DEF CheckFailFast
<1>8. ASSUME NEW s \in Stage, PublishSkip(s) PROVE TypeOK'
  BY <1>8 DEF PublishSkip
<1>9. ASSUME NEW s \in Stage, TakeSnapshot(s) PROVE TypeOK'
  BY <1>9 DEF TakeSnapshot, Completed
<1>10. ASSUME NEW s \in Stage, BeginStage(s) PROVE TypeOK'
  BY <1>10 DEF BeginStage
<1>11. ASSUME NEW s \in Stage, NEW r \in {"success", "failed"}, EndStage(s, r) PROVE TypeOK'
  BY <1>11 DEF EndStage
<1>12. ASSUME NEW s \in Stage, AppendResult(s) PROVE TypeOK'
  BY <1>12, AppendProperties DEF AppendResult
<1>13. ASSUME NEW s \in Stage, Publish(s) PROVE TypeOK'
  BY <1>13 DEF Publish
<1>14. ASSUME NEW s \in Stage, RecordError(s) PROVE TypeOK'
  BY <1>14 DEF RecordError
<1>15. ASSUME NEW s \in Stage, Release(s) PROVE TypeOK'
  BY <1>15 DEF Release
<1>16. CASE UNCHANGED vars
  BY <1>16 DEF vars
<1> QED
  BY <1>1, <1>2, <1>3, <1>4, <1>5, <1>6, <1>7, <1>8,
     <1>9, <1>10, <1>11, <1>12, <1>13, <1>14, <1>15, <1>16 DEF Next, Dispatch, Work

\* The executor never leaves the types of its variables.
THEOREM TypeCorrect == Spec => []TypeOK
<1>1. Init => TypeOK
  BY InitType
<1>2. TypeOK /\ [Next]_vars => TypeOK'
  BY NextType
<1> QED
  BY <1>1, <1>2, PTL DEF Spec

-----------------------------------------------------------------------------
(* The inductive invariant is preserved.                               *)

\* Appending a result adds one stage to the recorded ones.
LEMMA AppendRange ==
    ASSUME NEW q \in Seq(Stage), NEW s \in Stage
    PROVE  {Append(q, s)[i] : i \in 1..Len(Append(q, s))} = {q[i] : i \in 1..Len(q)} \cup {s}
<1>1. /\ Len(Append(q, s)) = Len(q) + 1
      /\ \A i \in 1..Len(q) : Append(q, s)[i] = q[i]
      /\ Append(q, s)[Len(q) + 1] = s
  BY AppendProperties
<1>2. Len(q) \in Nat
  BY LenProperties
<1>3. 1..(Len(q) + 1) = (1..Len(q)) \cup {Len(q) + 1}
  BY <1>2
<1> QED
  BY <1>1, <1>2, <1>3

LEMMA RecordedGrows ==
    ASSUME TypeOK, NEW s \in Stage, AppendResult(s)
    PROVE  Recorded' = Recorded \cup {s}
<1>1. results \in Seq(Stage) /\ results' = Append(results, s)
  BY DEF TypeOK, AppendResult
<1>2. {results'[i] : i \in 1..Len(results')} = {results[i] : i \in 1..Len(results)} \cup {s}
  BY <1>1, AppendRange
<1> QED
  BY <1>2 DEF Recorded

\* No step takes an entry out of completed or changes it.
LEMMA CompletedGrows ==
    ASSUME TypeOK, OutcomeInv, [Next]_vars
    PROVE  \A t \in Stage : completed[t] # "pending" => completed'[t] = completed[t]
<1> USE DEF Goto, pipeline, dispatcher, call, shared, TypeOK, OutcomeInv, Past
<1> DEFINE Kept == \A t \in Stage : completed[t] # "pending" => completed'[t] = completed[t]
<1>1. CASE Cancel
  BY <1>1 DEF Cancel
<1>2. CASE CheckContext
  BY <1>2 DEF CheckContext
<1>3. CASE FindReady
  BY <1>3 DEF FindReady
<1>4. ASSUME NEW s \in Stage, Launch(s) PROVE Kept
  BY <1>4 DEF Launch
<1>5. CASE Return
  BY <1>5 DEF Return
<1>6. ASSUME NEW s \in Stage, Acquire(s) PROVE Kept
  BY <1>6 DEF Acquire
<1>7. ASSUME NEW s \in Stage, CheckFailFast(s) PROVE Kept
  BY <1>7 DEF CheckFailFast
<1>8. ASSUME NEW s \in Stage, PublishSkip(s) PROVE Kept
  BY <1>8 DEF PublishSkip
<1>9. ASSUME NEW s \in Stage, TakeSnapshot(s) PROVE Kept
  BY <1>9 DEF TakeSnapshot
<1>10. ASSUME NEW s \in Stage, BeginStage(s) PROVE Kept
  BY <1>10 DEF BeginStage
<1>11. ASSUME NEW s \in Stage, NEW r \in {"success", "failed"}, EndStage(s, r) PROVE Kept
  BY <1>11 DEF EndStage
<1>12. ASSUME NEW s \in Stage, AppendResult(s) PROVE Kept
  BY <1>12 DEF AppendResult
<1>13. ASSUME NEW s \in Stage, Publish(s) PROVE Kept
  BY <1>13 DEF Publish
<1>14. ASSUME NEW s \in Stage, RecordError(s) PROVE Kept
  BY <1>14 DEF RecordError
<1>15. ASSUME NEW s \in Stage, Release(s) PROVE Kept
  BY <1>15 DEF Release
<1>16. CASE UNCHANGED vars
  BY <1>16 DEF vars
<1> QED
  BY <1>1, <1>2, <1>3, <1>4, <1>5, <1>6, <1>7, <1>8,
     <1>9, <1>10, <1>11, <1>12, <1>13, <1>14, <1>15, <1>16 DEF Next, Dispatch, Work

LEMMA LaunchStep ==
    ASSUME IInv, [Next]_vars
    PROVE  LaunchInv'
<1>a. Completed \subseteq Completed'
  BY CompletedGrows DEF IInv, Completed
<1>b. TypeOK /\ LaunchInv
  BY DEF IInv
<1> USE DEF Goto, pipeline, dispatcher, call, shared, TypeOK, LaunchInv
<1>1. CASE Cancel
  BY <1>1, <1>a, <1>b DEF Cancel
<1>2. CASE CheckContext
  BY <1>2, <1>a, <1>b DEF CheckContext
<1>3. CASE FindReady
  BY <1>3, <1>a, <1>b DEF FindReady, findReadyStages
<1>4. ASSUME NEW s \in Stage, Launch(s) PROVE LaunchInv'
  BY <1>4, <1>a, <1>b DEF Launch
<1>5. CASE Return
  BY <1>5, <1>a, <1>b DEF Return
<1>6. ASSUME NEW s \in Stage, Acquire(s) PROVE LaunchInv'
  BY <1>6, <1>a, <1>b DEF Acquire
<1>7. ASSUME NEW s \in Stage, CheckFailFast(s) PROVE LaunchInv'
  BY <1>7, <1>a, <1>b DEF CheckFailFast
<1>8. ASSUME NEW s \in Stage, PublishSkip(s) PROVE LaunchInv'
  BY <1>8, <1>a, <1>b DEF PublishSkip
<1>9. ASSUME NEW s \in Stage, TakeSnapshot(s) PROVE LaunchInv'
  BY <1>9, <1>a, <1>b DEF TakeSnapshot
<1>10. ASSUME NEW s \in Stage, BeginStage(s) PROVE LaunchInv'
  BY <1>10, <1>a, <1>b DEF BeginStage
<1>11. ASSUME NEW s \in Stage, NEW r \in {"success", "failed"}, EndStage(s, r) PROVE LaunchInv'
  BY <1>11, <1>a, <1>b DEF EndStage
<1>12. ASSUME NEW s \in Stage, AppendResult(s) PROVE LaunchInv'
  BY <1>12, <1>a, <1>b DEF AppendResult
<1>13. ASSUME NEW s \in Stage, Publish(s) PROVE LaunchInv'
  BY <1>13, <1>a, <1>b DEF Publish
<1>14. ASSUME NEW s \in Stage, RecordError(s) PROVE LaunchInv'
  BY <1>14, <1>a, <1>b DEF RecordError
<1>15. ASSUME NEW s \in Stage, Release(s) PROVE LaunchInv'
  BY <1>15, <1>a, <1>b DEF Release
<1>16. CASE UNCHANGED vars
  BY <1>16, <1>a, <1>b DEF vars
<1> QED
  BY <1>1, <1>2, <1>3, <1>4, <1>5, <1>6, <1>7, <1>8,
     <1>9, <1>10, <1>11, <1>12, <1>13, <1>14, <1>15, <1>16 DEF Next, Dispatch, Work

LEMMA OutcomeStep ==
    ASSUME IInv, [Next]_vars
    PROVE  OutcomeInv'
<1>a. UNCHANGED results => Recorded' = Recorded
  BY DEF Recorded
<1>b. TypeOK /\ OutcomeInv
  BY DEF IInv
<1>c. \A s \in Stage : s \in Recorded => worker[s] \in {"appended"} \cup Past
  BY DEF IInv, RecordInv
<1> USE DEF Goto, pipeline, dispatcher, call, shared, TypeOK, OutcomeInv, Past, Terminal, StageStatus
<1>1. CASE Cancel
  BY <1>1, <1>a, <1>b, <1>c DEF Cancel
<1>2. CASE CheckContext
  BY <1>2, <1>a, <1>b, <1>c DEF CheckContext
<1>3. CASE FindReady
  BY <1>3, <1>a, <1>b, <1>c DEF FindReady
<1>4. ASSUME NEW s \in Stage, Launch(s) PROVE OutcomeInv'
  <2>1. worker[s] = "none"
    BY <1>4, <1>a DEF Launch, IInv, LaunchInv
  <2> QED
    BY <1>4, <1>a, <1>b, <1>c, <2>1 DEF Launch
<1>5. CASE Return
  BY <1>5, <1>a, <1>b, <1>c DEF Return
<1>6. ASSUME NEW s \in Stage, Acquire(s) PROVE OutcomeInv'
  BY <1>6, <1>a, <1>b, <1>c DEF Acquire
<1>7. ASSUME NEW s \in Stage, CheckFailFast(s) PROVE OutcomeInv'
  BY <1>7, <1>a, <1>b, <1>c DEF CheckFailFast
<1>8. ASSUME NEW s \in Stage, PublishSkip(s) PROVE OutcomeInv'
  BY <1>8, <1>a, <1>b, <1>c DEF PublishSkip
<1>9. ASSUME NEW s \in Stage, TakeSnapshot(s) PROVE OutcomeInv'
  BY <1>9, <1>a, <1>b, <1>c DEF TakeSnapshot
<1>10. ASSUME NEW s \in Stage, BeginStage(s) PROVE OutcomeInv'
  <2>1. UNCHANGED <<dryRun, completed, results>>
    BY <1>10 DEF BeginStage
  <2>2. CASE Goto(s, "prepared", "running") /\ UNCHANGED outcome
    BY <2>1, <2>2, <1>a, <1>b
  <2>3. CASE /\ Goto(s, "prepared", "ran")
             /\ outcome' = [outcome EXCEPT ![s] = IF dryRun THEN "skipped" ELSE "canceled"]
    BY <2>1, <2>3, <1>a, <1>b, <1>c
  <2> QED
    BY <1>10, <2>2, <2>3 DEF BeginStage
<1>11. ASSUME NEW s \in Stage, NEW r \in {"success", "failed"}, EndStage(s, r) PROVE OutcomeInv'
  BY <1>11, <1>a, <1>b, <1>c DEF EndStage
<1>12. ASSUME NEW s \in Stage, AppendResult(s) PROVE OutcomeInv'
  <2>1. completed[s] = "pending" /\ completed' = completed
    BY <1>12, <1>b DEF AppendResult
  <2>2. Recorded' = Recorded \cup {s}
    BY <1>12, <1>b, RecordedGrows
  <2> QED
    BY <1>12, <1>b, <1>c, <2>1, <2>2 DEF AppendResult
<1>13. ASSUME NEW s \in Stage, Publish(s) PROVE OutcomeInv'
  BY <1>13, <1>a, <1>b, <1>c DEF Publish
<1>14. ASSUME NEW s \in Stage, RecordError(s) PROVE OutcomeInv'
  BY <1>14, <1>a, <1>b, <1>c DEF RecordError
<1>15. ASSUME NEW s \in Stage, Release(s) PROVE OutcomeInv'
  BY <1>15, <1>a, <1>b, <1>c DEF Release
<1>16. CASE UNCHANGED vars
  BY <1>16, <1>a, <1>b DEF vars
<1> QED
  BY <1>1, <1>2, <1>3, <1>4, <1>5, <1>6, <1>7, <1>8,
     <1>9, <1>10, <1>11, <1>12, <1>13, <1>14, <1>15, <1>16 DEF Next, Dispatch, Work

LEMMA ErrorStep ==
    ASSUME IInv, [Next]_vars
    PROVE  ErrorInv'
<1>a. TypeOK /\ ErrorInv /\ OutcomeInv
  BY DEF IInv
<1>b. \A s \in Stage : worker[s] \in {"appended", "published"} => s \in Recorded
  BY DEF IInv, RecordInv
<1> USE NoErrorAssumption
<1> USE DEF Goto, pipeline, dispatcher, call, shared, TypeOK, ErrorInv, OutcomeInv, Past, IsError, Terminal, StageStatus
<1>1. CASE Cancel
  BY <1>1, <1>a DEF Cancel
<1>2. CASE CheckContext
  BY <1>2, <1>a DEF CheckContext
<1>3. CASE FindReady
  BY <1>3, <1>a DEF FindReady
<1>4. ASSUME NEW s \in Stage, Launch(s) PROVE ErrorInv'
  <2>1. worker[s] = "none"
    BY <1>4, <1>a DEF Launch, IInv, LaunchInv
  <2> QED
    BY <1>4, <1>a, <1>b, <2>1 DEF Launch
<1>5. CASE Return
  BY <1>5, <1>a DEF Return
<1>6. ASSUME NEW s \in Stage, Acquire(s) PROVE ErrorInv'
  BY <1>6, <1>a DEF Acquire
<1>7. ASSUME NEW s \in Stage, CheckFailFast(s) PROVE ErrorInv'
  BY <1>7, <1>a DEF CheckFailFast
<1>8. ASSUME NEW s \in Stage, PublishSkip(s) PROVE ErrorInv'
  <2>1. completed[s] = "pending"
    BY <1>8, <1>a DEF PublishSkip
  <2>2. \A t \in Stage \ {s} : completed'[t] = completed[t] /\ worker'[t] = worker[t]
    BY <1>8, <1>a DEF PublishSkip
  <2>3. completed'[s] = "skipped" /\ worker'[s] = "releasing"
    BY <1>8, <1>a DEF PublishSkip
  <2>4. firstErr # s
    BY <1>8, <1>a DEF PublishSkip
  <2>5. UNCHANGED <<firstErr, failFast>>
    BY <1>8 DEF PublishSkip
  <2> QED
    BY <1>a, <2>2, <2>3, <2>4, <2>5
<1>9. ASSUME NEW s \in Stage, TakeSnapshot(s) PROVE ErrorInv'
  BY <1>9, <1>a DEF TakeSnapshot
<1>10. ASSUME NEW s \in Stage, BeginStage(s) PROVE ErrorInv'
  BY <1>10, <1>a DEF BeginStage
<1>11. ASSUME NEW s \in Stage, NEW r \in {"success", "failed"}, EndStage(s, r) PROVE ErrorInv'
  BY <1>11, <1>a DEF EndStage
<1>12. ASSUME NEW s \in Stage, AppendResult(s) PROVE ErrorInv'
  BY <1>12, <1>a DEF AppendResult
<1>13. ASSUME NEW s \in Stage, Publish(s) PROVE ErrorInv'
  BY <1>13, <1>a DEF Publish
<1>14. ASSUME NEW s \in Stage, RecordError(s) PROVE ErrorInv'
  <2>1. completed[s] = outcome[s]
    BY <1>14, <1>a, <1>b DEF RecordError
  <2> QED
    BY <1>14, <1>a, <2>1 DEF RecordError
<1>15. ASSUME NEW s \in Stage, Release(s) PROVE ErrorInv'
  BY <1>15, <1>a DEF Release
<1>16. CASE UNCHANGED vars
  BY <1>16, <1>a DEF vars
<1> QED
  BY <1>1, <1>2, <1>3, <1>4, <1>5, <1>6, <1>7, <1>8,
     <1>9, <1>10, <1>11, <1>12, <1>13, <1>14, <1>15, <1>16 DEF Next, Dispatch, Work
\* A goroutine cleared to run has all its dependencies in the results:
\* one that is complete but not recorded was skipped, and then fail-fast would
\* have refused this goroutine too.
LEMMA RecordStep ==
    ASSUME IInv, [Next]_vars
    PROVE  RecordInv'
<1>a. UNCHANGED results => Recorded' = Recorded
  BY DEF Recorded
<1>b. TypeOK /\ RecordInv
  BY DEF IInv
<1>c. \A t \in Stage : worker[t] = "refused" => failFast /\ firstErr # NoError
  BY DEF IInv, ErrorInv
<1> USE NoErrorAssumption
<1> USE DEF Goto, pipeline, dispatcher, call, shared, TypeOK, RecordInv, Past
<1>1. CASE Cancel
  BY <1>1, <1>a, <1>b DEF Cancel
<1>2. CASE CheckContext
  BY <1>2, <1>a, <1>b DEF CheckContext
<1>3. CASE FindReady
  BY <1>3, <1>a, <1>b DEF FindReady
<1>4. ASSUME NEW s \in Stage, Launch(s) PROVE RecordInv'
  <2>1. worker[s] = "none"
    BY <1>4 DEF Launch, IInv, LaunchInv
  <2> QED
    BY <1>4, <1>a, <1>b, <2>1 DEF Launch
<1>5. CASE Return
  BY <1>5, <1>a, <1>b DEF Return
<1>6. ASSUME NEW s \in Stage, Acquire(s) PROVE RecordInv'
  BY <1>6, <1>a, <1>b DEF Acquire
<1>7. ASSUME NEW s \in Stage, CheckFailFast(s) PROVE RecordInv'
  <2>1. dependsOn[s] \subseteq Completed
    BY <1>7 DEF CheckFailFast, IInv, LaunchInv
  <2>2. \A d \in dependsOn[s] : worker[d] \in Past
    BY <2>1 DEF IInv, OutcomeInv, Completed
  <2>3. ~(failFast /\ firstErr # NoError) => dependsOn[s] \subseteq Recorded
    BY <2>2, <1>b
  <2> QED
    BY <1>7, <1>a, <1>b, <2>3 DEF CheckFailFast
<1>8. ASSUME NEW s \in Stage, PublishSkip(s) PROVE RecordInv'
  <2>1. failFast /\ firstErr # NoError
    BY <1>8, <1>c DEF PublishSkip
  <2> QED
    BY <1>8, <1>a, <1>b, <2>1 DEF PublishSkip
<1>9. ASSUME NEW s \in Stage, TakeSnapshot(s) PROVE RecordInv'
  BY <1>9, <1>a, <1>b DEF TakeSnapshot
<1>10. ASSUME NEW s \in Stage, BeginStage(s) PROVE RecordInv'
  BY <1>10, <1>a, <1>b DEF BeginStage
<1>11. ASSUME NEW s \in Stage, NEW r \in {"success", "failed"}, EndStage(s, r) PROVE RecordInv'
  BY <1>11, <1>a, <1>b DEF EndStage
<1>12. ASSUME NEW s \in Stage, AppendResult(s) PROVE RecordInv'
  <2>1. Recorded' = Recorded \cup {s}
    BY <1>12, <1>b, RecordedGrows
  <2> QED
    BY <1>12, <1>b, <2>1 DEF AppendResult
<1>13. ASSUME NEW s \in Stage, Publish(s) PROVE RecordInv'
  <2>1. s \in Recorded
    BY <1>13, <1>b DEF Publish
  <2> QED
    BY <1>13, <1>a, <1>b, <2>1 DEF Publish
<1>14. ASSUME NEW s \in Stage, RecordError(s) PROVE RecordInv'
  <2>1. s \in Recorded
    BY <1>14, <1>b DEF RecordError
  <2> QED
    BY <1>14, <1>a, <1>b, <2>1 DEF RecordError
<1>15. ASSUME NEW s \in Stage, Release(s) PROVE RecordInv'
  BY <1>15, <1>a, <1>b DEF Release
<1>16. CASE UNCHANGED vars
  BY <1>16, <1>a, <1>b DEF vars
<1> QED
  BY <1>1, <1>2, <1>3, <1>4, <1>5, <1>6, <1>7, <1>8,
     <1>9, <1>10, <1>11, <1>12, <1>13, <1>14, <1>15, <1>16 DEF Next, Dispatch, Work

LEMMA SnapshotStep ==
    ASSUME IInv, [Next]_vars
    PROVE  SnapshotHasDependencies'
<1>a. TypeOK /\ SnapshotHasDependencies
  BY DEF IInv
<1> USE DEF Goto, pipeline, dispatcher, call, shared, TypeOK, SnapshotHasDependencies, Prepared
<1>1. CASE Cancel
  BY <1>1, <1>a DEF Cancel
<1>2. CASE CheckContext
  BY <1>2, <1>a DEF CheckContext
<1>3. CASE FindReady
  BY <1>3, <1>a DEF FindReady
<1>4. ASSUME NEW s \in Stage, Launch(s) PROVE SnapshotHasDependencies'
  BY <1>4, <1>a DEF Launch
<1>5. CASE Return
  BY <1>5, <1>a DEF Return
<1>6. ASSUME NEW s \in Stage, Acquire(s) PROVE SnapshotHasDependencies'
  BY <1>6, <1>a DEF Acquire
<1>7. ASSUME NEW s \in Stage, CheckFailFast(s) PROVE SnapshotHasDependencies'
  BY <1>7, <1>a DEF CheckFailFast
<1>8. ASSUME NEW s \in Stage, PublishSkip(s) PROVE SnapshotHasDependencies'
  BY <1>8, <1>a DEF PublishSkip
<1>9. ASSUME NEW s \in Stage, TakeSnapshot(s) PROVE SnapshotHasDependencies'
  <2>1. dependsOn[s] \subseteq Completed
    BY <1>9 DEF TakeSnapshot, IInv, LaunchInv
  <2> QED
    BY <1>9, <1>a, <2>1 DEF TakeSnapshot
<1>10. ASSUME NEW s \in Stage, BeginStage(s) PROVE SnapshotHasDependencies'
  BY <1>10, <1>a DEF BeginStage
<1>11. ASSUME NEW s \in Stage, NEW r \in {"success", "failed"}, EndStage(s, r) PROVE SnapshotHasDependencies'
  BY <1>11, <1>a DEF EndStage
<1>12. ASSUME NEW s \in Stage, AppendResult(s) PROVE SnapshotHasDependencies'
  BY <1>12, <1>a DEF AppendResult
<1>13. ASSUME NEW s \in Stage, Publish(s) PROVE SnapshotHasDependencies'
  BY <1>13, <1>a DEF Publish
<1>14. ASSUME NEW s \in Stage, RecordError(s) PROVE SnapshotHasDependencies'
  BY <1>14, <1>a DEF RecordError
<1>15. ASSUME NEW s \in Stage, Release(s) PROVE SnapshotHasDependencies'
  BY <1>15, <1>a DEF Release
<1>16. CASE UNCHANGED vars
  BY <1>16, <1>a DEF vars
<1> QED
  BY <1>1, <1>2, <1>3, <1>4, <1>5, <1>6, <1>7, <1>8,
     <1>9, <1>10, <1>11, <1>12, <1>13, <1>14, <1>15, <1>16 DEF Next, Dispatch, Work

\* The only step that writes the results appends a stage that is not there
\* yet, and whose dependencies are.
LEMMA ResultsStep ==
    ASSUME IInv, [Next]_vars
    PROVE  ResultsFollowDependencies'
<1>a. TypeOK /\ ResultsFollowDependencies
  BY DEF IInv
<1>b. ASSUME NEW s \in Stage, AppendResult(s) PROVE ResultsFollowDependencies'
  <2>1. /\ results' = Append(results, s)
        /\ results \in Seq(Stage)
        /\ dependsOn' = dependsOn
    BY <1>b, <1>a DEF AppendResult, TypeOK, pipeline
  <2>2. s \notin Recorded /\ dependsOn[s] \subseteq Recorded
    BY <1>b DEF AppendResult, Goto, IInv, RecordInv, Past
  <2>3. /\ Len(results) \in Nat
        /\ Len(results') = Len(results) + 1
        /\ \A i \in 1..Len(results) : results'[i] = results[i]
        /\ results'[Len(results) + 1] = s
    BY <2>1, AppendProperties, LenProperties
  <2> SUFFICES ASSUME NEW i \in 1..Len(results')
               PROVE  /\ \A j \in 1..(i - 1) : results'[j] # results'[i]
                      /\ \A d \in dependsOn[results'[i]] : \E j \in 1..(i - 1) : results'[j] = d
    BY <2>1 DEF ResultsFollowDependencies
  <2>4. CASE i \in 1..Len(results)
    <3>1. \A j \in 1..(i - 1) : j \in 1..Len(results)
      BY <2>4, <2>3
    <3>2. /\ \A j \in 1..(i - 1) : results[j] # results[i]
          /\ \A d \in dependsOn[results[i]] : \E j \in 1..(i - 1) : results[j] = d
      BY <2>4, <1>a DEF ResultsFollowDependencies
    <3> QED
      BY <2>4, <2>3, <3>1, <3>2
  <2>5. CASE i = Len(results) + 1
    <3>1. 1..(i - 1) = 1..Len(results)
      BY <2>5, <2>3
    <3>2. \A j \in 1..Len(results) : results[j] \in Recorded
      BY DEF Recorded
    <3>3. \A d \in Recorded : \E j \in 1..Len(results) : results[j] = d
      BY DEF Recorded
    <3> QED
      BY <2>5, <2>3, <2>2, <3>1, <3>2, <3>3
  <2> QED
    BY <2>3, <2>4, <2>5
<1>c. ASSUME results' = results, dependsOn' = dependsOn PROVE ResultsFollowDependencies'
  <2> DEFINE Ordered(q, deps) ==
        \A i \in 1..Len(q) :
            /\ \A j \in 1..(i - 1) : q[j] # q[i]
            /\ \A d \in deps[q[i]] : \E j \in 1..(i - 1) : q[j] = d
  <2>1. Ordered(results, dependsOn)
    BY <1>a DEF ResultsFollowDependencies
  <2> HIDE DEF Ordered
  <2>2. Ordered(results', dependsOn')
    BY <1>c, <2>1
  <2> QED
    BY <2>2 DEF Ordered, ResultsFollowDependencies
<1>d. (\E s \in Stage : AppendResult(s)) \/ (results' = results /\ dependsOn' = dependsOn)
  <2>1. CASE UNCHANGED vars
    BY <2>1 DEF vars, pipeline, shared
  <2>2. CASE Cancel \/ Dispatch
    BY <2>2 DEF Dispatch, pipeline, shared, dispatcher, call, Cancel, CheckContext,
       FindReady, Launch, Return
  <2>3. ASSUME NEW s \in Stage, Work(s), ~AppendResult(s)
        PROVE  results' = results /\ dependsOn' = dependsOn
    BY <2>3 DEF Work, pipeline, shared, dispatcher, call, Acquire, CheckFailFast,
       PublishSkip, TakeSnapshot, BeginStage, EndStage, Publish, RecordError, Release
  <2> QED
    BY <2>1, <2>2, <2>3 DEF Next
<1> QED
  BY <1>b, <1>c, <1>d

\* Execute returns after wg.Wait with every goroutine done, and then nothing moves.
LEMMA ReturnStep ==
    ASSUME IInv, [Next]_vars
    PROVE  ReturnAccountsForAll'
<1>a. TypeOK /\ LaunchInv /\ OutcomeInv /\ ErrorInv /\ RecordInv
  BY DEF IInv
<1> USE NoErrorAssumption
<1>1. CASE Return
  <2>1. pending = {} /\ pending' = pending /\ dispatch' = "returned"
    BY <1>1, <1>a DEF Return, LaunchInv
  <2>2. \A s \in Stage : worker[s] = "done"
    BY <1>1, <1>a, <2>1 DEF Return, LaunchInv, TypeOK
  <2>3. \A s \in Stage : completed[s] = IF s \in Recorded THEN outcome[s] ELSE "skipped"
    BY <1>a, <2>2 DEF OutcomeInv, RecordInv, Past
  <2>4. firstErr # NoError <=> \E s \in Stage : IsError(completed[s])
    BY <1>a, <2>2 DEF ErrorInv, TypeOK
  <2>5. verdict' = IF \E s \in Stage : IsError(completed[s]) THEN "failed" ELSE "success"
    <3>1. CASE firstErr # NoError
      BY <1>1, <2>4, <3>1 DEF Return
    <3>2. CASE firstErr = NoError
      <4>1. \A i \in 1..Len(results) : results[i] \in Stage /\ results[i] \in Recorded
        BY <1>a, ElementOfSeq DEF TypeOK, Recorded
      <4>2. \A i \in 1..Len(results) : outcome[results[i]] \notin {"failed", "canceled"}
        BY <4>1, <2>3, <2>4, <3>2 DEF IsError
      <4>3. determineOverallStatus({outcome[results[i]] : i \in 1..Len(results)}) = "success"
        BY <4>2 DEF determineOverallStatus
      <4> QED
        BY <1>1, <2>4, <3>2, <4>3 DEF Return
    <3> QED
      BY <3>1, <3>2
  <2>6. /\ UNCHANGED <<worker, completed, outcome, results>>
        /\ returned' = results
    BY <1>1 DEF Return, shared
  <2>7. Recorded' = Recorded
    BY <2>6 DEF Recorded
  <2> QED
    BY <2>2, <2>3, <2>5, <2>6, <2>7 DEF ReturnAccountsForAll
<1>2. CASE dispatch = "returned" /\ pending = {}
  <2>1. \A s \in Stage : worker[s] = "done"
    BY <1>2 DEF IInv, ReturnAccountsForAll
  <2>2. UNCHANGED <<worker, completed, outcome, results, returned, verdict>>
    BY <1>2, <2>1 DEF Next, Dispatch, Work, Goto, vars, pipeline, shared, dispatcher, call,
       Cancel, CheckContext, FindReady, Launch, Return, Acquire, CheckFailFast,
       PublishSkip, TakeSnapshot, BeginStage, EndStage, AppendResult, Publish, RecordError, Release
  <2>3. Recorded' = Recorded
    BY <2>2 DEF Recorded
  <2> QED
    BY <1>2, <2>2, <2>3 DEF IInv, ReturnAccountsForAll
<1>3. CASE ~Return /\ ~(dispatch = "returned" /\ pending = {})
  <2>1. ~(dispatch' = "returned" /\ pending' = {})
    BY <1>3 DEF Next, Dispatch, Work, vars, pipeline, shared, dispatcher, call,
       Cancel, CheckContext, FindReady, Launch, Acquire, CheckFailFast,
       PublishSkip, TakeSnapshot, BeginStage, EndStage, AppendResult, Publish, RecordError, Release
  <2> QED
    BY <2>1 DEF ReturnAccountsForAll
<1> QED
  BY <1>1, <1>2, <1>3

LEMMA HoldersFinite == IsFiniteSet(Holders) /\ Cardinality(Holders) \in Nat
<1>1. Holders \in SUBSET Stage
  BY DEF Holders
<1> QED
  BY <1>1, StageAssumption, FS_Subset, FS_CardinalityType

\* Only Acquire takes a slot, and only when one is free.
LEMMA SlotStep ==
    ASSUME IInv, [Next]_vars
    PROVE  SlotInv'
<1>a. TypeOK /\ SlotInv
  BY DEF IInv
<1>b. IsFiniteSet(Holders) /\ Cardinality(Holders) \in Nat /\ MaxWorkers \in Nat
  BY HoldersFinite, WorkersAssumption
<1>1. ASSUME NEW s \in Stage, Acquire(s) PROVE SlotInv'
  <2>1. Holders' = Holders \cup {s} /\ s \notin Holders
    BY <1>1, <1>a DEF Acquire, Goto, Holders, Holding, TypeOK
  <2>2. Cardinality(Holders') = Cardinality(Holders) + 1
    BY <2>1, <1>b, FS_AddElement
  <2> QED
    BY <2>2, <1>b, <1>1 DEF Acquire, SlotInv
<1>2. ASSUME Holders' \subseteq Holders PROVE SlotInv'
  <2>1. Cardinality(Holders') <= Cardinality(Holders) /\ Cardinality(Holders') \in Nat
    BY <1>2, <1>b, FS_Subset, FS_CardinalityType
  <2> QED
    BY <2>1, <1>a, <1>b DEF SlotInv
<1>3. CASE \A s \in Stage : ~Acquire(s)
  <2>1. Holders' \subseteq Holders
    BY <1>3, <1>a DEF Next, Dispatch, Work, Goto, Holders, Holding, TypeOK, vars, pipeline,
       shared, dispatcher, call, Cancel, CheckContext, FindReady, Launch, Return,
       CheckFailFast, PublishSkip, TakeSnapshot, BeginStage, EndStage, AppendResult,
       Publish, RecordError, Release
  <2> QED
    BY <2>1, <1>2
<1> QED
  BY <1>1, <1>3

-----------------------------------------------------------------------------
(* The theorems.                                                           *)

LEMMA InitInv == Init => IInv
<1> SUFFICES ASSUME Init PROVE IInv
  OBVIOUS
<1>1. TypeOK
  BY InitType
<1>2. Recorded = {} /\ Len(results) = 0
  BY EmptySeq DEF Init, Recorded
<1>3. SlotInv
  <2>1. Holders = {}
    BY DEF Init, Holders, Holding
  <2> QED
    BY <2>1, FS_EmptySet, WorkersAssumption DEF SlotInv
<1>4. LaunchInv /\ OutcomeInv /\ ErrorInv /\ RecordInv
  BY <1>2, NoErrorAssumption DEF Init, LaunchInv, OutcomeInv, ErrorInv, RecordInv,
     Past, Completed, Terminal
<1>5. SnapshotHasDependencies /\ ResultsFollowDependencies /\ ReturnAccountsForAll
  BY <1>2 DEF Init, SnapshotHasDependencies, ResultsFollowDependencies,
     ReturnAccountsForAll, Prepared
<1> QED
  BY <1>1, <1>3, <1>4, <1>5 DEF IInv

LEMMA NextInv == IInv /\ [Next]_vars => IInv'
<1> SUFFICES ASSUME IInv, [Next]_vars PROVE IInv'
  OBVIOUS
<1>1. TypeOK'
  BY NextType DEF IInv
<1> QED
  BY <1>1, LaunchStep, OutcomeStep, ErrorStep, RecordStep, SnapshotStep, ResultsStep,
     ReturnStep, SlotStep DEF IInv

THEOREM Inductive == Spec => []IInv
  BY InitInv, NextInv, PTL DEF Spec

\* The copy of completed a stage works from has all its dependencies.
THEOREM SnapshotComplete == Spec => []SnapshotHasDependencies
<1>1. IInv => SnapshotHasDependencies
  BY DEF IInv
<1> QED
  BY <1>1, Inductive, PTL

\* The results list no stage twice and no stage before its dependencies.
THEOREM ResultsOrdered == Spec => []ResultsFollowDependencies
<1>1. IInv => ResultsFollowDependencies
  BY DEF IInv
<1> QED
  BY <1>1, Inductive, PTL

\* Execute returns, unless canceled, with every stage accounted for.
THEOREM ReturnComplete == Spec => []ReturnAccountsForAll
<1>1. IInv => ReturnAccountsForAll
  BY DEF IInv
<1> QED
  BY <1>1, Inductive, PTL

\* Stages are skipped only in a dry run or after an error with fail-fast.
THEOREM SkipsJustified == Spec => []SkippedOnlyAfterError
<1>1. IInv => SkippedOnlyAfterError
  <2> SUFFICES ASSUME IInv, NEW s \in Stage, completed[s] = "skipped", ~dryRun
               PROVE  failFast /\ firstErr # NoError /\ IsError(completed[firstErr])
    BY DEF SkippedOnlyAfterError
  <2>1. s \notin Recorded
    BY DEF IInv, OutcomeInv
  <2>2. worker[s] \in {"releasing", "done"}
    BY <2>1 DEF IInv, OutcomeInv, RecordInv, Past
  <2> QED
    BY <2>1, <2>2 DEF IInv, RecordInv, ErrorInv
<1> QED
  BY <1>1, Inductive, PTL

\* A published status is never changed.
THEOREM CompletedFinal == Spec => CompletedIsFinal
<1>1. IInv /\ [Next]_vars => [\A s \in Completed : completed'[s] = completed[s]]_vars
  BY CompletedGrows DEF IInv, Completed
<1> QED
  BY <1>1, Inductive, PTL DEF Spec, CompletedIsFinal

-----------------------------------------------------------------------------
(* Fail-fast with one worker.                                              *)

\* Once an error is recorded no goroutine is between the fail-fast check and
\* the end of its stage; an error in the results is the last entry, and is
\* recorded or about to be.
SerialInv ==
    MaxWorkers = 1 /\ failFast =>
        /\ firstErr # NoError =>
              \A s \in Stage : worker[s] \notin {"cleared", "prepared", "running", "ran"}
        /\ \A i \in 1..Len(results) : IsError(outcome[results[i]]) =>
              /\ i = Len(results)
              /\ firstErr # NoError \/ worker[results[i]] \in {"appended", "published"}

\* One slot has one holder.
LEMMA OneHolder ==
    ASSUME IInv, MaxWorkers = 1, NEW s \in Holders, NEW t \in Holders
    PROVE  s = t
<1> SUFFICES ASSUME s # t PROVE FALSE
  OBVIOUS
<1>1. IsFiniteSet({s}) /\ Cardinality({s}) = 1
  BY FS_Singleton
<1>2. Cardinality({s} \cup {t}) = 2
  BY <1>1, FS_AddElement
<1>3. Cardinality({s} \cup {t}) <= Cardinality(Holders)
  BY HoldersFinite, FS_Subset
<1>4. Cardinality(Holders) \in Nat /\ Cardinality(Holders) <= 1
  BY HoldersFinite DEF IInv, SlotInv
<1> QED
  BY <1>2, <1>3, <1>4

\* Fail-fast stays exact in every step of a run with one worker.
LEMMA SerialStep ==
    ASSUME IInv, SerialInv, [Next]_vars
    PROVE  SerialInv'
<1> SUFFICES ASSUME MaxWorkers = 1, failFast'
             PROVE  /\ firstErr' # NoError =>
                          \A s \in Stage : worker'[s] \notin {"cleared", "prepared", "running", "ran"}
                    /\ \A i \in 1..Len(results') : IsError(outcome'[results'[i]]) =>
                          /\ i = Len(results')
                          /\ firstErr' # NoError \/ worker'[results'[i]] \in {"appended", "published"}
  BY DEF SerialInv
<1> DEFINE G1 == firstErr' # NoError =>
                    \A s \in Stage : worker'[s] \notin {"cleared", "prepared", "running", "ran"}
           G2 == \A i \in 1..Len(results') : IsError(outcome'[results'[i]]) =>
                    /\ i = Len(results')
                    /\ firstErr' # NoError \/ worker'[results'[i]] \in {"appended", "published"}
<1>a. TypeOK
  BY DEF IInv
<1>b. failFast
  <2>1. failFast' = failFast
    BY DEF Next, Dispatch, Work, vars, pipeline, Cancel, CheckContext, FindReady, Launch, Return,
       Acquire, CheckFailFast, PublishSkip, TakeSnapshot, BeginStage, EndStage, AppendResult,
       Publish, RecordError, Release
  <2> QED
    BY <2>1
<1>c. /\ firstErr # NoError =>
            \A s \in Stage : worker[s] \notin {"cleared", "prepared", "running", "ran"}
      /\ \A i \in 1..Len(results) : IsError(outcome[results[i]]) =>
            /\ i = Len(results)
            /\ firstErr # NoError \/ worker[results[i]] \in {"appended", "published"}
  BY <1>b DEF SerialInv
<1>d. \A i \in 1..Len(results) : results[i] \in Stage /\ results[i] \in Recorded
  BY <1>a DEF TypeOK, Recorded
<1>1. ASSUME UNCHANGED <<results, firstErr, outcome, worker>> PROVE G1 /\ G2
  BY <1>1, <1>c
<1>2. ASSUME NEW s \in Stage, NEW to, worker' = [worker EXCEPT ![s] = to],
             UNCHANGED <<results, firstErr, outcome>>,
             to \in {"cleared", "prepared", "running", "ran"} =>
                firstErr = NoError \/ worker[s] \in {"cleared", "prepared", "running", "ran"},
             worker[s] \in {"appended", "published"} => to \in {"appended", "published"}
      PROVE  G1 /\ G2
  <2>1. G1
    BY <1>2, <1>a, <1>c DEF TypeOK
  <2>2. G2
    BY <1>2, <1>a, <1>c, <1>d DEF TypeOK
  <2> QED
    BY <2>1, <2>2
<1>3. ASSUME NEW s \in Stage, NEW r, NEW to \in {"running", "ran"},
             worker[s] \in {"prepared", "running"}, worker' = [worker EXCEPT ![s] = to],
             outcome' = [outcome EXCEPT ![s] = r], UNCHANGED <<results, firstErr>>
      PROVE  G1 /\ G2
  <2>1. s \notin Recorded
    BY <1>3 DEF IInv, RecordInv, Past
  <2>2. \A i \in 1..Len(results) : /\ outcome'[results[i]] = outcome[results[i]]
                                   /\ worker'[results[i]] = worker[results[i]]
    BY <1>3, <1>a, <1>d, <2>1 DEF TypeOK
  <2>3. G1
    BY <1>3, <1>a, <1>c DEF TypeOK
  <2>4. G2
    BY <1>3, <1>c, <2>2
  <2> QED
    BY <2>3, <2>4
<1>4. ASSUME NEW s \in Stage, AppendResult(s) PROVE G1 /\ G2
  <2>1. /\ results' = Append(results, s) /\ results \in Seq(Stage)
        /\ worker[s] = "ran" /\ worker' = [worker EXCEPT ![s] = "appended"]
        /\ UNCHANGED <<outcome, firstErr>>
    BY <1>4, <1>a DEF AppendResult, Goto, TypeOK
  <2>2. firstErr = NoError
    BY <1>c, <2>1
  <2>3. \A t \in Stage : worker[t] \notin {"appended", "published"}
    BY <2>1, OneHolder DEF Holders, Holding
  <2>4. \A i \in 1..Len(results) : ~IsError(outcome[results[i]])
    BY <1>c, <1>d, <2>2, <2>3
  <2>5. /\ Len(results) \in Nat /\ Len(results') = Len(results) + 1
        /\ \A i \in 1..Len(results) : results'[i] = results[i]
        /\ results'[Len(results) + 1] = s
    BY <2>1, AppendProperties, LenProperties
  <2>6. worker'[s] = "appended"
    BY <1>a, <2>1 DEF TypeOK
  <2>7. G1
    BY <2>1, <2>2
  <2>8. G2
    BY <2>1, <2>4, <2>5, <2>6
  <2> QED
    BY <2>7, <2>8
<1>5. ASSUME NEW s \in Stage, RecordError(s) PROVE G1 /\ G2
  <2>1. /\ worker[s] = "published" /\ worker' = [worker EXCEPT ![s] = "releasing"]
        /\ firstErr' = (IF IsError(outcome[s]) /\ firstErr = NoError THEN s ELSE firstErr)
        /\ UNCHANGED <<outcome, results>>
    BY <1>5 DEF RecordError, Goto
  <2>2. \A t \in Stage : t # s => worker[t] \notin Holding
    BY <2>1, OneHolder DEF Holders, Holding
  <2>3. \A t \in Stage : worker'[t] \notin {"cleared", "prepared", "running", "ran"}
    BY <1>a, <2>1, <2>2 DEF TypeOK, Holding
  <2>4. ASSUME NEW i \in 1..Len(results), IsError(outcome[results[i]])
        PROVE  i = Len(results) /\ firstErr' # NoError
    <3>1. CASE firstErr # NoError
      BY <1>c, <2>1, <2>4, <3>1
    <3>2. CASE firstErr = NoError
      <4>1. worker[results[i]] \in {"appended", "published"} /\ results[i] \in Stage
        BY <1>c, <1>d, <2>4, <3>2
      <4>2. results[i] = s
        BY <2>2, <4>1 DEF Holding
      <4> QED
        BY <1>c, <2>1, <2>4, <3>2, <4>2, NoErrorAssumption
    <3> QED
      BY <3>1, <3>2
  <2> QED
    BY <2>1, <2>3, <2>4
<1>6. CASE UNCHANGED vars \/ Cancel \/ CheckContext \/ FindReady \/ Return
  BY <1>1, <1>6 DEF vars, shared, Cancel, CheckContext, FindReady, Return
<1>7. ASSUME NEW s \in Stage, Launch(s) PROVE G1 /\ G2
  <2>1. worker[s] = "none"
    BY <1>7 DEF Launch, IInv, LaunchInv
  <2>2. worker' = [worker EXCEPT ![s] = "queued"] /\ UNCHANGED <<results, firstErr, outcome>>
    BY <1>7 DEF Launch, shared
  <2> QED
    BY <1>2, <2>1, <2>2
<1>8. ASSUME NEW s \in Stage, Work(s), ~AppendResult(s), ~RecordError(s) PROVE G1 /\ G2
  <2>1. CASE CheckFailFast(s)
    <3>1. /\ worker[s] = "admitted" /\ UNCHANGED <<results, firstErr, outcome>>
          /\ worker' = [worker EXCEPT ![s] = IF firstErr # NoError THEN "refused" ELSE "cleared"]
      BY <1>b, <2>1 DEF CheckFailFast, Goto, shared
    <3> QED
      BY <1>2, <3>1
  <2>2. CASE Acquire(s) \/ PublishSkip(s) \/ TakeSnapshot(s) \/ Publish(s) \/ Release(s)
    BY <1>2, <2>2 DEF Acquire, PublishSkip, TakeSnapshot, Publish, Release, Goto, shared
  <2>3. CASE BeginStage(s)
    <3>1. /\ worker[s] = "prepared" /\ UNCHANGED <<results, firstErr>>
          /\ \/ worker' = [worker EXCEPT ![s] = "running"] /\ UNCHANGED outcome
             \/ /\ worker' = [worker EXCEPT ![s] = "ran"]
                /\ outcome' = [outcome EXCEPT ![s] = IF dryRun THEN "skipped" ELSE "canceled"]
      BY <2>3 DEF BeginStage, Goto, shared
    <3> QED
      BY <1>2, <1>3, <3>1
  <2>4. CASE \E r \in {"success", "failed"} : EndStage(s, r)
    BY <1>3, <2>4 DEF EndStage, Goto, shared
  <2> QED
    BY <1>8, <2>1, <2>2, <2>3, <2>4 DEF Work
<1> QED
  BY <1>4, <1>5, <1>6, <1>7, <1>8 DEF Next, Dispatch

\* With one worker the stage that failed is the last one in the results of a
\* fail-fast pipeline.
THEOREM SerialFailFastExact == Spec => []SerialFailFast
<1>1. Init => SerialInv
  BY EmptySeq DEF Init, SerialInv
<1>2. SerialInv => SerialFailFast
  BY DEF SerialInv, SerialFailFast
<1> QED
  BY <1>1, <1>2, Inductive, SerialStep, PTL DEF Spec

-----------------------------------------------------------------------------
(* Refinement: the executor implements StageLifecycle.                    *)

LEMMA SameCardinality == \A S : Lifecycle!Cardinality(S) = Cardinality(S)
  BY DEF Lifecycle!Cardinality, Cardinality

LEMMA InitRefines == Init => Lifecycle!Init
  BY DEF Init, Lifecycle!Init, Status, ValidDependencies

\* A stage with an entry in completed is finished.
LEMMA FinishedDependencies ==
    ASSUME IInv
    PROVE  \A s \in Stage : dependsOn[s] \subseteq Completed =>
                                dependsOn[s] \subseteq Lifecycle!Finished
<1>1. \A d \in Completed : Status[d] \in Terminal
  BY DEF IInv, TypeOK, OutcomeInv, Completed, Status, Past, StageStatus
<1> QED
  BY <1>1 DEF Completed, Lifecycle!Finished, Lifecycle!Terminal, Terminal, IInv, TypeOK

\* executeStage is entered: the dependencies are finished and there is a slot.
LEMMA BeginRefines ==
    ASSUME IInv, NEW s \in Stage, BeginStage(s)
    PROVE  Lifecycle!Start(s)
<1>a. TypeOK /\ OutcomeInv /\ SlotInv
  BY DEF IInv
<1>b. /\ worker[s] = "prepared"
      /\ worker' \in {[worker EXCEPT ![s] = "running"], [worker EXCEPT ![s] = "ran"]}
      /\ UNCHANGED <<completed, dependsOn, verdict>>
  BY DEF BeginStage, Goto, pipeline, shared, call
<1>1. Status[s] = "pending"
  BY <1>a, <1>b DEF Status, OutcomeInv, Past
<1>2. Status' = [Status EXCEPT ![s] = "running"]
  BY <1>a, <1>b DEF Status, TypeOK
<1>3. dependsOn[s] \subseteq Lifecycle!Finished
  BY <1>b, FinishedDependencies DEF IInv, LaunchInv
<1>4. Cardinality(Lifecycle!Running) < MaxWorkers
  <2>1. Lifecycle!Running \subseteq Holders \ {s}
    BY <1>1, <1>a DEF Lifecycle!Running, Status, Holders, Holding, OutcomeInv
  <2>2. s \in Holders
    BY <1>b DEF Holders, Holding
  <2>3. /\ IsFiniteSet(Holders \ {s})
        /\ Cardinality(Holders \ {s}) = Cardinality(Holders) - 1
    BY <2>2, HoldersFinite, FS_RemoveElement
  <2>4. /\ Cardinality(Lifecycle!Running) <= Cardinality(Holders \ {s})
        /\ Cardinality(Lifecycle!Running) \in Nat
    BY <2>1, <2>3, FS_Subset, FS_CardinalityType
  <2> QED
    BY <2>3, <2>4, <1>a, HoldersFinite, WorkersAssumption DEF SlotInv
<1> QED
  BY <1>1, <1>2, <1>3, <1>4, <1>b, SameCardinality DEF Lifecycle!Start

\* The status of a stage is published.
LEMMA PublishRefines ==
    ASSUME IInv, NEW s \in Stage, Publish(s)
    PROVE  Lifecycle!Finish(s)
<1>a. TypeOK /\ OutcomeInv
  BY DEF IInv
<1>b. /\ worker[s] = "appended"
      /\ worker' = [worker EXCEPT ![s] = "published"]
      /\ completed' = [completed EXCEPT ![s] = outcome[s]]
      /\ outcome[s] \in Terminal
      /\ UNCHANGED <<dependsOn, verdict>>
  BY <1>a DEF Publish, Goto, pipeline, call, OutcomeInv
<1>1. Status[s] = "running"
  BY <1>b DEF Status
<1>2. Status' = [Status EXCEPT ![s] = outcome[s]]
  BY <1>a, <1>b DEF Status, TypeOK
<1> QED
  BY <1>1, <1>2, <1>b DEF Lifecycle!Finish, Lifecycle!Terminal, Terminal

\* A stage is skipped by fail-fast.
LEMMA SkipRefines ==
    ASSUME IInv, NEW s \in Stage, PublishSkip(s)
    PROVE  Lifecycle!Skip(s)
<1>a. TypeOK /\ OutcomeInv /\ ErrorInv
  BY DEF IInv
<1>b. /\ worker[s] = "refused"
      /\ worker' = [worker EXCEPT ![s] = "releasing"]
      /\ completed' = [completed EXCEPT ![s] = "skipped"]
      /\ UNCHANGED <<dependsOn, verdict>>
  BY DEF PublishSkip, Goto, pipeline, call
<1>1. Status[s] = "pending"
  BY <1>a, <1>b DEF Status, OutcomeInv, Past
<1>2. Status' = [Status EXCEPT ![s] = "skipped"]
  BY <1>a, <1>b DEF Status, TypeOK
<1>3. dependsOn[s] \subseteq Lifecycle!Finished
  BY <1>b, FinishedDependencies DEF IInv, LaunchInv
<1>4. firstErr \in Stage /\ Status[firstErr] \in {"failed", "canceled"}
  BY <1>a, <1>b DEF ErrorInv, TypeOK, Status, IsError
<1> QED
  BY <1>1, <1>2, <1>3, <1>4, <1>b DEF Lifecycle!Skip

\* Execute returns: its status is success only if every stage ended well.
LEMMA ReturnRefines ==
    ASSUME IInv, Return
    PROVE  \E v \in {"success", "failed", "canceled"} : Lifecycle!Return(v)
<1>a. TypeOK /\ LaunchInv /\ OutcomeInv /\ ErrorInv
  BY DEF IInv
<1>1. /\ verdict = "none"
      /\ UNCHANGED <<dependsOn, worker, completed>>
      /\ verdict' \in {"success", "failed", "canceled"}
      /\ verdict' = "success" => firstErr = NoError
  BY <1>a DEF Return, LaunchInv, pipeline, shared, determineOverallStatus
<1>2. \A s \in Stage : worker[s] = "done"
  BY <1>a DEF Return, LaunchInv, TypeOK
<1>3. \A s \in Stage : Status[s] = completed[s] /\ Status[s] \in Terminal
  BY <1>2, <1>a DEF Status, OutcomeInv, TypeOK, Past, StageStatus
<1>4. firstErr = NoError => \A s \in Stage : Status[s] \in {"success", "skipped"}
  BY <1>2, <1>3, <1>a DEF ErrorInv, IsError, Terminal
<1>5. Status' = Status
  BY <1>1 DEF Status
<1> QED
  BY <1>1, <1>4, <1>5 DEF Lifecycle!Return

\* The early return of a canceled execution.
LEMMA CancelRefines ==
    ASSUME IInv, CheckContext
    PROVE  Lifecycle!Return("failed") \/ UNCHANGED <<dependsOn, Status, verdict>>
<1>1. verdict = "none"
  BY DEF IInv, LaunchInv, CheckContext
<1>2. UNCHANGED <<dependsOn, worker, completed>>
  BY DEF CheckContext, pipeline, shared
<1>3. Status' = Status
  BY <1>2 DEF Status
<1>4. verdict' = "failed" \/ verdict' = verdict
  BY DEF CheckContext, call
<1> QED
  BY <1>1, <1>2, <1>3, <1>4 DEF Lifecycle!Return

\* Every other step leaves the abstract state alone.
LEMMA OtherRefines ==
    ASSUME IInv, [Next]_vars,
           ~CheckContext, ~Return,
           \A s \in Stage : ~BeginStage(s) /\ ~Publish(s) /\ ~PublishSkip(s)
    PROVE  UNCHANGED <<dependsOn, Status, verdict>>
<1>a. TypeOK /\ LaunchInv /\ OutcomeInv
  BY DEF IInv
<1>1. UNCHANGED <<dependsOn, completed, verdict>>
  BY DEF Next, Dispatch, Work, vars, pipeline, shared, dispatcher, call, Cancel, FindReady,
     Launch, Acquire, CheckFailFast, TakeSnapshot, EndStage, AppendResult, RecordError, Release
<1>2. \A s \in Stage : worker'[s] \in {"running", "ran", "appended"}
                         <=> worker[s] \in {"running", "ran", "appended"}
  BY <1>a DEF Next, Dispatch, Work, Goto, TypeOK, LaunchInv, vars, dispatcher, Cancel, FindReady,
     Launch, Acquire, CheckFailFast, TakeSnapshot, EndStage, AppendResult, RecordError, Release
<1>3. Status' = Status
  BY <1>1, <1>2 DEF Status
<1> QED
  BY <1>1, <1>3

LEMMA NextRefines == IInv /\ [Next]_vars => [Lifecycle!Next]_(Lifecycle!vars)
<1> SUFFICES ASSUME IInv, [Next]_vars, ~UNCHANGED <<dependsOn, Status, verdict>>
             PROVE  Lifecycle!Next
  BY DEF Lifecycle!vars
<1> USE DEF Lifecycle!Next
<1>1. CASE CheckContext
  BY <1>1, CancelRefines
<1>2. CASE Return
  BY <1>2, ReturnRefines
<1>3. ASSUME NEW s \in Stage, BeginStage(s) PROVE Lifecycle!Next
  BY <1>3, BeginRefines
<1>4. ASSUME NEW s \in Stage, Publish(s) PROVE Lifecycle!Next
  BY <1>4, PublishRefines
<1>5. ASSUME NEW s \in Stage, PublishSkip(s) PROVE Lifecycle!Next
  BY <1>5, SkipRefines
<1> QED
  BY <1>1, <1>2, <1>3, <1>4, <1>5, OtherRefines

\* The parallel executor keeps the promises of StageLifecycle.
THEOREM Refinement == Spec => ImplementsLifecycle
<1>1. IInv /\ [Next]_vars => [Lifecycle!Next]_(Lifecycle!vars)
  BY NextRefines
<1> QED
  BY <1>1, InitRefines, Inductive, PTL DEF Spec, ImplementsLifecycle, Lifecycle!Spec
=============================================================================
