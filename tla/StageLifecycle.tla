--------------------------- MODULE StageLifecycle ---------------------------
(***************************************************************************)
(* What an execution of a pipeline promises, whichever executor runs it:   *)
(* a stage starts at most once, only when everything it depends on is      *)
(* finished, at most MaxWorkers stages run at a time, a finished stage     *)
(* never changes its status, and Execute reports success only when every   *)
(* stage has ended and none failed or was canceled.                        *)
(***************************************************************************)
EXTENDS PipelineModel

CONSTANT MaxWorkers

VARIABLES
    dependsOn,  \* the pipeline's dependency graph
    status,     \* status[s] is the StageStatus of s
    verdict     \* "none", then the Status of the result Execute returns

vars == <<dependsOn, status, verdict>>

Running == {s \in Stage : status[s] = "running"}
Finished == {s \in Stage : status[s] \in Terminal}

Init ==
    /\ dependsOn \in [Stage -> SUBSET Stage]
    /\ status = [s \in Stage |-> "pending"]
    /\ verdict = "none"

\* A stage is started once, when its dependencies are finished.
Start(s) ==
    /\ status[s] = "pending"
    /\ dependsOn[s] \subseteq Finished
    /\ Cardinality(Running) < MaxWorkers
    /\ status' = [status EXCEPT ![s] = "running"]
    /\ UNCHANGED <<dependsOn, verdict>>

Finish(s) ==
    /\ status[s] = "running"
    /\ status' \in {[status EXCEPT ![s] = r] : r \in Terminal}
    /\ UNCHANGED <<dependsOn, verdict>>

\* A stage may be skipped without running, but only after another one went
\* wrong, and never ahead of its dependencies.
Skip(s) ==
    /\ status[s] = "pending"
    /\ dependsOn[s] \subseteq Finished
    /\ \E t \in Stage : status[t] \in {"failed", "canceled"}
    /\ status' = [status EXCEPT ![s] = "skipped"]
    /\ UNCHANGED <<dependsOn, verdict>>

\* Success is reported when every stage ended well; the rest at any time
\* ("invalid" stands for the empty result of a pipeline that is refused).
Return(v) ==
    /\ verdict = "none"
    /\ v = "success" => \A s \in Stage : status[s] \in {"success", "skipped"}
    /\ verdict' = v
    /\ UNCHANGED <<dependsOn, status>>

Next ==
    \/ \E s \in Stage : Start(s) \/ Finish(s) \/ Skip(s)
    \/ \E v \in {"success", "failed", "canceled", "invalid"} : Return(v)

Spec == Init /\ [][Next]_vars
=============================================================================
