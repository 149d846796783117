----------------------------- MODULE DeployGates ----------------------------
(***************************************************************************)
(* internal/gates: Deploy and Rollback of DefaultDeploymentGates.  Several *)
(* callers may deploy one Helm release at a time, and an operator may roll *)
(* it back; nothing locks them out from each other.  Every call of the     *)
(* Helm or the Kubernetes client is one step.  Both are external: of Helm  *)
(* the history of the release is kept, of the cluster only the answers.    *)
(***************************************************************************)
EXTENDS Gates, FiniteSets

CONSTANTS
    Deployer,       \* callers of Deploy
    Operator        \* the caller of Rollback, and of the first installation

ASSUME DeployerAssumption == Operator \notin Deployer /\ IsFiniteSet(Deployer)

VARIABLES
    kube,       \* is there a Kubernetes client? without it no post gates
    dryRun,     \* cfg.DryRun
    opts,       \* opts[d]: the options post (PostCheck # nil) and auto (AutoRollback)
    history,    \* revisions of the release, the first one is revision 1
    pc,         \* pc[d]: where Deploy is
    cleared,    \* cleared[d]: nothing known to d speaks against deploying
    prev,       \* prev[d]: result.PreviousRevision, 0 when it is not known
    decisions,  \* decisions[d]: what the post gates said, TRUE for passed
    attempted,  \* attempted[d]: has the rollback handler been called?
    report,     \* report[d]: Status and RolledBack of the result
    op          \* the operator's Rollback: where it is and its target

config  == <<kube, dryRun, opts>>
deploy  == <<pc, cleared, prev, decisions, attempted, report>>
vars == <<config, history, deploy, op>>

-----------------------------------------------------------------------------
DeployPC == {"start", "precheck", "upgrade", "health", "readiness", "rollback", "returned"}
DeployStatus == {"none", "success", "pre_check_failed", "post_check_failed",
                 "failed", "rolled_back"}

\* A revision: whether Helm deployed it, who asked for it, and the revision
\* it goes back to (0 for an upgrade or an installation).
Revision(status, by, back) == [status |-> status, by |-> by, back |-> back]

Init ==
    /\ kube \in BOOLEAN
    /\ dryRun \in BOOLEAN
    /\ opts \in [Deployer -> [post : BOOLEAN, auto : BOOLEAN]]
    /\ history \in {<<>>, <<Revision("deployed", Operator, 0)>>}
    /\ pc = [d \in Deployer |-> "start"]
    /\ cleared = [d \in Deployer |-> FALSE]
    /\ prev = [d \in Deployer |-> 0]
    /\ decisions = [d \in Deployer |-> <<>>]
    /\ attempted = [d \in Deployer |-> FALSE]
    /\ report = [d \in Deployer |-> [status |-> "none", rolledBack |-> FALSE]]
    /\ op = [pc |-> "idle", target |-> 0]

-----------------------------------------------------------------------------
(* Helm, by its client in internal/helm.                                   *)

RevisionNumbers == 1..Len(history)

\* Get: the last revision, whatever became of it.
CurrentRevision == Len(history)

HelmSucceeds(by, back) == history' = Append(history, Revision("deployed", by, back))
HelmFails(by, back) == history' = Append(history, Revision("failed", by, back))

\* Upgrade: a chart that cannot be loaded, an unknown release and one that is
\* locked leave no trace; later Helm keeps a failed revision.
HelmUpgrade(by, succeeds) ==
    IF succeeds
    THEN history # <<>> /\ HelmSucceeds(by, 0)
    ELSE UNCHANGED history \/ (history # <<>> /\ HelmFails(by, 0))

\* Rollback to a revision writes a new one.
HelmRollback(by, revision, succeeds) ==
    IF succeeds
    THEN revision \in RevisionNumbers /\ HelmSucceeds(by, revision)
    ELSE UNCHANGED history \/ (revision \in RevisionNumbers /\ HelmFails(by, revision))

-----------------------------------------------------------------------------
(* Deploy.                                                                 *)

Goto(d, from, to) ==
    /\ pc[d] = from
    /\ pc' = [pc EXCEPT ![d] = to]

ReturnStatus(d, from, status) ==
    /\ Goto(d, from, "returned")
    /\ report' = [report EXCEPT ![d].status = status]

\* GetCurrentRevision may fail, always for an unknown release; then the
\* previous revision is left 0 and Deploy goes on.
ReadRevision(d) ==
    /\ Goto(d, "start", "precheck")
    /\ prev' \in {prev, [prev EXCEPT ![d] = CurrentRevision]}
    /\ UNCHANGED <<config, cleared, history, decisions, attempted, report, op>>

\* How a pre-check may end, and whether anything spoke against deploying:
\* none was asked for, the context was canceled, or the gates have run.
PreCheckEnds(end, clear) ==
    \/ end = "passed" /\ clear
    \/ end = "error" /\ ~clear
    \/ \E f \in Findings, answer \in PolicyAnswers :
          end = PreCheckRun(f, answer) /\ (clear <=> Cleared(f, answer))

\* The pre-deployment gates pass or stop the deployment; so does an error.  A
\* dry run ends here.
PreCheck(d) ==
    /\ pc[d] = "precheck"
    /\ \E end \in {"passed", "failed", "error"}, clear \in BOOLEAN :
          /\ PreCheckEnds(end, clear)
          /\ cleared' = [cleared EXCEPT ![d] = clear]
          /\ IF end # "passed"
             THEN ReturnStatus(d, "precheck", "pre_check_failed")
             ELSE IF dryRun
             THEN ReturnStatus(d, "precheck", "success")
             ELSE Goto(d, "precheck", "upgrade") /\ UNCHANGED report
    /\ UNCHANGED <<config, history, prev, decisions, attempted, op>>

\* Faulty: a failed upgrade is not rolled back.
OnFailurePostCheckOnly(d, from, status) ==
    /\ report' = [report EXCEPT ![d].status = status]
    /\ IF opts[d].auto /\ prev[d] > 0 /\ from # "upgrade"
       THEN Goto(d, from, "rollback")
       ELSE Goto(d, from, "returned")

\* What the three failure paths of Deploy have in common: the status, then
\* the rollback handler if it is wanted and a previous revision is known.
OnFailure(d, from, status) ==
    /\ report' = [report EXCEPT ![d].status = status]
    /\ IF opts[d].auto /\ prev[d] > 0
       THEN Goto(d, from, "rollback")
       ELSE Goto(d, from, "returned")

\* The release is upgraded, and the post-check follows if there is one.
Upgrade(d) ==
    /\ \/ /\ HelmUpgrade(d, TRUE)
          /\ IF opts[d].post /\ kube
             THEN Goto(d, "upgrade", "health") /\ UNCHANGED report
             ELSE ReturnStatus(d, "upgrade", "success")
       \/ /\ HelmUpgrade(d, FALSE)
          /\ OnFailure(d, "upgrade", "failed")
    /\ UNCHANGED <<config, cleared, prev, decisions, attempted, op>>

Decide(d, passed) == decisions' = [decisions EXCEPT ![d] = Append(@, passed)]

\* The health gate compares the share of healthy pods, whichever revision
\* they are of, with its threshold; its decision is kept for later.  An error
\* of the client or a canceled context ends the check.
HealthGate(d) ==
    /\ \/ /\ \E passed \in BOOLEAN : Decide(d, passed)
          /\ Goto(d, "health", "readiness")
          /\ UNCHANGED report
       \/ OnFailure(d, "health", "post_check_failed") /\ UNCHANGED decisions
    /\ UNCHANGED <<config, cleared, history, prev, attempted, op>>

\* The readiness gate polls until the pods are ready (passed) or its timeout
\* expires (failed); then the two decisions make the result.
ReadinessGate(d) ==
    /\ \/ \E passed \in BOOLEAN :
            /\ Decide(d, passed)
            /\ IF passed /\ decisions[d] = <<TRUE>>
               THEN ReturnStatus(d, "readiness", "success")
               ELSE OnFailure(d, "readiness", "post_check_failed")
       \/ OnFailure(d, "readiness", "post_check_failed") /\ UNCHANGED decisions
    /\ UNCHANGED <<config, cleared, history, prev, attempted, op>>

RollBackTo(by, revision) == \E succeeds \in BOOLEAN : HelmRollback(by, revision, succeeds)

\* Faulty: the revision is left for the handler to find.
AutoRollbackToPrevious(d) ==
    /\ Goto(d, "rollback", "returned")
    /\ attempted' = [attempted EXCEPT ![d] = TRUE]
    /\ LET revision == IF CurrentRevision > 1 THEN CurrentRevision - 1 ELSE 1
       IN  \/ /\ HelmRollback(d, revision, TRUE)
              /\ report' = [report EXCEPT ![d] = [status |-> "rolled_back", rolledBack |-> TRUE]]
           \/ /\ HelmRollback(d, revision, FALSE)
              /\ UNCHANGED report
    /\ UNCHANGED <<config, cleared, prev, decisions, op>>

\* The rollback handler, with the revision read at the start; its error
\* leaves the status of the failure.
AutoRollback(d) ==
    /\ Goto(d, "rollback", "returned")
    /\ attempted' = [attempted EXCEPT ![d] = TRUE]
    /\ \/ /\ HelmRollback(d, prev[d], TRUE)
          /\ report' = [report EXCEPT ![d] = [status |-> "rolled_back", rolledBack |-> TRUE]]
       \/ /\ HelmRollback(d, prev[d], FALSE)
          /\ UNCHANGED report
    /\ UNCHANGED <<config, cleared, prev, decisions, op>>

Deploy(d) ==
    \/ ReadRevision(d) \/ PreCheck(d) \/ Upgrade(d)
    \/ HealthGate(d) \/ ReadinessGate(d) \/ AutoRollback(d)

-----------------------------------------------------------------------------
(* Rollback without a revision: the handler looks for the previous one.    *)

\* GetPreviousRevision: current - 1; an error when there is none, or when
\* Helm has one.
FindPrevious ==
    /\ op.pc = "idle"
    /\ \/ op' = [pc |-> "done", target |-> 0]
       \/ /\ CurrentRevision > 1
          /\ op' = [pc |-> "found", target |-> CurrentRevision - 1]
    /\ UNCHANGED <<config, history, deploy>>

\* By now others may have added revisions.
OperatorRollback ==
    /\ op.pc = "found"
    /\ op' = [op EXCEPT !.pc = "done"]
    /\ RollBackTo(Operator, op.target)
    /\ UNCHANGED <<config, deploy>>

-----------------------------------------------------------------------------
Next ==
    \/ \E d \in Deployer : Deploy(d)
    \/ FindPrevious \/ OperatorRollback

Spec == Init /\ [][Next]_vars

-----------------------------------------------------------------------------
(* What must hold.                                                         *)

TypeOK ==
    /\ \A r \in RevisionNumbers :
          /\ history[r].status \in {"deployed", "failed"}
          /\ history[r].by \in Deployer \cup {Operator}
          /\ history[r].back \in 0..(r - 1)
    /\ pc \in [Deployer -> DeployPC]
    /\ cleared \in [Deployer -> BOOLEAN]
    /\ prev \in [Deployer -> 0..Len(history)]
    /\ decisions \in [Deployer -> Seq(BOOLEAN)]
    /\ \A d \in Deployer : Len(decisions[d]) <= 2
    /\ attempted \in [Deployer -> BOOLEAN]
    /\ report \in [Deployer -> [status : DeployStatus, rolledBack : BOOLEAN]]
    /\ op \in [pc : {"idle", "found", "done"}, target : 0..Len(history)]

\* The result tells of Helm what happened, whoever else deploys meanwhile: a
\* deployment that reports success has its upgrade among the deployed
\* revisions, one that says it was rolled back has a deployed revision that
\* goes back, and no other has; a dry run, a refused deployment and one with
\* findings or a policy against it leave no revision at all.
ReportTellsHelm ==
    \A d \in Deployer :
        LET own == {r \in RevisionNumbers : history[r].by = d}
            deployed == {r \in own : history[r].status = "deployed"}
        IN  /\ dryRun \/ ~cleared[d] \/ report[d].status = "pre_check_failed" => own = {}
            /\ pc[d] = "returned" =>
                  /\ report[d].status = "success" /\ ~dryRun =>
                        \E r \in deployed : history[r].back = 0
                  /\ report[d].rolledBack <=> \E r \in deployed : history[r].back > 0
                  /\ report[d].rolledBack <=> report[d].status = "rolled_back"

\* An automatic rollback goes back to a revision from before the deployment's
\* own, although the other callers have moved the release on since: it never
\* restores the revision that has just failed.
RestoresOlderRevision ==
    \A r \in RevisionNumbers :
        history[r].by \in Deployer /\ history[r].back > 0 =>
            /\ history[history[r].back].by # history[r].by
            /\ \A own \in RevisionNumbers :
                  history[own].by = history[r].by => history[r].back < own

\* A deployment that failed after it began to change the release, with
\* automatic rollback on and a known previous revision, does not return
\* without having called the rollback handler, whichever way it failed.
FailureTriesRollback ==
    \A d \in Deployer :
        pc[d] = "returned" /\ opts[d].auto /\ prev[d] > 0
        /\ report[d].status \in {"failed", "post_check_failed", "rolled_back"} => attempted[d]

-----------------------------------------------------------------------------
(* What the documentation says of Rollback.                                *)

\* GetPreviousRevision "gets the previous healthy revision": one that Helm
\* deployed.
PreviousIsHealthy ==
    op.target > 0 => history[op.target].status = "deployed"
=============================================================================
