------------------------------- MODULE Rollout ------------------------------
(***************************************************************************)
(* One post-deployment check of internal/gates, call by call of the        *)
(* Kubernetes client, while the pods change: what DeployGates takes for    *)
(* one answer per gate.  Answers of the API server may be errors, the      *)
(* context may be canceled, and the wait for readiness has a timeout.      *)
(***************************************************************************)
EXTENDS Cluster, Gates

VARIABLES
    gates,      \* the post gates: the default two, or those that were added
    canceled,   \* is the context done?
    check,      \* Run: where it is, the gate at hand, its decisions, its outcome
    waited,     \* what the readiness half of a combined gate decided
    seen        \* what has been so since the upgrade

rollout == <<cluster, gates, canceled, check, waited, seen>>
runner == <<gates, check, waited>>

-----------------------------------------------------------------------------
GateLists == {<<>>, <<"health", "readiness">>, <<"combined">>, <<"combined", "health">>}

\* What the API server would answer now.
Facts ==
    (IF HealthDecision(CheckPodHealth) THEN {"healthy"} ELSE {"unhealthy"})
    \cup (IF published.available /\ published.ready = Replicas THEN {"ready"} ELSE {})

RolloutInit ==
    /\ ClusterInit
    /\ gates \in GateLists
    /\ canceled = FALSE
    /\ check = [pc |-> "next", gate |-> 1, decisions |-> <<>>, outcome |-> "none"]
    /\ waited = FALSE
    /\ seen = Facts

ClusterStep ==
    /\ PodsChange \/ StatusPublished
    /\ seen' = seen \cup Facts'
    /\ UNCHANGED <<runner, canceled>>

CancelCheck ==
    /\ ~canceled /\ canceled' = TRUE
    /\ UNCHANGED <<cluster, runner, seen>>

-----------------------------------------------------------------------------
Calls(gate) == IF gate = "health" THEN "health" ELSE "wait"

\* Top of the loop: the context, then the next gate or the result.
NextGate ==
    /\ check.pc = "next"
    /\ check' =
         IF check.gate > Len(gates)
         THEN [check EXCEPT !.pc = "returned",
                            !.outcome = IF AllPassed(check.decisions) THEN "passed" ELSE "failed"]
         ELSE IF canceled
         THEN [check EXCEPT !.pc = "returned", !.outcome = "error"]
         ELSE [check EXCEPT !.pc = Calls(gates[check.gate])]
    /\ UNCHANGED <<cluster, gates, canceled, waited, seen>>

DecideGate(passed) ==
    check' = [check EXCEPT !.pc = "next", !.gate = @ + 1, !.decisions = Append(@, passed)]

\* HealthGate.CheckHealth, alone or as the second half of a combined gate:
\* an unknown Deployment and an error of the API server end the whole check.
CheckHealth ==
    /\ check.pc = "health"
    /\ \/ /\ exists /\ ~canceled
          /\ LET healthy == HealthDecision(CheckPodHealth)
             IN  DecideGate(IF gates[check.gate] = "combined" THEN waited /\ healthy ELSE healthy)
       \/ check' = [check EXCEPT !.pc = "returned", !.outcome = "error"]
    /\ UNCHANGED <<cluster, gates, canceled, waited, seen>>

\* The readiness gate turns the error of a wait into a failed decision; the
\* combined gate goes on to the health of the pods either way.
WaitOver(ready) ==
    IF gates[check.gate] = "combined"
    THEN waited' = ready /\ check' = [check EXCEPT !.pc = "health"]
    ELSE DecideGate(ready) /\ UNCHANGED waited

\* Faulty: an error of the API server ends the wait as an answer does.
PollAnyAnswer ==
    /\ check.pc = "wait" /\ ~canceled
    /\ WaitOver(TRUE)
    /\ UNCHANGED <<cluster, gates, canceled, seen>>

\* WaitForReady on a tick: the status says ready.  An error or another
\* status leaves everything as it is until the next tick.
PollReady ==
    /\ check.pc = "wait" /\ exists /\ ~canceled
    /\ Ready
    /\ WaitOver(TRUE)
    /\ UNCHANGED <<cluster, gates, canceled, seen>>

\* Faulty: the time is looked at only between answers.
WaitTimesOutBetweenAnswers ==
    /\ check.pc = "wait" /\ exists
    /\ WaitOver(FALSE)
    /\ UNCHANGED <<cluster, gates, canceled, seen>>

\* The timeout, or the context it hangs on, is done.
WaitTimesOut ==
    /\ check.pc = "wait"
    /\ WaitOver(FALSE)
    /\ UNCHANGED <<cluster, gates, canceled, seen>>

PostCheckRun == NextGate \/ CheckHealth \/ PollReady \/ WaitTimesOut

RolloutNext == ClusterStep \/ CancelCheck \/ PostCheckRun

RolloutSpec == RolloutInit /\ [][RolloutNext]_rollout

\* The caller runs, and a timer goes off whatever the API server does.
RolloutFairness == WF_rollout(PostCheckRun)

-----------------------------------------------------------------------------
(* What must hold.                                                         *)

\* Whether the gates pass is settled by what the API server said during the
\* check, however the pods changed between the calls: a check that passes
\* has seen enough pods healthy, and the replicas ready, as its gates ask,
\* so that no failed answer was lost to a later one and no error taken for
\* an answer; and a health gate that failed has seen too few healthy.
GatesTellCluster ==
    /\ check.outcome = "passed" =>
          \A i \in 1..Len(gates) :
              /\ gates[i] \in {"health", "combined"} => "healthy" \in seen
              /\ gates[i] \in {"readiness", "combined"} => exists /\ "ready" \in seen
    /\ \A i \in 1..Len(check.decisions) :
          gates[i] = "health" /\ ~check.decisions[i] => "unhealthy" \in seen

\* A post-deployment check comes to an end, also when the Deployment does
\* not exist, never becomes ready, or the API server only has errors.
PostCheckEnds == (check.pc = "next") ~> (check.pc = "returned")
=============================================================================
