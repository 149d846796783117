-------------------------------- MODULE Gates -------------------------------
(***************************************************************************)
(* The decisions of the gates of internal/gates.  Findings are counts of   *)
(* critical, high and other ones.  A policy engine, where there is one,    *)
(* answers with Allow, Deny, both, or an error.                            *)
(***************************************************************************)
EXTENDS Naturals, Sequences

CONSTANTS
    MaxHigh         \* high findings the severity gate lets pass (default 5)

ASSUME MaxHighAssumption == MaxHigh \in Nat

maxCritical == 0

Findings ==
    {f \in [critical : 0..1, high : {0, MaxHigh, MaxHigh + 1}, other : 0..1] :
        f.critical + f.high + f.other <= MaxHigh + 1}

PolicyAnswers == {"no engine", "allow", "deny", "allow and deny", "error"}

NoFindings(f) == f.critical + f.high + f.other = 0

-----------------------------------------------------------------------------
(* Before the deployment.  A gate passes, fails, or has an error.          *)

PolicyGate(answer) ==
    CASE answer = "error" -> "error"
      [] answer = "allow" -> "passed"
      [] OTHER -> "failed"

\* Faulty: critical findings make up for what high ones are allowed.
SeverityGateSummed(f) ==
    IF f.critical + f.high <= maxCritical + MaxHigh THEN "passed" ELSE "failed"

SeverityGate(f) ==
    IF f.critical <= maxCritical /\ f.high <= MaxHigh THEN "passed" ELSE "failed"

\* PreCheckRunner: without findings there is nothing to check, which is an
\* error; so is the first error of a gate; else all gates must pass.  The
\* policy gate is there when there is a policy engine.
PreCheckRun(f, answer) ==
    LET decisions == (IF answer = "no engine" THEN {} ELSE {PolicyGate(answer)}) \cup {SeverityGate(f)}
    IN  IF NoFindings(f) \/ "error" \in decisions THEN "error"
        ELSE IF "failed" \in decisions THEN "failed" ELSE "passed"

\* What the gates are there for: there is something to judge, nothing in it is
\* too severe, and the policy, where there is one, says yes and not also no.
Cleared(f, answer) ==
    /\ ~NoFindings(f) /\ f.critical = 0 /\ f.high \in 0..MaxHigh
    /\ answer \in {"no engine", "allow"}

-----------------------------------------------------------------------------
(* After the deployment.                                                   *)

\* The share of healthy pods must reach the threshold, 0.8; the threshold of
\* PostCheckOptions is not looked at.  The share is left to the client: of no
\* pods at all it is taken to be none.
HealthDecision(report) == report.total > 0 /\ 10 * report.healthy >= 8 * report.total

\* PostCheckRunner: one failed decision fails the result.
AllPassed(decisions) == \A i \in 1..Len(decisions) : decisions[i]
=============================================================================
