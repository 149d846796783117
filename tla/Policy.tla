------------------------------- MODULE Policy -------------------------------
(***************************************************************************)
(* internal/policy: a Rego policy is loaded, evaluated over the findings,  *)
(* and its decision read; and the policy stage of the pipeline.            *)
(*                                                                         *)
(* A policy file is a record: readable, parses and compiles say how far    *)
(* loading gets, package and rule what the query data.devsec.decision      *)
(* finds.  OPA itself is a library and stays external: RegoValue gives the *)
(* value of the query.                                                     *)
(***************************************************************************)
EXTENDS Naturals, Sequences, FiniteSets

CONSTANT MaxPolicyFiles     \* of one directory level
ASSUME PolicyAssumption == MaxPolicyFiles \in Nat \ {0}

\* What there is to know of a policy file.
PolicyFile ==
    [readable : BOOLEAN, parses : BOOLEAN, compiles : BOOLEAN, package : STRING,
     rule : {"none", "block_critical", "block_high_critical", "strict_security", "warn_secrets",
             "clean", "no secrets"}]

CountSeverity(findings, severities) ==
    Cardinality({i \in DOMAIN findings : findings[i].severity \in severities})

Severe == {"critical", "high"}

-----------------------------------------------------------------------------
(* The policies that come with the program, and some a user writes.        *)

Object(fields) == [kind |-> "object", fields |-> fields]

DefaultDecision == Object([allow |-> TRUE, deny |-> FALSE, warnings |-> 0, metadata |-> "none"])

Block(by) == Object([allow |-> FALSE, deny |-> TRUE, warnings |-> 1, metadata |-> by])
Warn == Object([allow |-> TRUE, deny |-> FALSE, warnings |-> 1, metadata |-> "none"])

BlockCritical(findings) ==
    IF CountSeverity(findings, {"critical"}) > 0 THEN Block("critical_findings") ELSE DefaultDecision

BlockHighAndCritical(findings) ==
    IF CountSeverity(findings, Severe) > 0 THEN Block("high_critical_findings") ELSE DefaultDecision

StrictSecurity(findings) ==
    IF CountSeverity(findings, {"critical"}) > 0 THEN Block("critical")
    ELSE IF CountSeverity(findings, {"high"}) > 0 THEN Block("high")
    ELSE IF CountSeverity(findings, {"medium"}) > 0 THEN Warn ELSE DefaultDecision

WarnSecrets(findings) ==
    IF \E i \in DOMAIN findings : findings[i].scanner = "gitleaks" THEN Warn ELSE DefaultDecision

DefaultPolicy(rule) ==
    [readable |-> TRUE, parses |-> TRUE, compiles |-> TRUE, package |-> "devsec", rule |-> rule]

\* examples/policies/security.rego: its rules are allow and deny, of the
\* package devsec.security.
ExamplePolicy == [DefaultPolicy("none") EXCEPT !.package = "devsec.security"]

\* What the query finds: nothing in another package or without a rule of the
\* name; "clean" and "no secrets" stand for what users write, a decision that
\* is a Boolean, or that only has a deny field.
RegoValue(policy, findings) ==
    IF policy.package # "devsec" THEN [kind |-> "undefined"]
    ELSE CASE policy.rule = "none" -> [kind |-> "undefined"]
           [] policy.rule = "block_critical" -> BlockCritical(findings)
           [] policy.rule = "block_high_critical" -> BlockHighAndCritical(findings)
           [] policy.rule = "strict_security" -> StrictSecurity(findings)
           [] policy.rule = "warn_secrets" -> WarnSecrets(findings)
           [] policy.rule = "clean" -> [kind |-> "bool", value |-> findings = <<>>]
           [] policy.rule = "no secrets" ->
                 Object([deny |-> \E i \in DOMAIN findings : findings[i].scanner = "gitleaks"])

-----------------------------------------------------------------------------
(* The engine and the decision point.                                      *)

\* LoadPolicy
Loads(policy) == policy.readable /\ policy.parses /\ policy.compiles

\* Faulty: what is no object denies nothing.
parseDecisionOfObjects(value) ==
    LET field(name, default) ==
            IF value.kind = "object" THEN IF name \in DOMAIN value.fields THEN value.fields[name] ELSE default
            ELSE default
    IN  [allow |-> field("allow", TRUE), deny |-> FALSE,
         warnings |-> field("warnings", 0), blockedBy |-> field("metadata", "none")]

\* parseDecision: what is missing from a decision, or no decision at all,
\* denies nothing.
parseDecision(value) ==
    LET field(name, default) ==
            IF value.kind = "object" THEN IF name \in DOMAIN value.fields THEN value.fields[name] ELSE default
            ELSE default
    IN  IF value.kind = "bool"
        THEN [allow |-> value.value, deny |-> ~value.value, warnings |-> 0, blockedBy |-> "none"]
        ELSE [allow |-> field("allow", TRUE), deny |-> field("deny", FALSE),
              warnings |-> field("warnings", 0), blockedBy |-> field("metadata", "none")]

countFailedFindings(findings, decision) ==
    IF decision.allow /\ ~decision.deny THEN 0 ELSE CountSeverity(findings, Severe)

evaluatePolicy(policy, findings) ==
    LET decision == parseDecision(RegoValue(policy, findings))
    IN  [decision |-> decision, failed |-> countFailedFindings(findings, decision)]

\* NewDecisionPoint, or NewDecisionPointWithPolicy if the user names one.
Chosen(custom, strict) ==
    IF custom # <<>> THEN custom[1]
    ELSE DefaultPolicy(IF strict THEN "strict_security" ELSE "block_high_critical")

\* The findings a failed check names.
generateViolations(findings, decision) ==
    LET blamed == IF decision.blockedBy \in {"critical_findings", "critical"} THEN {"critical"} ELSE Severe
    IN  {i \in DOMAIN findings : findings[i].severity \in blamed}

\* Check, with one policy loaded
Check(policy, findings) ==
    LET decision == evaluatePolicy(policy, findings).decision
        passed == decision.allow /\ ~decision.deny
    IN  [passed |-> passed, warnings |-> decision.warnings,
         violations |-> IF passed THEN {} ELSE generateViolations(findings, decision)]

getRecommendation(scanner) ==
    CASE scanner = "gitleaks" -> "rotate secrets"
      [] scanner = "semgrep" -> "fix code"
      [] scanner = "trivy" -> "patch dependencies"
      [] scanner = "osv" -> "upgrade packages"

\* GenerateReport
GenerateReport(findings, result) ==
    [passed |-> result.passed, violations |-> result.violations, warnings |-> result.warnings,
     recommendations |-> {getRecommendation(findings[i].scanner) : i \in result.violations}]

-----------------------------------------------------------------------------
(* Validation.                                                             *)

\* ValidatePolicy, ValidatePolicyContent
ValidatePolicy(policy) ==
    [valid |-> Loads(policy),
     warnings |-> {w \in {"package", "decision"} :
                      /\ policy.readable /\ policy.parses
                      /\ \/ w = "package" /\ policy.package # "devsec"
                         \/ w = "decision" /\ policy.compiles /\ policy.rule = "none"}]

\* LoadDirectory, to validate one level of a directory: tests and other files
\* are skipped, and an entry that is there when the limit is reached is an
\* error of the directory.
Rego(entries) == SelectSeq(entries, LAMBDA e : e.kind = "rego")

LoadDirectory(entries) ==
    LET reached == {n \in DOMAIN entries : Len(Rego(SubSeq(entries, 1, n - 1))) >= MaxPolicyFiles}
        looked == IF reached = {} THEN entries
                  ELSE SubSeq(entries, 1, (CHOOSE n \in reached : \A m \in reached : n <= m) - 1)
    IN  [results |-> [i \in DOMAIN Rego(looked) |-> ValidatePolicy(Rego(looked)[i].policy)],
         limited |-> reached # {}]

-----------------------------------------------------------------------------
(* The policy stage of the pipeline.                                       *)

\* loadPolicies: every file with the suffix .rego, tests among them.
StagePolicies(entries) == SelectSeq(entries, LAMBDA e : e.kind \in {"rego", "test"})

\* checkThreshold counts the findings; what the policies have decided is not
\* looked at.
Threshold(failOn) ==
    CASE failOn = "critical" -> {"critical"}
      [] failOn = "medium" -> Severe \cup {"medium"}
      [] failOn = "low" -> Severe \cup {"medium", "low"}
      [] OTHER -> Severe

checkThreshold(failOn, findings) == CountSeverity(findings, Threshold(failOn)) > 0

\* PolicyRunner.Run
PolicyStage(entries, failOn, findings) ==
    LET policies == StagePolicies(entries)
    IN  IF policies = <<>> \/ (\E i \in DOMAIN policies : ~Loads(policies[i].policy)) THEN "failed"
        ELSE IF checkThreshold(failOn, findings) THEN "failed" ELSE "success"
=============================================================================
