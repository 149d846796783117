----------------------------- MODULE Compliance -----------------------------
(***************************************************************************)
(* internal/compliance: findings become assessments of the controls of     *)
(* SOC 2, ISO 27001 and GDPR, gaps, and the figures of a report.           *)
(*                                                                         *)
(* A finding carries the CWEs its rule and its description mention.  The   *)
(* controls of a framework, each with the CWEs it names, and the table     *)
(* from CWEs to controls are constants.  Assessments are a function of the *)
(* framework; percentages are pairs <<part, whole>>.                       *)
(***************************************************************************)
EXTENDS Naturals, Sequences, FiniteSets, FiniteSetsExt

CONSTANTS
    Controls,           \* Controls[f]: the controls of f, [id, cwes], in order
    CweControls,        \* CweControls[c]: the controls <<f, id>> the table has for CWE c
    MaxFindings         \* of one report

SupportedFrameworks == {"soc2", "iso27001", "gdpr"}

ASSUME ControlsAssumption ==
    /\ DOMAIN Controls = SupportedFrameworks
    /\ \A f \in SupportedFrameworks : \A c, d \in DOMAIN Controls[f] :
           Controls[f][c].id = Controls[f][d].id => c = d
    /\ MaxFindings \in Nat

-----------------------------------------------------------------------------
(* The mapper.                                                             *)

\* parseFrameworks: unknown names are passed over; none at all is all of them.
parseFrameworks(names) == names \cap SupportedFrameworks

mapCWEsToControls(cwes) ==
    UNION {CweControls[c] : c \in cwes \cap DOMAIN CweControls}

\* Enrich, of as many findings as it takes
Enrichable(findings) == Len(findings) <= MaxFindings

Enrich(finding) == [finding |-> finding, controls |-> mapCWEsToControls(finding.cwe)]

\* A finding concerns a control that the table or the control itself names.
Concerns(finding, f, control) ==
    \/ <<f, control.id>> \in Enrich(finding).controls
    \/ finding.cwe \cap control.cwes # {}

\* Faulty: the status looks at the last finding that concerns the control.
assessControlByLast(f, control, findings) ==
    LET matched == {i \in DOMAIN findings : Concerns(findings[i], f, control)}
        last == CHOOSE i \in matched : \A j \in matched : j <= i
        severity == findings[last].severity
    IN  [id |-> control.id, findings |-> {findings[i].id : i \in matched}, severities |-> {},
         status |-> IF matched = {} THEN "compliant"
                    ELSE IF severity \in {"critical", "high"} THEN "non_compliant" ELSE "partial"]

\* assessControl: of findings with one id only the first is looked at.
assessControl(f, control, findings) ==
    LET matched == {i \in DOMAIN findings :
                        /\ Concerns(findings[i], f, control)
                        /\ \A j \in 1..(i - 1) :
                               findings[j].id = findings[i].id => ~Concerns(findings[j], f, control)}
        severities == {findings[i].severity : i \in matched}
    IN  [id |-> control.id, findings |-> {findings[i].id : i \in matched}, severities |-> severities,
         status |-> IF matched = {} THEN "compliant"
                    ELSE IF severities \cap {"critical", "high"} # {} THEN "non_compliant" ELSE "partial"]

\* MapToControls: without findings there is no assessment at all.
MapToControls(findings, frameworks) ==
    IF findings = <<>> THEN [f \in {} |-> <<>>]
    ELSE [f \in IF frameworks = {} THEN SupportedFrameworks ELSE frameworks |->
             [c \in DOMAIN Controls[f] |-> assessControl(f, Controls[f][c], findings)]]

-----------------------------------------------------------------------------
(* Gaps and coverage.                                                      *)

determineSeverity(assessment) ==
    IF "critical" \in assessment.severities THEN "critical"
    ELSE IF "high" \in assessment.severities THEN "high" ELSE "low"

\* Analyze: a gap for every control that is not compliant.  Their order,
\* worst severity first, is left out.
Analyze(assessments) ==
    UNION {{[framework |-> f, control |-> assessments[f][c].id,
             severity |-> determineSeverity(assessments[f][c]), findings |-> assessments[f][c].findings] :
                c \in {d \in DOMAIN assessments[f] : assessments[f][d].status \in {"non_compliant", "partial"}}} :
           f \in DOMAIN assessments}

Summarize(gaps) ==
    [total |-> Cardinality(gaps),
     severity |-> [s \in {"critical", "high", "medium", "low"} |-> Cardinality({g \in gaps : g.severity = s})],
     framework |-> [f \in {g.framework : g \in gaps} |-> Cardinality({g \in gaps : g.framework = f})]]

WithStatus(assessments, f, status) ==
    Cardinality({c \in DOMAIN assessments[f] : assessments[f][c].status = status})

Percent(part, whole) == IF whole = 0 THEN <<0, 1>> ELSE <<part, whole>>

\* calculateFrameworkCoverage; every control is assessed.
calculateFrameworkCoverage(assessments, f) ==
    LET compliant == WithStatus(assessments, f, "compliant")
        total == Len(assessments[f])
    IN  [framework |-> f, total |-> total, assessed |-> total, compliant |-> compliant,
         gaps |-> total - compliant, percent |-> Percent(compliant, total)]

CalculateOverall(assessments) ==
    LET F == DOMAIN assessments
        total == MapThenSumSet(LAMBDA f : Len(assessments[f]), F)
        compliant == MapThenSumSet(LAMBDA f : WithStatus(assessments, f, "compliant"), F)
    IN  [framework |-> "overall", total |-> total, assessed |-> total, compliant |-> compliant,
         gaps |-> total - compliant, percent |-> Percent(compliant, total)]

-----------------------------------------------------------------------------
(* The report.                                                             *)

CalculateSummary(assessments) ==
    LET count(status) == MapThenSumSet(LAMBDA f : WithStatus(assessments, f, status), DOMAIN assessments)
        total == MapThenSumSet(LAMBDA f : Len(assessments[f]), DOMAIN assessments)
    IN  [total |-> total, compliant |-> count("compliant"), nonCompliant |-> count("non_compliant"),
         partial |-> count("partial"), score |-> Percent(count("compliant"), total)]

\* Generate
Generate(findings, frameworks, includeGaps) ==
    LET assessments == MapToControls(findings, frameworks)
    IN  [assessments |-> assessments,
         gaps |-> IF includeGaps THEN Analyze(assessments) ELSE {},
         summary |-> CalculateSummary(assessments)]

GetCoverageStats(report) ==
    {calculateFrameworkCoverage(report.assessments, f) : f \in DOMAIN report.assessments}
=============================================================================
