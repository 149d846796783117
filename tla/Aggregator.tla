----------------------------- MODULE Aggregator -----------------------------
(***************************************************************************)
(* internal/report: findings become one report, and internal/pipeline's    *)
(* report stage.  The end of a finding's lines is left out.                *)
(***************************************************************************)
EXTENDS Naturals, Sequences, FiniteSets

CONSTANT MaxReportFindings
ASSUME AggregatorAssumption == MaxReportFindings \in Nat

AddFindings(had, findings) == Len(had) + Len(findings) <= MaxReportFindings

findingKey(finding) == <<finding.file, finding.rule, finding.line>>

\* deduplicate: the first finding of every key stays.
deduplicate(findings) ==
    LET first == {i \in DOMAIN findings :
                     \A j \in 1..(i - 1) : findingKey(findings[j]) # findingKey(findings[i])}
    IN  {findings[i] : i \in first}

normalizeSeverity(severity) ==
    CASE severity \in {"critical", "crit"} -> "critical"
      [] severity \in {"high", "error"} -> "high"
      [] severity \in {"medium", "med", "moderate", "warning"} -> "medium"
      [] severity = "low" -> "low"
      [] severity \in {"info", "informational", "note", ""} -> "info"
      [] OTHER -> severity

Normalized(findings) == {[f EXCEPT !.severity = normalizeSeverity(@)] : f \in findings}

\* calculateSummary
calculateSummary(findings) ==
    [severity \in {"critical", "high", "medium", "low", "info"} |->
        Cardinality({f \in findings : f.severity = severity})]

\* Aggregate; the order of the report, worst severity first, is left out.
Aggregate(findings) ==
    LET kept == Normalized(deduplicate(findings))
    IN  [findings |-> kept, summary |-> calculateSummary(kept)]

\* severityToSARIFLevel, findingsToSARIFResults
SarifLevel(severity) ==
    CASE severity \in {"critical", "high"} -> "error"
      [] severity = "medium" -> "warning"
      [] OTHER -> "note"

formatReport(report, format) ==
    IF format = "sarif"
    THEN {[rule |-> f.rule, level |-> SarifLevel(f.severity), file |-> f.file] : f \in report.findings}
    ELSE report.findings
=============================================================================
