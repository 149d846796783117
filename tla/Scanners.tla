------------------------------ MODULE Scanners ------------------------------
(***************************************************************************)
(* internal/scanner: the four scanners.  Gitleaks, Semgrep and Trivy run a *)
(* program that leaves a report in the temporary directory; OSV reads the  *)
(* project's manifests and asks a service.  What programs, manifests and   *)
(* service answer is chosen once, in target; the context may end between   *)
(* any two steps.  Severities and control flow are the code's, texts are   *)
(* left out but for the CWE they mention.                                  *)
(***************************************************************************)
EXTENDS Naturals, Sequences, FiniteSets

CONSTANTS
    BatchSize           \* dependencies in one query

ASSUME BatchAssumption == BatchSize \in Nat \ {0}

VARIABLES
    target,             \* what there is to scan
    ctx,                \* "live" or "done"
    scan,               \* scan[s]: where the scan of scanner s is, and its result
    reports             \* the scanners with a report file in the temporary directory

Tool == {"gitleaks", "semgrep", "trivy"}
Scanner == Tool \cup {"osv"}
Manifest == <<"go.mod", "package.json", "requirements.txt">>

\* What a program and the manifests may say.
ToolResult ==
    [rule : STRING, file : STRING, line : Nat, level : STRING, cwe : SUBSET Nat, fingerprint : STRING \X Nat]
ToolRun ==
    [exit : Nat, report : {"missing", "large", "malformed", "empty", "results"}, results : Seq(ToolResult)]
Vulnerability == [rule : STRING, cvss : STRING, origin : STRING, cwe : SUBSET Nat]
ManifestLine == [kind : STRING, file : STRING, vulns : Seq(Vulnerability)]
ManifestFile == [readable : BOOLEAN, lines : Seq(ManifestLine)]

NewScan == [pc |-> "idle", status |-> "none", findings |-> <<>>, manifest |-> 1, deps |-> <<>>]

Concat(f, n) ==
    LET upTo[i \in 0..n] == IF i = 0 THEN <<>> ELSE upTo[i - 1] \o f[i] IN upTo[n]

Goto(s, pc) == scan' = [scan EXCEPT ![s].pc = pc]

\* Faulty: the report of a scan that fails stays.
FinishKeepingReport(s, status, findings) ==
    /\ scan' = [scan EXCEPT ![s].pc = "done", ![s].status = status, ![s].findings = findings]
    /\ reports' = IF status = "ok" THEN reports \ {s} ELSE reports

\* The temporary report is removed however the scan ends.
Finish(s, status, findings) ==
    /\ scan' = [scan EXCEPT ![s].pc = "done", ![s].status = status, ![s].findings = findings]
    /\ reports' = reports \ {s}

Fail(s) == Finish(s, "failed", <<>>)

-----------------------------------------------------------------------------
(* The reports as findings.  A finding's id is unique, except that Gitleaks *)
(* takes the fingerprint of the leak.                                      *)

Finding(s, i, r, severity) ==
    [id |-> <<s, i>>, scanner |-> s, rule |-> r.rule, severity |-> severity,
     file |-> r.file, line |-> r.line, cwe |-> r.cwe]

GitleaksFindings(results) ==
    [i \in DOMAIN results |->
        [Finding("gitleaks", i, results[i], "high") EXCEPT !.id = results[i].fingerprint, !.cwe = {}]]

SemgrepSeverity(level) ==
    CASE level = "error" -> "high"
      [] level = "warning" -> "medium"
      [] level = "note" -> "low"
      [] OTHER -> "info"

SemgrepFindings(results) ==
    [i \in DOMAIN results |-> Finding("semgrep", i, results[i], SemgrepSeverity(results[i].level))]

TrivySeverity(level) ==
    CASE level = "CRITICAL" -> "critical"
      [] level = "HIGH" -> "high"
      [] level = "MEDIUM" -> "medium"
      [] level = "LOW" -> "low"
      [] OTHER -> "info"

TrivyFindings(results) ==
    [i \in DOMAIN results |->
        [Finding("trivy", i, results[i], TrivySeverity(results[i].level)) EXCEPT !.line = 1]]

ToolFindings(s, results) ==
    CASE s = "gitleaks" -> GitleaksFindings(results)
      [] s = "semgrep" -> SemgrepFindings(results)
      [] s = "trivy" -> TrivyFindings(results)

-----------------------------------------------------------------------------
(* A scan with a program.                                                  *)

Accessible == target.path = "directory"

\* Scan, up to the program: the executor, the path, the context.
StartTool(s) ==
    /\ s \in Tool /\ scan[s].pc = "start"
    /\ \/ /\ Accessible /\ ctx = "live"
          /\ Goto(s, "run")
          /\ UNCHANGED reports
       \/ /\ ~Accessible \/ ctx = "done" \/ s = "gitleaks" \* New found no executor
          /\ Fail(s)
    /\ UNCHANGED <<target, ctx>>

\* Gitleaks and Semgrep exit with 1 when they have found something.
GitleaksAccepts(exit) == exit \in {0, 1}
SemgrepAccepts(exit) == exit \in {0, 1}
TrivyAccepts(exit) == exit = 0
Accepts(s, exit) ==
    CASE s = "gitleaks" -> GitleaksAccepts(exit)
      [] s = "semgrep" -> SemgrepAccepts(exit)
      [] s = "trivy" -> TrivyAccepts(exit)

\* The program runs until it exits, or until its time or the context ends it.
RunTool(s) ==
    /\ s \in Tool /\ scan[s].pc = "run"
    /\ LET tool == target.tool[s] IN
       \/ /\ Accepts(s, tool.exit)
          /\ Goto(s, "parse")
          /\ reports' = IF tool.report = "missing" THEN reports ELSE reports \cup {s}
       \/ /\ ~Accepts(s, tool.exit) \/ ctx = "done"
          /\ Fail(s)
    /\ UNCHANGED <<target, ctx>>

\* Faulty: the report of a canceled scan is taken as it is.
ParseReportAnyway(s) ==
    /\ s \in Tool /\ scan[s].pc = "parse"
    /\ Finish(s, "ok", IF target.tool[s].report = "results"
                       THEN ToolFindings(s, target.tool[s].results) ELSE <<>>)
    /\ UNCHANGED <<target, ctx>>

\* parseReport: a report that is missing, too large or malformed fails the
\* scan, one that is empty is a scan without findings.
ParseReport(s) ==
    /\ s \in Tool /\ scan[s].pc = "parse"
    /\ LET tool == target.tool[s] IN
       IF ctx = "done" \/ tool.report \in {"missing", "large", "malformed"}
       THEN Fail(s)
       ELSE Finish(s, "ok", IF tool.report = "empty" THEN <<>> ELSE ToolFindings(s, tool.results))
    /\ UNCHANGED <<target, ctx>>

-----------------------------------------------------------------------------
(* The scan with the OSV service.                                          *)

StartOsv ==
    /\ scan["osv"].pc = "start"
    /\ IF Accessible /\ ctx = "live" THEN Goto("osv", "manifests") /\ UNCHANGED reports ELSE Fail("osv")
    /\ UNCHANGED <<target, ctx>>

OfKind(lines, kinds) ==
    Concat([i \in DOMAIN lines |-> IF lines[i].kind \in kinds THEN <<lines[i]>> ELSE <<>>], Len(lines))

\* The direct dependencies of go.mod; the left-hand sides of a replace block
\* look like them.
GoModDependencies(lines) == OfKind(lines, {"direct", "replaced"})

\* All dependencies, unless the file is no JSON.
PackageJSONDependencies(lines) ==
    IF \E i \in DOMAIN lines : lines[i].kind = "malformed" THEN <<>> ELSE lines

\* Requirements with a version; others are not looked up.
RequirementsDependencies(lines) == OfKind(lines, {"direct"})

Dependencies(name, lines) ==
    CASE name = "go.mod" -> GoModDependencies(lines)
      [] name = "package.json" -> PackageJSONDependencies(lines)
      [] name = "requirements.txt" -> RequirementsDependencies(lines)

\* parseDependencies: a manifest that is absent, too large or unreadable
\* counts as one without dependencies, and so does one that is not read
\* because the context has ended.
ParseManifest ==
    /\ scan["osv"].pc = "manifests" /\ scan["osv"].manifest <= Len(Manifest)
    /\ LET name == Manifest[scan["osv"].manifest]
           manifest == target.manifests[name]
           deps == IF ctx = "done" \/ ~manifest.readable THEN <<>>
                   ELSE Dependencies(name, manifest.lines)
       IN  scan' = [scan EXCEPT !["osv"].deps = @ \o deps, !["osv"].manifest = @ + 1]
    /\ UNCHANGED <<target, ctx, reports>>

\* Without dependencies there is nothing to ask, nor a look at the context.
AskOsv ==
    /\ scan["osv"].pc = "manifests" /\ scan["osv"].manifest > Len(Manifest)
    /\ CASE scan["osv"].deps = <<>> -> Finish("osv", "ok", <<>>)
         [] scan["osv"].deps # <<>> /\ ctx = "done" -> Fail("osv")
         [] OTHER -> Goto("osv", "query") /\ UNCHANGED reports
    /\ UNCHANGED <<target, ctx>>

\* determineSeverity: the first CVSS vector decides, of the vulnerability
\* itself or else of what it affects; without one the origin does.
OsvSeverity(vuln) ==
    CASE vuln.cvss = "network, high impact" -> "high"
      [] vuln.cvss = "other" \/ (vuln.cvss = "none" /\ vuln.origin = "GHSA") -> "medium"
      [] OTHER -> "info"

\* mapBatchResults: the answers are in the order of the questions; an answer
\* without a question, or a question without an answer, is passed over.
OsvFindings(deps, first, answers) ==
    LET answered == IF Len(answers) < Len(deps) THEN Len(answers) ELSE Len(deps)
        vulns == Concat(answers, answered)
        dep(j) == CHOOSE d \in 1..answered : Len(Concat(answers, d - 1)) < j /\ j <= Len(Concat(answers, d))
    IN  [j \in DOMAIN vulns |->
            Finding("osv", <<first, j>>, [rule |-> vulns[j].rule, file |-> deps[dep(j)].file,
                                          line |-> 0, cwe |-> vulns[j].cwe], OsvSeverity(vulns[j]))]

\* queryVulnerabilities: batch after batch; a failed one fails the scan.
QueryBatch ==
    /\ scan["osv"].pc = "query"
    /\ LET osv == scan["osv"]
           last == IF Len(osv.deps) < BatchSize THEN Len(osv.deps) ELSE BatchSize
           batch == SubSeq(osv.deps, 1, last)
           answers == [d \in DOMAIN batch |-> batch[d].vulns]
           found == osv.findings \o OsvFindings(batch, Len(osv.findings), answers)
           left == SubSeq(osv.deps, last + 1, Len(osv.deps))
       IN  IF ctx = "done" \/ target.api # "ok" THEN Fail("osv")
           ELSE IF left = <<>> THEN Finish("osv", "ok", found)
           ELSE /\ scan' = [scan EXCEPT !["osv"].findings = found, !["osv"].deps = left]
                /\ UNCHANGED reports
    /\ UNCHANGED <<target, ctx>>

ScannerStep(s) ==
    \/ StartTool(s) \/ RunTool(s) \/ ParseReport(s)
    \/ s = "osv" /\ (StartOsv \/ ParseManifest \/ AskOsv \/ QueryBatch)

ContextEnds ==
    /\ ctx = "live"
    /\ ctx' = "done"
    /\ UNCHANGED <<target, scan, reports>>
=============================================================================
