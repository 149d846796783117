--------------------------- MODULE MCScanCommands ---------------------------
(* Small instances of ScanCommands: projects, and sessions of one or two commands. *)
EXTENDS ScanCommands, Frameworks

Result(rule, line, level, cwe) ==
    [rule |-> rule, file |-> "main.go", line |-> line, level |-> level, cwe |-> cwe,
     fingerprint |-> <<rule, line>>]
Ran(code, left, found) == [exit |-> code, report |-> left, results |-> found]

Line(kind, found) == [kind |-> kind, file |-> "manifest", vulns |-> found]
Vuln(rule, cvss, origin) == [rule |-> rule, cvss |-> cvss, origin |-> origin, cwe |-> {}]
Lines(lines) == [readable |-> TRUE, lines |-> lines]
Unreadable == [readable |-> FALSE, lines |-> <<>>]

Rule(kind, policy) == [kind |-> kind, policy |-> policy]
NoSecrets == DefaultPolicy("no secrets")
Clean == DefaultPolicy("clean")

Project(gitleaks, semgrep, trivy, gomod, package) ==
    [path |-> "directory", writable |-> TRUE, slow |-> FALSE, old |-> File("none", <<>>), api |-> "ok",
     tool |-> [s \in Tool |-> CASE s = "gitleaks" -> gitleaks [] s = "semgrep" -> semgrep [] s = "trivy" -> trivy],
     manifests |-> [m \in {Manifest[i] : i \in DOMAIN Manifest} |->
                       CASE m = "go.mod" -> gomod [] m = "package.json" -> package [] OTHER -> Lines(<<>>)],
     policies |-> <<Rule("rego", Clean), Rule("test", NoSecrets)>>]

\* Every scanner finds something, of several severities for one control.
Vulnerable == Project(
    Ran(1, "results", <<Result("aws-key", 3, "", {})>>),
    Ran(1, "results", <<Result("sqli", 7, "error", {89}), Result("xss", 8, "warning", {79})>>),
    Ran(0, "results", <<Result("CVE-1", 1, "CRITICAL", {502}), Result("CVE-2", 1, "LOW", {89})>>),
    Lines(<<Line("direct", <<Vuln("GHSA-1", "network, high impact", "GHSA")>>), Line("replaced", <<>>),
            Line("indirect", <<Vuln("GHSA-2", "none", "GHSA")>>)>>),
    Lines(<<Line("direct", <<Vuln("GO-1", "other", "GO"), Vuln("GHSA-3", "none", "GHSA")>>)>>))

\* Nothing to find, and a file of an earlier run with a secret.
Spotless == [Project(Ran(0, "results", <<>>), Ran(0, "empty", <<>>), Ran(0, "results", <<>>),
                     Lines(<<>>), Lines(<<Line("malformed", <<>>)>>)) EXCEPT
    !.old = File("findings", GitleaksFindings(<<Result("aws-key", 3, "", {})>>)),
    !.policies = <<Rule("other", Clean), Rule("rego", [Clean EXCEPT !.parses = FALSE]), Rule("rego", ExamplePolicy)>>]

\* Every scanner fails.
Broken == [Project(Ran(2, "missing", <<>>), Ran(1, "malformed", <<>>), Ran(0, "large", <<>>),
                   Lines(<<Line("direct", <<>>)>>), Unreadable) EXCEPT
    !.api = "down", !.policies = <<>>]

\* Some do; the output file cannot be written.
Partial == [Project(Ran(0, "results", <<>>), Ran(7, "missing", <<>>),
                    Ran(0, "results", <<Result("CVE-3", 1, "MEDIUM", {79})>>), Unreadable, Lines(<<>>)) EXCEPT
    !.writable = FALSE,
    !.policies = <<Rule("rego", Clean), Rule("rego", NoSecrets), Rule("rego", NoSecrets)>>]

Absent == [Spotless EXCEPT !.path = "missing"]

Slow(project) == [project EXCEPT !.slow = TRUE]
Projects == {Vulnerable, Slow(Vulnerable), Slow(Spotless), Broken, Slow(Partial), Absent}

Scan(s, format, tui) == [name |-> "scan", scanner |-> s, format |-> format, tui |-> tui]
Quick(frameworks, tui) == [name |-> "assess", frameworks |-> frameworks, tui |-> tui]
Stages(scanners, stage, failOn, continueOnError) ==
    [name |-> "pipeline", scanners |-> scanners, stage |-> stage, failOn |-> failOn, frameworks |-> {"gdpr"},
     continueOnError |-> continueOnError, format |-> "sarif", tui |-> FALSE]
Checked(policy, strict) == [name |-> "policy", policy |-> policy, strict |-> strict, tui |-> FALSE]
Show(what) == [name |-> "compliance", show |-> what, tui |-> FALSE]
Validated(format) == [name |-> "validate", format |-> format, tui |-> FALSE]

OneScan ==
    {<<Scan(s, "json", TRUE), Checked(<<>>, FALSE)>> : s \in Scanner} \cup
    {<<Scan("gitleaks", "json", FALSE), Checked(<<NoSecrets>>, FALSE)>>,
     <<Scan("semgrep", "json", FALSE), Checked(<<Clean>>, FALSE)>>,
     <<Scan("trivy", "json", FALSE), Checked(<<>>, TRUE)>>,
     <<Scan("trivy", "json", FALSE), Show("gaps")>>,
     <<Scan("semgrep", "json", TRUE), Show("report")>>,
     <<Scan("osv", "json", FALSE), Show("coverage")>>,
     <<Scan("gitleaks", "text", TRUE), Checked(<<>>, FALSE)>>,
     <<Scan("semgrep", "xml", FALSE)>>, <<Validated("text")>>, <<Validated("json")>>}

Pipelines ==
    {<<Stages({"gitleaks", "trivy"}, "policy", "high", TRUE)>>,
     <<Stages({"semgrep", "osv"}, "policy", "medium", FALSE)>>,
     <<Stages({"semgrep", "trivy"}, "report", "high", TRUE)>>,
     <<Stages({"trivy", "osv"}, "compliance", "high", TRUE)>>}

Assessments ==
    {<<Vulnerable, <<Quick({}, FALSE), Show("gaps")>>>>, <<Slow(Partial), <<Quick({}, FALSE)>>>>,
     <<Vulnerable, <<Quick({"soc2", "nist"}, TRUE)>>>>, <<Broken, <<Quick({}, TRUE)>>>>,
     <<Spotless, <<Quick({}, FALSE)>>>>}

\* There is a file to report on, and nowhere to write the report.
Reports == {[Spotless EXCEPT !.writable = FALSE]} \X {<<Show("report")>>}

MCScenarios == (Projects \X (OneScan \cup Pipelines)) \cup Assessments \cup Reports
MCQuickScan == {"semgrep", "trivy", "osv"}
=============================================================================
