---------------------------- MODULE ScanCommands ----------------------------
(***************************************************************************)
(* internal/cli: the commands through which findings flow.  scan runs one  *)
(* scanner, assess all four at once; policy, compliance and validate read  *)
(* what an earlier command has left in the output file, or the policies;   *)
(* pipeline hands the findings of its scan stages to one more stage.       *)
(*                                                                         *)
(* script is a session: commands typed one after the other, all with the   *)
(* same output file.  The work of a command is done by job; with the       *)
(* terminal UI that is a goroutine, and main waits for the UI to end       *)
(* before it takes the result.  The UI itself, modelled in PipelineCommand,*)
(* ends here at any time.                                                  *)
(***************************************************************************)
EXTENDS Scanners, Compliance, Policy, Aggregator

CONSTANTS
    QuickScan,          \* the scanners of assess: all four in the code
    Scenarios           \* pairs of what there is to scan and the commands typed

\* What is typed.  Only scan and assess have the terminal UI.
Command ==
    [name : {"scan"}, scanner : Scanner, format : STRING, tui : BOOLEAN]
      \cup [name : {"assess"}, frameworks : SUBSET STRING, tui : BOOLEAN]
      \cup [name : {"pipeline"}, scanners : SUBSET Scanner, stage : {"policy", "report", "compliance"},
            failOn : STRING, frameworks : SUBSET STRING, continueOnError : BOOLEAN, format : STRING,
            tui : {FALSE}]
      \cup [name : {"policy"}, policy : Seq(PolicyFile), strict : BOOLEAN, tui : {FALSE}]
      \cup [name : {"compliance"}, show : {"report", "coverage", "gaps"}, tui : {FALSE}]
      \cup [name : {"validate"}, format : STRING, tui : {FALSE}]

ASSUME QuickScanAssumption == QuickScan \subseteq Scanner /\ QuickScan # {}
ASSUME ScenariosAssumption ==
    \A s \in Scenarios :
        /\ s[1].tool \in [Tool -> ToolRun]
        /\ s[1].manifests \in [{Manifest[i] : i \in DOMAIN Manifest} -> ManifestFile]
        /\ s[2] \in Seq(Command)

VARIABLES
    script,             \* the commands left, the running one first
    main,               \* main goroutine: "idle", "tui", "receive", "output"
    job,                \* the work: "idle", "scan", "collect", "generate", "stage", "done"
    tuiFailed,          \* the UI has ended with an error
    results,            \* channel of the assess command: scanners that have answered
    closed,             \* it is closed
    counted,            \* scanners that the wait group counts as done
    collected,          \* scanners whose answer has been taken, in order
    findings,           \* what the job has found
    outcome,            \* what the job ends with: "none", "ok" or "failed"
    report,             \* what the job reports, <<>> for nothing
    output,             \* the output file
    exits               \* how the commands so far have ended

jobVars == <<job, results, closed, counted, collected, findings, outcome, report>>
vars == <<target, ctx, scan, reports, script, main, tuiFailed, jobVars, output, exits>>

cmd == Head(script)

File(kind, content) == [kind |-> kind, findings |-> content]

NewJob(pc) ==
    /\ job' = pc
    /\ results' = <<>> /\ closed' = FALSE /\ counted' = {} /\ collected' = <<>>
    /\ findings' = <<>> /\ outcome' = "none" /\ report' = <<>>

Init ==
    /\ \E s \in Scenarios : target = s[1] /\ script = s[2]
    /\ ctx = "live" /\ scan = [s \in Scanner |-> NewScan] /\ reports = {}
    /\ main = "idle" /\ job = "idle" /\ tuiFailed = FALSE
    /\ results = <<>> /\ closed = FALSE /\ counted = {} /\ collected = <<>>
    /\ findings = <<>> /\ outcome = "none" /\ report = <<>>
    /\ output = target.old /\ exits = <<>>

\* The scanners a command runs.
Running(c) ==
    CASE c.name = "scan" -> {c.scanner}
      [] c.name = "assess" -> QuickScan
      [] c.name = "pipeline" -> c.scanners
      [] OTHER -> {}

\* The command is typed: it makes its context and starts the work.
StartCommand ==
    /\ main = "idle" /\ script # <<>>
    /\ ctx' = "live"
    /\ scan' = [s \in Scanner |-> [NewScan EXCEPT !.pc = IF s \in Running(cmd) THEN "start" ELSE "idle"]]
    /\ NewJob(CASE cmd.name = "scan" -> "scan"
                [] cmd.name = "assess" -> "collect"
                [] cmd.name = "pipeline" -> "stage"
                [] OTHER -> "read")
    /\ main' = IF cmd.tui THEN "tui" ELSE "receive"
    /\ tuiFailed' = FALSE
    /\ UNCHANGED <<target, reports, script, output, exits>>

\* The user quits, or the UI sees the end of the events, or it cannot go on.
TuiEnds ==
    /\ main = "tui"
    /\ \E failed \in BOOLEAN : tuiFailed' = failed
    /\ main' = "receive"
    /\ UNCHANGED <<target, ctx, scan, reports, script, jobVars, output, exits>>

JobEnds(status) == job' = "done" /\ outcome' = status

-----------------------------------------------------------------------------
(* scan                                                                    *)

ScanEnds ==
    /\ job = "scan" /\ scan[cmd.scanner].pc = "done"
    /\ JobEnds(scan[cmd.scanner].status)
    /\ findings' = scan[cmd.scanner].findings
    /\ UNCHANGED <<target, ctx, scan, reports, script, main, tuiFailed, results, closed, counted,
                   collected, report, output, exits>>

-----------------------------------------------------------------------------
(* assess: runQuickScan, runQuickScanWithProgress.                         *)

\* The goroutine of a scanner sends its answer; the channel has room for all.
SendResult(s) ==
    /\ main # "idle" /\ cmd.name = "assess"
    /\ scan[s].pc = "done"
    /\ results' = Append(results, s)
    /\ scan' = [scan EXCEPT ![s].pc = "sent"]
    /\ UNCHANGED <<target, ctx, reports, script, main, tuiFailed, job, closed, counted, collected,
                   findings, outcome, report, output, exits>>

\* Faulty: a scanner that has failed is not counted.
CountDoneIfFound(s) ==
    /\ main # "idle" /\ cmd.name = "assess"
    /\ scan[s].pc = "sent" /\ s \notin counted /\ scan[s].status = "ok"
    /\ counted' = counted \cup {s}
    /\ UNCHANGED <<target, ctx, scan, reports, script, main, tuiFailed, job, results, closed, collected,
                   findings, outcome, report, output, exits>>

\* It closes its scanner and is done.
CountDone(s) ==
    /\ main # "idle" /\ cmd.name = "assess"
    /\ scan[s].pc = "sent" /\ s \notin counted
    /\ counted' = counted \cup {s}
    /\ UNCHANGED <<target, ctx, scan, reports, script, main, tuiFailed, job, results, closed, collected,
                   findings, outcome, report, output, exits>>

\* Faulty: the channel is closed when the first scanner is done.
CloseResultsEarly ==
    /\ job = "collect" /\ ~closed /\ counted # {}
    /\ closed' = TRUE
    /\ UNCHANGED <<target, ctx, scan, reports, script, main, tuiFailed, job, results, counted, collected,
                   findings, outcome, report, output, exits>>

\* The goroutine that waits for the others closes the channel.
CloseResults ==
    /\ job = "collect" /\ ~closed /\ counted = QuickScan
    /\ closed' = TRUE
    /\ UNCHANGED <<target, ctx, scan, reports, script, main, tuiFailed, job, results, counted, collected,
                   findings, outcome, report, output, exits>>

\* Failed scanners are passed over.
Collect ==
    /\ job = "collect" /\ results # <<>>
    /\ LET s == Head(results) IN
       /\ collected' = Append(collected, s)
       /\ findings' = IF scan[s].status = "ok" THEN findings \o scan[s].findings ELSE findings
    /\ results' = Tail(results)
    /\ UNCHANGED <<target, ctx, scan, reports, script, main, tuiFailed, job, closed, counted, outcome,
                   report, output, exits>>

\* Only if all have failed is there no assessment.
CollectEnds ==
    /\ job = "collect" /\ results = <<>> /\ closed
    /\ LET failures == {i \in DOMAIN collected : scan[collected[i]].status = "failed"} IN
       IF findings = <<>> /\ Cardinality(failures) = Cardinality(QuickScan)
       THEN JobEnds("failed")
       ELSE job' = "generate" /\ UNCHANGED outcome
    /\ UNCHANGED <<target, ctx, scan, reports, script, main, tuiFailed, results, closed, counted,
                   collected, findings, report, output, exits>>

\* The report is written by the job: a UI that fails later does not undo it.
Assess ==
    /\ job = "generate"
    /\ IF ctx = "done" \/ ~Enrichable(findings) \/ ~target.writable
       THEN JobEnds("failed") /\ UNCHANGED <<report, output>>
       ELSE /\ JobEnds("ok")
            /\ report' = <<Generate(findings, parseFrameworks(cmd.frameworks), TRUE)>>
            /\ output' = File("report", <<>>)
    /\ UNCHANGED <<target, ctx, scan, reports, script, main, tuiFailed, results, closed, counted,
                   collected, findings, exits>>

-----------------------------------------------------------------------------
(* pipeline: the scan stages, and a stage that depends on them.  What the  *)
(* stages hand on comes in the order of a map.                             *)

Orders(S) == {q \in [1..Cardinality(S) -> S] : \A s \in S : \E i \in DOMAIN q : q[i] = s}

\* extractFindingsFromCompleted
Extracted(order) == Concat([i \in DOMAIN order |-> scan[order[i]].findings], Len(order))

StageResult(input) ==
    IF ctx = "done" THEN "canceled"
    ELSE CASE cmd.stage = "policy" -> PolicyStage(target.policies, cmd.failOn, input)
           [] cmd.stage = "report" ->
                 IF AddFindings(<<>>, input) /\ target.writable THEN "success" ELSE "failed"
           [] cmd.stage = "compliance" ->
                 IF parseFrameworks(cmd.frameworks) # {} /\ Enrichable(input) THEN "success" ELSE "failed"

\* ReportRunner.Run, ComplianceRunner.Run
StageArtifact(input) ==
    CASE cmd.stage = "policy" -> <<>>
      [] cmd.stage = "report" -> <<formatReport(Aggregate(input), cmd.format)>>
      [] cmd.stage = "compliance" -> <<MapToControls(input, parseFrameworks(cmd.frameworks))>>

\* The scan stages have ended; a failed one keeps the next from running,
\* unless the pipeline continues on errors, and then it still fails.
RunStage ==
    /\ job = "stage" /\ \A s \in cmd.scanners : scan[s].pc = "done"
    /\ LET ok == {s \in cmd.scanners : scan[s].status = "ok"} IN
       IF ok # cmd.scanners /\ ~cmd.continueOnError
       THEN JobEnds("failed") /\ UNCHANGED <<findings, report, output>>
       ELSE \E order \in Orders(ok) :
              LET input == Extracted(order)
                  result == StageResult(input)
              IN  /\ findings' = input
                  /\ JobEnds(IF result = "success" /\ ok = cmd.scanners THEN "ok" ELSE "failed")
                  /\ report' = IF result = "success" THEN StageArtifact(input) ELSE <<>>
                  /\ output' = IF result = "success" /\ cmd.stage = "report"
                               THEN File("report", <<>>) ELSE output
    /\ UNCHANGED <<target, ctx, scan, reports, script, main, tuiFailed, results, closed, counted,
                   collected, exits>>

-----------------------------------------------------------------------------
(* Commands that read the output file of an earlier one.                   *)

\* loadFindings, loadFindingsFromFile: only a list of findings can be read.
Loaded == output.kind = "findings"

\* policy check
CheckPolicy ==
    /\ job = "read" /\ cmd.name = "policy"
    /\ LET policy == Chosen(cmd.policy, cmd.strict)
           result == Check(policy, output.findings)
       IN  IF ~Loaded \/ ~Loads(policy) \/ ctx = "done"
           THEN JobEnds("failed") /\ UNCHANGED <<findings, report>>
           ELSE /\ findings' = output.findings
                /\ report' = <<GenerateReport(output.findings, result)>>
                /\ JobEnds("ok")
    /\ UNCHANGED <<target, ctx, scan, reports, script, main, tuiFailed, results, closed, counted,
                   collected, output, exits>>

\* compliance coverage, compliance gaps
Coverage(result) == [overall |-> CalculateOverall(result.assessments), frameworks |-> GetCoverageStats(result)]
Gaps(result) == [summary |-> Summarize(result.gaps), gaps |-> result.gaps]

\* compliance report, which needs a file of its own to write to, coverage and gaps
ReportCompliance ==
    /\ job = "read" /\ cmd.name = "compliance"
    /\ LET result == Generate(output.findings, {}, cmd.show # "coverage") IN
       IF ~Loaded \/ ctx = "done" \/ ~Enrichable(output.findings)
            \/ (cmd.show = "report" /\ ~target.writable)
       THEN JobEnds("failed") /\ UNCHANGED <<findings, report>>
       ELSE /\ findings' = output.findings
            /\ report' = CASE cmd.show = "report" -> <<result>>
                           [] cmd.show = "coverage" -> <<Coverage(result)>>
                           [] cmd.show = "gaps" -> <<Gaps(result)>>
            /\ JobEnds("ok")
    /\ UNCHANGED <<target, ctx, scan, reports, script, main, tuiFailed, results, closed, counted,
                   collected, output, exits>>

\* policy validate: the verdict is an error of the command in text only.
ValidatePolicies ==
    /\ job = "read" /\ cmd.name = "validate"
    /\ LET loaded == LoadDirectory(target.policies) IN
       /\ report' = <<loaded>>
       /\ JobEnds(IF ctx = "done" \/ cmd.format = "xml"
                     \/ /\ cmd.format = "text"
                        /\ loaded.limited \/ \E i \in DOMAIN loaded.results : ~loaded.results[i].valid
                  THEN "failed" ELSE "ok")
    /\ UNCHANGED <<target, ctx, scan, reports, script, main, tuiFailed, results, closed, counted,
                   collected, findings, output, exits>>

-----------------------------------------------------------------------------
(* The end of a command.                                                   *)

Return(code) ==
    /\ main' = "idle"
    /\ script' = Tail(script)
    /\ exits' = Append(exits, [cmd |-> cmd, code |-> code])

\* Faulty: with the UI, the error of the scan is forgotten.
ReceiveWithoutError ==
    /\ main = "receive" /\ job = "done"
    /\ IF tuiFailed
       THEN Return("error")
       ELSE IF cmd.name = "scan" THEN main' = "output" /\ UNCHANGED <<script, exits>>
       ELSE Return("ok")
    /\ UNCHANGED <<target, ctx, scan, reports, tuiFailed, jobVars, output>>

\* Main takes the result of the job, once the UI has ended.
Receive ==
    /\ main = "receive" /\ job = "done"
    /\ IF outcome = "failed" \/ tuiFailed
       THEN Return("error")
       ELSE IF cmd.name = "scan" THEN main' = "output" /\ UNCHANGED <<script, exits>>
       ELSE IF cmd.name = "policy" THEN Return(IF report[1].passed THEN "ok" ELSE "violation")
       ELSE Return("ok")
    /\ UNCHANGED <<target, ctx, scan, reports, tuiFailed, jobVars, output>>

\* outputResults: as text, a scan without findings leaves the file alone.
Output ==
    /\ main = "output"
    /\ LET writes == cmd.format = "json" \/ findings # <<>>
           file == IF cmd.format = "json" THEN File("findings", findings) ELSE File("text", findings)
       IN  IF cmd.format = "xml" \/ (writes /\ ~target.writable)
           THEN Return("error") /\ UNCHANGED output
           ELSE /\ output' = IF writes THEN file ELSE output
                /\ Return(IF findings # <<>> THEN "found" ELSE "ok")
    /\ UNCHANGED <<target, ctx, scan, reports, tuiFailed, jobVars>>

-----------------------------------------------------------------------------
Timeout == main # "idle" /\ target.slow /\ ContextEnds /\ UNCHANGED <<script, main, tuiFailed, jobVars, output, exits>>

ScannerWorks(s) ==
    \/ ScannerStep(s) /\ UNCHANGED <<script, main, tuiFailed, jobVars, output, exits>>
    \/ SendResult(s)
    \/ CountDone(s)

JobWorks ==
    \/ ScanEnds \/ CloseResults \/ Collect \/ CollectEnds \/ Assess
    \/ RunStage \/ CheckPolicy \/ ReportCompliance \/ ValidatePolicies

MainWorks == StartCommand \/ Receive \/ Output

Session == script = <<>> /\ main = "idle"
SessionEnded == Session /\ UNCHANGED vars

Next ==
    \/ MainWorks \/ TuiEnds
    \/ JobWorks
    \/ \E s \in Scanner : ScannerWorks(s)
    \/ Timeout
    \/ SessionEnded

Spec == Init /\ [][Next]_vars

\* Every goroutine goes on, and the UI ends: it does when the events have.
Fairness ==
    /\ WF_vars(MainWorks) /\ WF_vars(TuiEnds) /\ WF_vars(JobWorks)
    /\ \A s \in Scanner : WF_vars(ScannerWorks(s))

FairSpec == Spec /\ Fairness

-----------------------------------------------------------------------------
(* Properties.                                                             *)

Found(s) == scan[s].status = "ok"

\* The findings of the tools' reports and of the dependencies that were read.
Complete(s) ==
    IF s = "osv"
    THEN LET deps == Concat([m \in DOMAIN Manifest |->
                        LET manifest == target.manifests[Manifest[m]]
                        IN  IF manifest.readable THEN Dependencies(Manifest[m], manifest.lines) ELSE <<>>],
                        Len(Manifest))
         IN  UNION {{d} \X DOMAIN deps[d].vulns : d \in DOMAIN deps}
    ELSE IF target.tool[s].report = "results" THEN DOMAIN target.tool[s].results ELSE {}

\* A scan that succeeds has found everything there is in the program's report,
\* or in the answers to all batches of dependencies (scanner packages).  The
\* one exception is a scan of dependencies whose time is up while the manifests
\* are read: it succeeds with what it has.
SuccessIsComplete ==
    \A s \in Scanner :
        (scan[s].pc \in {"done", "sent"} /\ Found(s) /\ ~(s = "osv" /\ ctx = "done")) =>
            /\ Len(scan[s].findings) = Cardinality(Complete(s))
            /\ s \in Tool => target.tool[s].report \in {"empty", "results"}

\* However the scans of a command end, no report file of a scanner is left in
\* the temporary directory (the deferred cleanup of every Scan).
NoReportLeftBehind == main = "idle" => reports = {}

\* What runQuickScan hands on is exactly what the scanners that have not failed
\* have found, each finding once, whatever the order of the answers; and it
\* only gives up when all have failed.
NothingLost ==
    (main # "idle" /\ cmd.name = "assess" /\ job \in {"generate", "done"}) =>
        /\ \E order \in Orders(QuickScan) : findings = Concat([i \in DOMAIN order |->
                IF Found(order[i]) THEN scan[order[i]].findings ELSE <<>>], Len(order))
        /\ job = "generate" => \E s \in Scanner : Found(s)

\* The exit code tells the scan: success is a scan without findings, "found" one
\* with findings, and a scan that fails never ends in either, with or without
\* the UI (scan.go: runScan*, runScanWithTUI).
ExitTellsScan ==
    \A i \in DOMAIN exits :
        (i = Len(exits) /\ main = "idle" /\ exits[i].cmd.name = "scan" /\ exits[i].code # "error") =>
            /\ Found(exits[i].cmd.scanner)
            /\ (exits[i].code = "found") = (scan[exits[i].cmd.scanner].findings # <<>>)

\* What a policy means to deny.
Denies(c, found) ==
    LET rule == IF c.policy = <<>> THEN "strict_security"
                ELSE IF c.policy[1].package = "devsec" THEN c.policy[1].rule ELSE "none"
    IN  CASE rule \in {"block_high_critical", "strict_security"} -> \E f \in found : f.severity \in Severe
          [] rule = "block_critical" -> \E f \in found : f.severity = "critical"
          [] rule = "clean" -> found # {}
          [] rule = "no secrets" -> \E f \in found : f.scanner = "gitleaks"
          [] OTHER -> FALSE

InReport(s) ==
    IF target.tool[s].report = "results"
    THEN LET all == ToolFindings(s, target.tool[s].results) IN {all[i] : i \in DOMAIN all} ELSE {}

\* devsec scan -f json -o file; devsec policy check --findings file: the check
\* passes exactly if what the scanner has found now breaks no rule of the
\* policy, and not what an older file says.
CheckTellsScan ==
    Len(exits) = 2 =>
        LET c == exits[1].cmd
            p == exits[2]
        IN  (/\ c.name = "scan" /\ c.format = "json" /\ c.scanner \in Tool /\ exits[1].code \in {"ok", "found"}
             /\ p.cmd.name = "policy" /\ p.code # "error") =>
                ((p.code = "violation") = Denies(p.cmd, InReport(c.scanner)))

\* The policy stage of a pipeline passes only if no scan stage that has
\* succeeded has found anything from the threshold up, and a pipeline with a
\* failed scan is no success.
StageTellsScans ==
    (main # "idle" /\ cmd.name = "pipeline" /\ job = "done") =>
        /\ outcome = "ok" => \A s \in cmd.scanners : Found(s)
        /\ (outcome = "ok" /\ cmd.stage = "policy") =>
              \A s \in Scanner : \A i \in DOMAIN scan[s].findings :
                  scan[s].findings[i].severity \notin Threshold(cmd.failOn)

GateTellsScan == CheckTellsScan /\ StageTellsScans

\* The assessment tells the findings of all scanners that have not failed: a
\* control is non-compliant exactly if a severe finding of any of them concerns
\* it, in whatever order they have answered, and it is compliant or else has a
\* gap (compliance/mapper.go, gap.go, report.go).  Without findings there is no
\* assessment.
ControlsTellFindings ==
    (main # "idle" /\ cmd.name = "assess" /\ job = "done" /\ outcome = "ok") =>
        LET concern(f, control) ==
                UNION {{scan[s].findings[i] : i \in {j \in DOMAIN scan[s].findings :
                            Concerns(scan[s].findings[j], f, control)}} : s \in {t \in Scanner : Found(t)}}
        IN  \A f \in DOMAIN report[1].assessments : \A c \in DOMAIN report[1].assessments[f] :
                LET assessment == report[1].assessments[f][c]
                    concerned == concern(f, Controls[f][c])
                    gaps == {g \in report[1].gaps : g.framework = f /\ g.control = assessment.id}
                IN  /\ (assessment.status = "compliant") = (concerned = {})
                    /\ (assessment.status = "non_compliant") = (\E d \in concerned : d.severity \in Severe)
                    /\ (gaps = {}) = (concerned = {})
                    /\ \A g \in gaps : (g.severity = "low") = (assessment.status = "partial")

\* A session ends: no command waits for ever for a scanner, the channel of
\* answers or the UI.
CommandEnds == <>Session
=============================================================================
