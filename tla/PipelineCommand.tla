--------------------------- MODULE PipelineCommand --------------------------
(***************************************************************************)
(* The pipeline commands of internal/cli: generate a file, validate it,    *)
(* show its plan, run it, plainly or with the TUI of internal/tui.  With   *)
(* the TUI, the goroutine that executes the pipeline reports to a channel, *)
(* the TUI shows what it receives, and the command waits for both.  The    *)
(* executor is abstract here: stages are launched, start and end, and      *)
(* Execute returns when they are through, or early (canceled, fail-fast),  *)
(* with stages still running and launched ones yet to start.               *)
(***************************************************************************)
EXTENDS ChannelReporter, PipelineFiles, FiniteSets

CONSTANTS
    Nothing,        \* no message in flight, no result yet
    Files           \* contents the pipeline file may have

VARIABLES
    mode,       \* the command: "validate", "dry run", "plain", "tui"
    file,       \* the content of the pipeline file, until it runs
    generated,  \* is it what the generate command wrote? (until it runs)
    runnable,   \* did the file hold a pipeline whose stages can all run?
    fault,      \* did a read, a write or a time limit fail the command?
    stage,      \* stage[s]: "pending", "queued", "running", "dropped", or how s ended
    exec,       \* Execute: "idle", "executing", "returned", "reported", "closed", "delivered"
    result,     \* what Execute returned: an error flag and a status
    resultChan, \* results not received yet (capacity 1)
    inbox,      \* event read by waitForEvent and not handled by Update yet
    view,       \* the model of the TUI
    tui,        \* "off", "running", or how tui.Run came back: "ok", "error"
    cmd         \* "start", "loaded", "plain", "tui", "await", then its exit: "ok" or "error"

input == <<mode, file, generated, runnable, fault>>
loaded == <<mode, file, generated, runnable>>
execution == <<stage, exec, result>>
vars == <<input, channel, execution, resultChan, inbox, view, tui, cmd>>

-----------------------------------------------------------------------------
Results == {[err |-> TRUE, status |-> "failed"]}
           \cup {[err |-> FALSE, status |-> r] : r \in {"success", "failed", "canceled"}}

\* A launched stage waits for a slot ("queued"); it is "dropped" when it gets
\* the slot after another one failed.  One that has begun runs or has ended.
Begun == {"running"} \cup Ended
StageStates == {"pending", "queued", "dropped"} \cup Begun

\* The status line, the stage list, the stage shown as active, the done flag.
View == [status : {"idle", "in progress", "complete", "error"},
         stages : [Stage -> {"pending"} \cup Begun],
         active : Stage \cup {Nothing},
         done : BOOLEAN]

Init ==
    /\ mode \in {"validate", "dry run", "plain", "tui"}
    /\ file \in Files
    /\ generated = FALSE /\ runnable = FALSE /\ fault = FALSE
    /\ ChannelInit
    /\ stage = [s \in Stage |-> "pending"]
    /\ exec = "idle"
    /\ result = Nothing
    /\ resultChan = <<>>
    /\ inbox = Nothing
    /\ view = [status |-> "idle", stages |-> [s \in Stage |-> "pending"],
               active |-> Nothing, done |-> FALSE]
    /\ tui = "off"
    /\ cmd = "start"

-----------------------------------------------------------------------------
(* From the file to the execution.                                         *)

beforeRun == <<channel, execution, resultChan, inbox, view, tui>>

\* pipeline generate: a template is saved, over whatever was there.  When it
\* cannot be, nothing changes.
Generate(template) ==
    /\ cmd = "start" /\ ~generated
    /\ Validate(template)
    /\ file' = Saved(template)
    /\ generated' = TRUE
    /\ UNCHANGED <<mode, runnable, fault, beforeRun, cmd>>

\* Load, for all the commands; it may run out of time, and reads may fail.
Load ==
    /\ cmd = "start"
    /\ \/ /\ Loads(file)
          /\ cmd' = "loaded"
          /\ runnable' = EveryStageCanRun(file.pipeline)
          /\ UNCHANGED fault
       \/ /\ ~Loads(file)
          /\ cmd' = "error"
          /\ UNCHANGED <<runnable, fault>>
       \/ /\ cmd' = "error"
          /\ fault' = TRUE
          /\ UNCHANGED runnable
    /\ UNCHANGED <<mode, file, generated, beforeRun>>

\* The executor validates once more.  Then a dry run prints the stages in
\* the order of the file; the result of a validation is written either way,
\* which may fail.
ShowAndExit ==
    /\ cmd = "loaded" /\ mode \in {"validate", "dry run"}
    /\ \/ /\ cmd' = IF ExecutorValidate(file.pipeline) THEN "ok" ELSE "error"
          /\ UNCHANGED fault
       \/ mode = "validate" /\ cmd' = "error" /\ fault' = TRUE
    /\ UNCHANGED <<loaded, beforeRun>>

\* So it does at the start of Execute, which would return at once; what the
\* loader lets through passes again.
StartExecution ==
    /\ cmd = "loaded" /\ mode \in {"plain", "tui"}
    /\ IF ExecutorValidate(file.pipeline)
       THEN exec' = "executing" /\ UNCHANGED result
       ELSE exec' = "returned" /\ result' = [err |-> TRUE, status |-> "none"]
    /\ cmd' = mode
    /\ tui' = IF mode = "tui" THEN "running" ELSE tui
    /\ file' = Content("missing", NoPipeline) /\ generated' = FALSE
    /\ UNCHANGED <<mode, runnable, fault, channel, stage, resultChan, inbox, view>>

-----------------------------------------------------------------------------
(* The executor, as far as the reporter sees it.                           *)

\* Without a TUI there is no reporter.
Report(event) == IF mode = "tui" THEN send(event) ELSE UNCHANGED channel

\* Only Execute launches stages, each in a goroutine of its own.
LaunchStage(s) ==
    /\ exec = "executing" /\ stage[s] = "pending"
    /\ stage' = [stage EXCEPT ![s] = "queued"]
    /\ UNCHANGED <<input, channel, exec, result, resultChan, inbox, view, tui, cmd>>

\* The goroutine gets a slot and starts the stage, whatever has become of
\* Execute: a canceled one returns without waiting for those it launched.
StartStage(s) ==
    /\ stage[s] = "queued"
    /\ stage' = [stage EXCEPT ![s] = "running"]
    /\ Report(StageStarted(s))
    /\ UNCHANGED <<input, exec, result, resultChan, inbox, view, tui, cmd>>

\* With fail-fast, after the failure of another stage, it gives up instead
\* and tells nobody.
DropStage(s) ==
    /\ stage[s] = "queued" /\ \E t \in Stage : stage[t] = "failed"
    /\ stage' = [stage EXCEPT ![s] = "dropped"]
    /\ UNCHANGED <<input, channel, exec, result, resultChan, inbox, view, tui, cmd>>

\* A scan found something: one more event that takes room in the channel.
ReportFindings(s) ==
    /\ stage[s] = "running"
    /\ Report(FindingDiscovered)
    /\ UNCHANGED <<input, execution, resultChan, inbox, view, tui, cmd>>

\* Faulty: completion is reported as success whatever the runner returned.
EndStageIgnoresError(s, status) ==
    /\ stage[s] = "running"
    /\ stage' = [stage EXCEPT ![s] = status]
    /\ Report(StageCompleted(s, IF status = "failed" THEN "success" ELSE status))
    /\ UNCHANGED <<input, exec, result, resultChan, inbox, view, tui, cmd>>

\* executeStage reports how the stage ended.
EndStage(s, status) ==
    /\ stage[s] = "running"
    /\ stage' = [stage EXCEPT ![s] = status]
    /\ Report(StageCompleted(s, status))
    /\ UNCHANGED <<input, exec, result, resultChan, inbox, view, tui, cmd>>

\* Execute returns: an error at any time (a canceled parallel run leaves
\* stages running and queued); without one only when every stage ended, and then
\* the stages decide the status.
ExecuteReturns(res) ==
    /\ exec = "executing"
    /\ ~res.err => \A s \in Stage : stage[s] \in Ended
    /\ res = [err |-> FALSE, status |-> "success"] => \A s \in Stage : stage[s] # "failed"
    /\ ~res.err /\ res.status # "success" => \E s \in Stage : stage[s] = "failed"
    /\ exec' = "returned"
    /\ result' = res
    /\ UNCHANGED <<input, channel, stage, resultChan, inbox, view, tui, cmd>>

ReportCompleted ==
    /\ exec = "returned" /\ mode = "tui"
    /\ exec' = "reported"
    /\ send(PipelineCompleted(result.err))
    /\ UNCHANGED <<input, stage, result, resultChan, inbox, view, tui, cmd>>

\* Faulty: the reporter is never closed.
CloseForgotten ==
    /\ exec = "reported"
    /\ exec' = "closed"
    /\ UNCHANGED <<input, channel, stage, result, resultChan, inbox, view, tui, cmd>>

CloseReporter ==
    /\ exec = "reported"
    /\ exec' = "closed"
    /\ Close
    /\ UNCHANGED <<input, stage, result, resultChan, inbox, view, tui, cmd>>

\* resultChan has room for the one result.
DeliverResult ==
    /\ exec = "closed"
    /\ exec' = "delivered"
    /\ resultChan' = Append(resultChan, result)
    /\ UNCHANGED <<input, channel, stage, result, inbox, view, tui, cmd>>

-----------------------------------------------------------------------------
(* The TUI.                                                                *)

\* waitForEvent: the next event, or, from a closed and empty channel, a
\* completion without error.
WaitForEvent ==
    /\ inbox = Nothing /\ ~view.done
    /\ \/ /\ buffer # <<>>
          /\ inbox' = Head(buffer)
          /\ buffer' = Tail(buffer)
       \/ /\ buffer = <<>> /\ closed
          /\ inbox' = PipelineCompleted(FALSE)
          /\ UNCHANGED buffer
    /\ UNCHANGED <<input, closed, panicked, execution, resultChan, view, tui, cmd>>

\* What an event makes of the view (counters of findings and the log left out).
handleProgressEvent(v, event) ==
    CASE event.type = "StageStarted" ->
           [v EXCEPT !.status = "in progress", !.stages[event.stage] = "running",
                     !.active = event.stage]
      [] event.type = "StageCompleted" ->
           [v EXCEPT !.stages[event.stage] = event.status,
                     !.active = IF @ = event.stage THEN Nothing ELSE @]
      [] event.type = "FindingDiscovered" ->
           v
      [] event.type = "PipelineCompleted" ->
           [v EXCEPT !.done = TRUE, !.status = IF event.error THEN "error" ELSE "complete"]

Update ==
    /\ tui = "running" /\ inbox # Nothing
    /\ view' = handleProgressEvent(view, inbox)
    /\ inbox' = Nothing
    /\ UNCHANGED <<input, channel, execution, resultChan, tui, cmd>>

\* The user presses q, at any time; tui.Run returns the error of the view.
Quit ==
    /\ tui = "running"
    /\ tui' = IF view.status = "error" THEN "error" ELSE "ok"
    /\ UNCHANGED <<input, channel, execution, resultChan, inbox, view, cmd>>

\* The terminal fails.
TerminalFails ==
    /\ tui = "running"
    /\ tui' = "error"
    /\ UNCHANGED <<input, channel, execution, resultChan, inbox, view, cmd>>

-----------------------------------------------------------------------------
(* The command.                                                            *)

\* The results are written to a file or the terminal, also those of a run
\* that had an error; writing may fail.
WriteResults == UNCHANGED fault \/ fault' = TRUE

\* The plain command called Execute itself.
ExitPlain ==
    /\ cmd = "plain" /\ exec = "returned"
    /\ WriteResults
    /\ cmd' = IF fault' \/ result.err \/ result.status = "failed" THEN "error" ELSE "ok"
    /\ UNCHANGED <<loaded, channel, execution, resultChan, inbox, view, tui>>

\* tui.Run has come back; both ways the command waits for the result.
AwaitResult ==
    /\ cmd = "tui" /\ tui # "running"
    /\ cmd' = "await"
    /\ UNCHANGED <<input, channel, execution, resultChan, inbox, view, tui>>

\* The exit status: an error of the TUI, which leaves the results unwritten,
\* of Execute, of the writing, or a failed pipeline.
Exit ==
    /\ cmd = "await" /\ resultChan # <<>>
    /\ resultChan' = Tail(resultChan)
    /\ IF tui = "error" THEN UNCHANGED fault ELSE WriteResults
    /\ LET res == Head(resultChan)
       IN  cmd' = IF tui = "error" \/ fault' \/ res.err \/ res.status = "failed"
                  THEN "error" ELSE "ok"
    /\ UNCHANGED <<loaded, channel, execution, inbox, view, tui>>

-----------------------------------------------------------------------------
StageSteps(s) ==
    \/ LaunchStage(s) \/ StartStage(s) \/ DropStage(s)
    \/ ReportFindings(s) \/ \E r \in Ended : EndStage(s, r)

Goroutine ==
    (\E res \in Results : ExecuteReturns(res)) \/ ReportCompleted \/ CloseReporter \/ DeliverResult

Begin ==
    \/ \E template \in Templates : Generate(template)
    \/ Load \/ ShowAndExit \/ StartExecution

Next ==
    \/ Begin
    \/ \E s \in Stage : StageSteps(s)
    \/ Goroutine
    \/ WaitForEvent \/ Update \/ Quit \/ TerminalFails
    \/ ExitPlain \/ AwaitResult \/ Exit

\* Stages have timeouts, so a stage that runs ends and gives its slot to one
\* that is queued, and Execute returns; the goroutines and the command are
\* scheduled.  The user need not press a key.
Fairness ==
    /\ \A s \in Stage : WF_vars(\E r \in Ended : EndStage(s, r))
    /\ \A s \in Stage : WF_vars(LaunchStage(s)) /\ WF_vars(StartStage(s) \/ DropStage(s))
    /\ WF_vars(Goroutine)
    /\ WF_vars(WaitForEvent) /\ WF_vars(Update)
    /\ WF_vars(ExitPlain) /\ WF_vars(AwaitResult) /\ WF_vars(Exit)
    /\ WF_vars(Load) /\ WF_vars(ShowAndExit) /\ WF_vars(StartExecution)

Spec == Init /\ [][Next]_vars /\ Fairness

-----------------------------------------------------------------------------
(* What must hold.                                                         *)

TypeOK ==
    /\ buffer \in Seq(Event) /\ Len(buffer) <= BufferSize
    /\ closed \in BOOLEAN /\ panicked \in BOOLEAN
    /\ stage \in [Stage -> StageStates]
    /\ mode \in {"validate", "dry run", "plain", "tui"}
    /\ generated \in BOOLEAN /\ runnable \in BOOLEAN /\ fault \in BOOLEAN
    /\ exec \in {"idle", "executing", "returned", "reported", "closed", "delivered"}
    /\ result \in Results \cup {Nothing, [err |-> TRUE, status |-> "none"]}
    /\ Len(resultChan) <= 1 /\ \A i \in 1..Len(resultChan) : resultChan[i] = result
    /\ inbox \in Event \cup {Nothing}
    /\ view \in View
    /\ tui \in {"off", "running", "ok", "error"}
    /\ cmd \in {"start", "loaded", "plain", "tui", "await", "ok", "error"}

\* Stages that outlive a canceled Execute, or start only after it, report to
\* a closed channel, and nothing panics.
NoSendOnClosedChannel == ~panicked

\* The TUI shows the past of a stage, never its future: whatever events were
\* dropped, and however late a stage starts, one shown as running did start,
\* and one shown as ended ended that way.
ViewLagsBehind ==
    \A s \in Stage :
        /\ view.stages[s] # "pending" => stage[s] \in Begun
        /\ view.stages[s] \in Ended => stage[s] = view.stages[s]

\* The exit status of every command tells what happened to the pipeline, not
\* what the screen showed.  Without an error, all was read and written, the
\* pipeline was one whose stages can all run, and if it ran, it succeeded or
\* was canceled without an error, although the user may have quit early or the
\* completion been dropped.  With one, and nothing but the pipeline to
\* blame, it failed when it ran, and its file was not one that the generate
\* command wrote when it did not.
ExitTellsResult ==
    /\ cmd = "ok" =>
          /\ ~fault /\ runnable
          /\ mode \in {"plain", "tui"} => ~result.err /\ result.status # "failed"
    /\ cmd = "error" /\ ~fault /\ tui # "error" =>
          IF exec = "idle" THEN ~generated ELSE result.err \/ result.status = "failed"

\* Every command ends once its file has been looked for or its TUI, left
\* early perhaps, is gone: it does not wait for a screen nobody looks at.
CommandEnds ==
    (cmd # "start" /\ (mode # "tui" \/ tui \in {"ok", "error"})) ~> (cmd \in {"ok", "error"})

\* A TUI that stays learns that the pipeline is over, even when the
\* completion event did not fit into the channel.
TuiLearnsEnd == (tui = "running") ~> (view.done \/ tui # "running")

-----------------------------------------------------------------------------
(* What the TUI says of the pipeline.                                      *)

\* The TUI announces "Pipeline completed successfully" only for a pipeline
\* that did.
SuccessShownIsTrue ==
    view.status = "complete" => result.status = "success"
=============================================================================
