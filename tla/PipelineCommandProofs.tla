------------------------ MODULE PipelineCommandProofs -----------------------
(***************************************************************************)
(* Theorems about PipelineCommand, for every set of stages, every capacity *)
(* of the channel and every content the pipeline file may have.            *)
(***************************************************************************)
EXTENDS PipelineCommand, SequenceTheorems, TLAPS

-----------------------------------------------------------------------------
(* The inductive invariant.                                                *)

\* An event that tells the past, if that is how far the stages have come.
Told(past, event) ==
    \/ \E s \in Stage : event = StageStarted(s) /\ past[s] \in Begun
    \/ \E s \in Stage, r \in Ended : event = StageCompleted(s, r) /\ past[s] = r
    \/ event = FindingDiscovered
    \/ \E err \in BOOLEAN : event = PipelineCompleted(err)

\* What is on its way to the TUI, and what it shows, is the past.
EventInv ==
    /\ \A i \in 1..Len(buffer) : Told(stage, buffer[i])
    /\ inbox # Nothing => Told(stage, inbox)
    /\ ViewLagsBehind

\* How far the command has come, and what the execution, the TUI and the file
\* are then; a file that was generated is one that loads.
CommandInv ==
    /\ generated => Loads(file)
    /\ cmd \in {"start", "loaded"} => exec = "idle" /\ ~fault
    /\ cmd = "loaded" => Loads(file) /\ runnable
    /\ cmd \in {"plain", "tui", "await"} =>
          exec # "idle" /\ ~fault /\ runnable /\ mode = (IF cmd = "plain" THEN "plain" ELSE "tui")
    /\ cmd \in {"start", "loaded", "plain"} => tui = "off"
    /\ cmd \in {"await", "ok", "error"} => tui # "running"
    /\ mode = "plain" => exec \in {"idle", "executing", "returned"}
    /\ exec # "idle" => mode \in {"plain", "tui"}
    /\ cmd \in {"ok", "error"} => exec \in {"idle", IF mode = "plain" THEN "returned" ELSE "delivered"}
    /\ cmd = "ok" /\ mode \in {"plain", "tui"} => exec # "idle"

\* What Execute returns for a pipeline it does not accept.
Rejected == [err |-> TRUE, status |-> "none"]

\* The result on its way to the command is the one of Execute.
ResultInv ==
    /\ exec \notin {"idle", "executing"} => result \in Results \cup {Rejected}
    /\ resultChan # <<>> => exec = "delivered" /\ resultChan = <<result>>

IInv ==
    /\ TypeOK
    /\ EventInv
    /\ CommandInv
    /\ ResultInv
    /\ ~panicked
    /\ ExitTellsResult

-----------------------------------------------------------------------------
(* Lemmas about pipeline files.                                            *)

\* What has the fields of a stage, and of a pipeline.
IsStage(s) ==
    s = [name |-> s.name, kind |-> s.kind, continueOn |-> s.continueOn, deps |-> s.deps,
         config |-> s.config, timeout |-> s.timeout]

IsPipeline(p) ==
    /\ p = [name |-> p.name, stages |-> p.stages, metadata |-> p.metadata, timeout |-> p.timeout,
            parallel |-> p.parallel, failFast |-> p.failFast]
    /\ Len(p.stages) \in Nat
    /\ \A i \in StageNumbers(p) : IsStage(p.stages[i])

\* What Validate lets through can be executed to the end: if some stages were
\* left over, the search for cycles would have found one among them.
LEMMA ValidCanRun ==
    ASSUME NEW p, Validate(p)
    PROVE  ExecutorValidate(p) /\ EveryStageCanRun(p)
<1> DEFINE N == StageNumbers(p)
<1>1. \A i \in N : p.stages[i].kind \in Runners
  BY DEF Validate, ValidStage, Runners
<1>2. ASSUME NEW S \in SUBSET N,
             \A i \in N : p.stages[i].deps \subseteq {p.stages[j].name : j \in S} => i \in S,
             S # N
      PROVE  FALSE
  <2> DEFINE T == N \ S
  <2>1. T \in (SUBSET N) \ {{}}
    BY <1>2
  <2>2. PICK i \in T : \A j \in T : p.stages[j].name \notin p.stages[i].deps
    BY <2>1 DEF Validate, HasCycle
  <2>3. p.stages[i].deps \subseteq {p.stages[j].name : j \in N}
    BY DEF Validate, KnownDependencies, StageNamesOf
  <2>4. p.stages[i].deps \subseteq {p.stages[j].name : j \in S}
    BY <2>2, <2>3
  <2> QED
    BY <1>2, <2>2, <2>4
<1>3. EveryStageCanRun(p)
  BY <1>1, <1>2 DEF EveryStageCanRun
<1> QED
  BY <1>1, <1>3 DEF ExecutorValidate

\* A valid pipeline without malformed durations loads again once it is saved.
LEMMA SavedLoads ==
    ASSUME NEW p, IsPipeline(p), Validate(p), Converts(p)
    PROVE  Loads(Saved(p))
<1> DEFINE q == Saved(p).pipeline
           N == StageNumbers(p)
<1>1. /\ Saved(p).kind = "document"
      /\ q = [p EXCEPT !.timeout = Written(@),
                       !.stages = [i \in N |-> [p.stages[i] EXCEPT !.timeout = Written(@)]]]
  BY DEF Saved, Content
<1>2. /\ q.name = p.name /\ q.metadata = p.metadata /\ q.timeout = Written(p.timeout)
      /\ q.stages = [i \in N |-> [p.stages[i] EXCEPT !.timeout = Written(@)]]
  BY <1>1 DEF IsPipeline
<1>3. Len(p.stages) \in Nat /\ \A i \in N : IsStage(p.stages[i])
  BY DEF IsPipeline
<1> HIDE DEF q
<1>4. Len(q.stages) = Len(p.stages) /\ StageNumbers(q) = N
  BY <1>2, <1>3 DEF StageNumbers
<1>5. \A i \in N :
         /\ q.stages[i].name = p.stages[i].name /\ q.stages[i].kind = p.stages[i].kind
         /\ q.stages[i].continueOn = p.stages[i].continueOn /\ q.stages[i].deps = p.stages[i].deps
         /\ q.stages[i].config = p.stages[i].config
         /\ q.stages[i].timeout = Written(p.stages[i].timeout)
  <2> SUFFICES ASSUME NEW i \in N
               PROVE  /\ q.stages[i].name = p.stages[i].name /\ q.stages[i].kind = p.stages[i].kind
                      /\ q.stages[i].continueOn = p.stages[i].continueOn
                      /\ q.stages[i].deps = p.stages[i].deps
                      /\ q.stages[i].config = p.stages[i].config
                      /\ q.stages[i].timeout = Written(p.stages[i].timeout)
    BY Zenon
  <2>1. q.stages[i] = [p.stages[i] EXCEPT !.timeout = Written(@)]
    BY <1>2
  <2>2. IsStage(p.stages[i])
    BY <1>3
  <2> QED
    BY <2>1, <2>2 DEF IsStage
<1>6. \A t : t # "malformed" => Written(t) # "malformed"
  BY DEF Written, NoTimeout
<1>7. Converts(q)
  <2>1. p.timeout # "malformed" /\ \A i \in N : p.stages[i].timeout # "malformed"
    BY DEF Converts
  <2>2. q.timeout # "malformed" /\ \A i \in N : q.stages[i].timeout # "malformed"
    BY <1>2, <1>5, <1>6, <2>1
  <2> QED
    BY <1>4, <2>2 DEF Converts
<1>8. StageNamesOf(q) = StageNamesOf(p)
  BY <1>4, <1>5 DEF StageNamesOf
<1>9. KnownDependencies(q) /\ DistinctNames(q)
  BY <1>4, <1>5, <1>8 DEF Validate, KnownDependencies, DistinctNames
<1>10. ~HasCycle(q)
  <2> SUFFICES ASSUME NEW S \in SUBSET N, S # {},
                      \A i \in S : \E j \in S : q.stages[j].name \in q.stages[i].deps
               PROVE  FALSE
    BY <1>4 DEF HasCycle
  <2>1. \A i \in S : \E j \in S : p.stages[j].name \in p.stages[i].deps
    BY <1>5
  <2>2. S \in (SUBSET N) \ {{}}
    OBVIOUS
  <2> QED
    BY <2>1, <2>2 DEF Validate, HasCycle
<1>11. \A i \in N : ValidStage(q.stages[i])
  BY <1>5 DEF Validate, ValidStage
<1>12. Validate(q)
  BY <1>2, <1>4, <1>9, <1>10, <1>11 DEF Validate
<1> QED
  BY <1>1, <1>7, <1>12 DEF Loads, Found, q

\* A pipeline with a timeout and a flag set.
LEMMA PipelineWith ==
    ASSUME NEW name, NEW stages, NEW timeout
    PROVE  /\ [PipelineOf(name, stages) EXCEPT !.timeout = timeout, !.failFast = TRUE]
                = [name |-> name, stages |-> stages, metadata |-> "small", timeout |-> timeout,
                   parallel |-> FALSE, failFast |-> TRUE]
           /\ [PipelineOf(name, stages) EXCEPT !.timeout = timeout, !.parallel = TRUE]
                = [name |-> name, stages |-> stages, metadata |-> "small", timeout |-> timeout,
                   parallel |-> TRUE, failFast |-> FALSE]
<1> DEFINE no == FALSE
           yes == TRUE
           none == NoTimeout
           small == "small"
           r == PipelineOf(name, stages)
           r1 == [r EXCEPT !.timeout = timeout]
<1>1. r = [name |-> name, stages |-> stages, metadata |-> small, timeout |-> none,
           parallel |-> no, failFast |-> no]
  BY Zenon DEF PipelineOf
<1> HIDE DEF no, yes, none, small, r
<1>2. r1 = [name |-> name, stages |-> stages, metadata |-> small, timeout |-> timeout,
            parallel |-> no, failFast |-> no]
  BY <1>1
<1>3. /\ [r1 EXCEPT !.failFast = yes] = [r EXCEPT !.timeout = timeout, !.failFast = yes]
      /\ [r1 EXCEPT !.parallel = yes] = [r EXCEPT !.timeout = timeout, !.parallel = yes]
  BY Zenon
<1> HIDE DEF r1
<1>4. [r1 EXCEPT !.failFast = yes]
         = [name |-> name, stages |-> stages, metadata |-> small, timeout |-> timeout,
            parallel |-> no, failFast |-> yes]
  BY <1>2
<1>5. [r1 EXCEPT !.parallel = yes]
         = [name |-> name, stages |-> stages, metadata |-> small, timeout |-> timeout,
            parallel |-> yes, failFast |-> no]
  BY <1>2
<1>6. /\ [r EXCEPT !.timeout = timeout, !.failFast = yes]
            = [name |-> name, stages |-> stages, metadata |-> small, timeout |-> timeout,
               parallel |-> no, failFast |-> yes]
      /\ [r EXCEPT !.timeout = timeout, !.parallel = yes]
            = [name |-> name, stages |-> stages, metadata |-> small, timeout |-> timeout,
               parallel |-> yes, failFast |-> no]
  BY <1>3, <1>4, <1>5, Zenon
<1> QED
  BY <1>6, Zenon DEF no, yes, small, r

\* So does every template the generate command saves.
LEMMA TemplateLoads ==
    ASSUME NEW template \in Templates, Validate(template)
    PROVE  Loads(Saved(template))
<1> DEFINE Good(p) == IsPipeline(p) /\ Converts(p)
           GoodStage(s) == IsStage(s) /\ s.timeout # "malformed"
           GoodStages(q) == Len(q) \in Nat /\ \A i \in 1..Len(q) : GoodStage(q[i])
<1>1. ASSUME NEW kind, NEW name, NEW deps
      PROVE  GoodStage(StageOf(kind, name, deps))
  BY DEF StageOf, IsStage, NoTimeout
<1>2. ASSUME NEW s, NEW timeout, GoodStage(s), timeout # "malformed"
      PROVE  GoodStage(Lasting(s, timeout))
  BY <1>2 DEF Lasting, IsStage
<1>3. ASSUME NEW s, NEW condition, GoodStage(s)
      PROVE  GoodStage([s EXCEPT !.continueOn = condition])
  BY <1>3 DEF IsStage
<1>4. ASSUME NEW name, NEW stages, NEW timeout, GoodStages(stages), timeout # "malformed"
      PROVE  /\ Good([PipelineOf(name, stages) EXCEPT !.timeout = timeout, !.failFast = TRUE])
             /\ Good([PipelineOf(name, stages) EXCEPT !.timeout = timeout, !.parallel = TRUE])
  <2> DEFINE p == [PipelineOf(name, stages) EXCEPT !.timeout = timeout, !.failFast = TRUE]
             q == [PipelineOf(name, stages) EXCEPT !.timeout = timeout, !.parallel = TRUE]
  <2>0. /\ p = [name |-> name, stages |-> stages, metadata |-> "small", timeout |-> timeout,
                parallel |-> FALSE, failFast |-> TRUE]
        /\ q = [name |-> name, stages |-> stages, metadata |-> "small", timeout |-> timeout,
                parallel |-> TRUE, failFast |-> FALSE]
    BY PipelineWith
  <2> HIDE DEF p, q
  <2>1. /\ p.stages = stages /\ p.timeout = timeout /\ q.stages = stages /\ q.timeout = timeout
        /\ p = [name |-> p.name, stages |-> p.stages, metadata |-> p.metadata,
                timeout |-> p.timeout, parallel |-> p.parallel, failFast |-> p.failFast]
        /\ q = [name |-> q.name, stages |-> q.stages, metadata |-> q.metadata,
                timeout |-> q.timeout, parallel |-> q.parallel, failFast |-> q.failFast]
    BY <2>0
  <2>2. Len(stages) \in Nat /\ \A i \in 1..Len(stages) : IsStage(stages[i]) /\ stages[i].timeout # "malformed"
    BY <1>4
  <2>3. StageNumbers(p) = 1..Len(stages) /\ StageNumbers(q) = 1..Len(stages)
    BY <2>1 DEF StageNumbers
  <2>4. IsPipeline(p) /\ IsPipeline(q)
    BY <2>1, <2>2, <2>3, Zenon DEF IsPipeline
  <2>5. Converts(p) /\ Converts(q)
    BY <1>4, <2>1, <2>2, <2>3, Zenon DEF Converts
  <2> QED
    BY <2>4, <2>5 DEF p, q
<1> HIDE DEF GoodStage, Good
<1>5. Good(BasicPipeline)
  <2> DEFINE a == Scan("secrets", {})
             b == Scan("sast", {"secrets"})
             c == Scan("vulnerabilities", {"sast"})
             stages == <<a, b, c>>
  <2>1. GoodStage(a) /\ GoodStage(b) /\ GoodStage(c)
    BY <1>1 DEF Scan
  <2> HIDE DEF a, b, c
  <2>2. GoodStages(stages)
    BY <2>1
  <2> HIDE DEF stages
  <2>3. BasicPipeline = [PipelineOf("security-scan", stages) EXCEPT !.timeout = "30m", !.failFast = TRUE]
    BY DEF BasicPipeline, stages, a, b, c
  <2> QED
    BY <1>4, <2>2, <2>3
<1>6. Good(FullPipeline)
  <2> DEFINE a == Lasting(Scan("secrets", {}), "5m")
             b == Lasting(Scan("sast", {"secrets"}), "10m")
             c == Lasting(Scan("vulnerabilities", {"secrets"}), "10m")
             d == Lasting(Scan("dependencies", {"secrets"}), "5m")
             e == StageOf("policy", "policy-check", {"sast", "vulnerabilities", "dependencies"})
             f == StageOf("compliance", "compliance", {"policy-check"})
             g == [StageOf("report", "report", {"compliance"}) EXCEPT !.continueOn = "always"]
             stages == <<a, b, c, d, e, f, g>>
  <2>1. GoodStage(a) /\ GoodStage(b) /\ GoodStage(c) /\ GoodStage(d)
    BY <1>1, <1>2 DEF Scan
  <2>2. GoodStage(e) /\ GoodStage(f) /\ GoodStage(g)
    BY <1>1, <1>3
  <2> HIDE DEF a, b, c, d, e, f, g
  <2>3. GoodStages(stages)
    BY <2>1, <2>2
  <2> HIDE DEF stages
  <2>4. FullPipeline = [PipelineOf("full-security-pipeline", stages) EXCEPT !.timeout = "60m", !.failFast = TRUE]
    BY DEF FullPipeline, stages, a, b, c, d, e, f, g
  <2> QED
    BY <1>4, <2>3, <2>4
<1>7. Good(ParallelPipeline)
  <2> DEFINE a == Scan("secrets", {})
             b == Scan("sast", {})
             c == Scan("vulnerabilities", {})
             d == Scan("dependencies", {})
             e == StageOf("report", "aggregate", {"secrets", "sast", "vulnerabilities", "dependencies"})
             stages == <<a, b, c, d, e>>
  <2>1. GoodStage(a) /\ GoodStage(b) /\ GoodStage(c) /\ GoodStage(d) /\ GoodStage(e)
    BY <1>1 DEF Scan
  <2> HIDE DEF a, b, c, d, e
  <2>2. GoodStages(stages)
    BY <2>1
  <2> HIDE DEF stages
  <2>3. ParallelPipeline = [PipelineOf("parallel-scan", stages) EXCEPT !.timeout = "30m", !.parallel = TRUE]
    BY DEF ParallelPipeline, stages, a, b, c, d, e
  <2> QED
    BY <1>4, <2>2, <2>3
<1>8. Good(CICDPipeline)
  <2> DEFINE a == Lasting(Scan("quick-scan", {}), "2m")
             b == Lasting(Scan("security-check", {"quick-scan"}), "5m")
             c == StageOf("policy", "policy-gate", {"security-check"})
             stages == <<a, b, c>>
  <2>1. GoodStage(a) /\ GoodStage(b) /\ GoodStage(c)
    BY <1>1, <1>2 DEF Scan
  <2> HIDE DEF a, b, c
  <2>2. GoodStages(stages)
    BY <2>1
  <2> HIDE DEF stages
  <2>3. CICDPipeline = [PipelineOf("cicd-security-check", stages) EXCEPT !.timeout = "15m", !.failFast = TRUE]
    BY DEF CICDPipeline, stages, a, b, c
  <2> QED
    BY <1>4, <2>2, <2>3
<1> QED
  BY <1>5, <1>6, <1>7, <1>8, SavedLoads DEF Templates, Good

-----------------------------------------------------------------------------
(* The stages, the channel and the TUI.                                    *)

\* The part of the type invariant about them, and the part about the rest.
EventTypes ==
    /\ buffer \in Seq(Event) /\ Len(buffer) <= BufferSize
    /\ closed \in BOOLEAN /\ panicked \in BOOLEAN
    /\ stage \in [Stage -> StageStates]
    /\ inbox \in Event \cup {Nothing}
    /\ view \in View

CommandTypes ==
    /\ mode \in {"validate", "dry run", "plain", "tui"}
    /\ generated \in BOOLEAN /\ runnable \in BOOLEAN /\ fault \in BOOLEAN
    /\ exec \in {"idle", "executing", "returned", "reported", "closed", "delivered"}
    /\ result \in Results \cup {Nothing, Rejected}
    /\ tui \in {"off", "running", "ok", "error"}
    /\ cmd \in {"start", "loaded", "plain", "tui", "await", "ok", "error"}

Events == EventTypes /\ EventInv /\ ~panicked

Commands == CommandTypes /\ CommandInv /\ ResultInv /\ ExitTellsResult

\* Stages only advance.
StagesAdvance ==
    \A s \in Stage :
        \/ stage'[s] = stage[s]
        \/ stage[s] \notin Begun /\ stage'[s] \in StageStates \ Ended
        \/ stage[s] = "running" /\ stage'[s] \in Ended

\* The two parts make up the invariant.
LEMMA Parts == IInv <=> Events /\ Commands
<1>1. ResultInv => Len(resultChan) <= 1 /\ \A i \in 1..Len(resultChan) : resultChan[i] = result
  <2>1. CASE resultChan = <<>>
    BY <2>1
  <2>2. CASE resultChan = <<result>>
    BY <2>2
  <2> QED
    BY <2>1, <2>2 DEF ResultInv
<1> QED
  BY <1>1, Zenon DEF IInv, TypeOK, Events, Commands, EventTypes, CommandTypes, Rejected

\* Every event there is, and what it says it is.
LEMMA EventsAreEvents ==
    /\ \A s \in Stage : StageStarted(s) \in Event
    /\ \A s \in Stage, r \in Ended : StageCompleted(s, r) \in Event
    /\ FindingDiscovered \in Event
    /\ \A err \in BOOLEAN : PipelineCompleted(err) \in Event
<1>1. \A s \in Stage : StageStarted(s) \in Event
  BY DEF Event
<1>2. \A s \in Stage, r \in Ended : StageCompleted(s, r) \in Event
  BY DEF Event
<1>3. FindingDiscovered \in Event
  BY DEF Event
<1>4. \A err \in BOOLEAN : PipelineCompleted(err) \in Event
  BY DEF Event
<1> QED
  BY <1>1, <1>2, <1>3, <1>4, Zenon

\* Events that were sent stay true of the past when stages advance.
LEMMA ToldStays ==
    ASSUME StagesAdvance, stage \in [Stage -> StageStates],
           NEW event, Told(stage, event)
    PROVE  Told(stage', event)
<1>1. CASE \E s \in Stage : event = StageStarted(s) /\ stage[s] \in Begun
  <2>1. PICK s \in Stage : event = StageStarted(s) /\ stage[s] \in Begun
    BY <1>1
  <2>2. stage'[s] \in Begun
    BY <2>1 DEF StagesAdvance, Begun
  <2> QED
    BY <2>1, <2>2 DEF Told
<1>2. CASE \E s \in Stage, r \in Ended : event = StageCompleted(s, r) /\ stage[s] = r
  <2>1. PICK s \in Stage, r \in Ended : event = StageCompleted(s, r) /\ stage[s] = r
    BY <1>2
  <2>2. stage'[s] = r
    BY <2>1 DEF StagesAdvance, Begun, Ended
  <2> QED
    BY <2>1, <2>2 DEF Told
<1>3. CASE event = FindingDiscovered
  BY <1>3 DEF Told
<1>4. CASE \E err \in BOOLEAN : event = PipelineCompleted(err)
  BY <1>4, Zenon DEF Told
<1> QED
  BY <1>1, <1>2, <1>3, <1>4 DEF Told

\* What the channel holds after an event was sent, or dropped.
LEMMA SendKeeps ==
    ASSUME buffer \in Seq(Event), Len(buffer) <= BufferSize, NEW event \in Event, send(event)
    PROVE  /\ buffer' \in Seq(Event) /\ Len(buffer') <= BufferSize
           /\ closed' = closed /\ panicked' = panicked
           /\ \A i \in 1..Len(buffer') :
                 buffer'[i] = event \/ (i \in 1..Len(buffer) /\ buffer'[i] = buffer[i])
<1>1. closed' = closed /\ panicked' = panicked
  BY DEF send
<1>2. CASE ~closed /\ Len(buffer) < BufferSize
  <2>1. buffer' = Append(buffer, event)
    BY <1>2 DEF send
  <2>2. /\ buffer' \in Seq(Event) /\ Len(buffer') = Len(buffer) + 1
        /\ \A i \in 1..Len(buffer) : buffer'[i] = buffer[i]
        /\ buffer'[Len(buffer) + 1] = event
    BY <2>1, AppendProperties
  <2>3. Len(buffer) \in Nat
    BY LenProperties
  <2> QED
    BY <1>1, <1>2, <2>2, <2>3, BufferAssumption
<1>3. CASE ~(~closed /\ Len(buffer) < BufferSize)
  BY <1>1, <1>3 DEF send
<1> QED
  BY <1>2, <1>3

\* A step in which stages advance and one event that tells of it is sent.
LEMMA ReportingStep ==
    ASSUME Events, StagesAdvance, stage' \in [Stage -> StageStates],
           NEW event \in Event, Told(stage', event), Report(event), UNCHANGED <<inbox, view>>
    PROVE  Events'
<1> USE DEF Events
<1>1. /\ buffer' \in Seq(Event) /\ Len(buffer') <= BufferSize
      /\ closed' = closed /\ panicked' = panicked
      /\ \A i \in 1..Len(buffer') :
            buffer'[i] = event \/ (i \in 1..Len(buffer) /\ buffer'[i] = buffer[i])
  <2>1. CASE send(event)
    BY <2>1, SendKeeps DEF EventTypes
  <2>2. CASE UNCHANGED channel
    BY <2>2 DEF EventTypes, channel
  <2> QED
    BY <2>1, <2>2 DEF Report
<1>2. EventTypes'
  BY <1>1 DEF EventTypes
<1>3. \A i \in 1..Len(buffer') : Told(stage', buffer'[i])
  <2> SUFFICES ASSUME NEW i \in 1..Len(buffer') PROVE Told(stage', buffer'[i])
    OBVIOUS
  <2>1. CASE buffer'[i] = event
    BY <2>1
  <2>2. CASE i \in 1..Len(buffer) /\ buffer'[i] = buffer[i]
    <3>1. Told(stage, buffer[i])
      BY <2>2 DEF EventInv
    <3> QED
      BY <2>2, <3>1, ToldStays DEF EventTypes
  <2> QED
    BY <1>1, <2>1, <2>2
<1>4. inbox' # Nothing => Told(stage', inbox')
  BY ToldStays DEF EventInv, EventTypes
<1>5. ViewLagsBehind'
  BY DEF ViewLagsBehind, EventInv, EventTypes, StagesAdvance, Begun, Ended
<1> QED
  BY <1>1, <1>2, <1>3, <1>4, <1>5 DEF EventInv

\* A step in which stages advance and nothing is told of it.
LEMMA SilentStep ==
    ASSUME Events, StagesAdvance, stage' \in [Stage -> StageStates],
           UNCHANGED <<buffer, closed, panicked, inbox, view>>
    PROVE  Events'
<1> USE DEF Events
<1>1. EventTypes'
  BY DEF EventTypes
<1>2. \A i \in 1..Len(buffer') : Told(stage', buffer'[i])
  BY ToldStays DEF EventInv, EventTypes
<1>3. inbox' # Nothing => Told(stage', inbox')
  BY ToldStays DEF EventInv, EventTypes
<1>4. ViewLagsBehind'
  BY DEF ViewLagsBehind, EventInv, EventTypes, StagesAdvance, Begun, Ended
<1> QED
  BY <1>1, <1>2, <1>3, <1>4 DEF EventInv

\* What Update makes of the view: a view again, in which the stages the event
\* does not name are shown as before.
LEMMA UpdatedView ==
    ASSUME NEW v \in View, NEW event, Told(stage, event)
    PROVE  /\ handleProgressEvent(v, event) \in View
           /\ \A t \in Stage :
                 LET shown == handleProgressEvent(v, event).stages[t]
                 IN  \/ shown = v.stages[t]
                     \/ shown = "running" /\ stage[t] \in Begun
                     \/ shown \in Ended /\ stage[t] = shown
<1>1. CASE \E s \in Stage : event = StageStarted(s) /\ stage[s] \in Begun
  <2>1. PICK s \in Stage : event = StageStarted(s) /\ stage[s] \in Begun
    BY <1>1
  <2>2. event.type = "StageStarted" /\ event.stage = s
    BY <2>1 DEF StageStarted
  <2> DEFINE v1 == [v EXCEPT !.status = "in progress"]
             v2 == [v1 EXCEPT !.stages = [v1.stages EXCEPT ![s] = "running"]]
             v3 == [v2 EXCEPT !.active = s]
  <2>3. handleProgressEvent(v, event)
           = [v EXCEPT !.status = "in progress", !.stages[s] = "running", !.active = s]
    BY <2>2 DEF handleProgressEvent
  <2>4. handleProgressEvent(v, event) = v3
    BY <2>3
  <2>5. v1 \in View /\ v1.stages = v.stages
    BY DEF View
  <2> HIDE DEF v1
  <2>6. [v1.stages EXCEPT ![s] = "running"] \in [Stage -> {"pending"} \cup Begun]
    BY <2>5 DEF View, Begun
  <2>7. v2 \in View /\ v2.stages = [v.stages EXCEPT ![s] = "running"]
    BY <2>5, <2>6 DEF View
  <2> HIDE DEF v2
  <2>8. v3 \in View /\ v3.stages = v2.stages
    BY <2>7 DEF View
  <2>9. v.stages \in [Stage -> {"pending"} \cup Begun]
    BY DEF View
  <2> HIDE DEF v3
  <2> QED
    BY <2>1, <2>4, <2>7, <2>8, <2>9
<1>2. CASE \E s \in Stage, r \in Ended : event = StageCompleted(s, r) /\ stage[s] = r
  <2>1. PICK s \in Stage, r \in Ended : event = StageCompleted(s, r) /\ stage[s] = r
    BY <1>2
  <2>2. event.type = "StageCompleted" /\ event.stage = s /\ event.status = r
    BY <2>1 DEF StageCompleted
  <2> DEFINE v1 == [v EXCEPT !.stages = [v.stages EXCEPT ![s] = r]]
             v2 == [v1 EXCEPT !.active = IF v1.active = s THEN Nothing ELSE v1.active]
  <2>3. handleProgressEvent(v, event)
           = [v EXCEPT !.stages[s] = r, !.active = IF @ = s THEN Nothing ELSE @]
    BY <2>2 DEF handleProgressEvent
  <2>4. handleProgressEvent(v, event) = v2
    BY <2>3
  <2>5. [v.stages EXCEPT ![s] = r] \in [Stage -> {"pending"} \cup Begun]
    BY DEF View, Begun
  <2>6. v1 \in View /\ v1.stages = [v.stages EXCEPT ![s] = r]
    BY <2>5 DEF View
  <2> HIDE DEF v1
  <2>7. v2 \in View /\ v2.stages = v1.stages
    BY <2>6 DEF View
  <2>8. v.stages \in [Stage -> {"pending"} \cup Begun]
    BY DEF View
  <2> HIDE DEF v2
  <2> QED
    BY <2>1, <2>4, <2>6, <2>7, <2>8
<1>3. CASE event = FindingDiscovered
  <2>1. handleProgressEvent(v, event) = v
    BY <1>3 DEF handleProgressEvent, FindingDiscovered
  <2> QED
    BY <2>1
<1>4. CASE \E err \in BOOLEAN : event = PipelineCompleted(err)
  <2>1. PICK err \in BOOLEAN : event = PipelineCompleted(err)
    BY <1>4
  <2>2. event.type = "PipelineCompleted"
    BY <2>1 DEF PipelineCompleted
  <2> DEFINE status == IF event.error THEN "error" ELSE "complete"
             v1 == [v EXCEPT !.done = TRUE]
             v2 == [v1 EXCEPT !.status = status]
  <2>3. handleProgressEvent(v, event) = [v EXCEPT !.done = TRUE, !.status = status]
    BY <2>2 DEF handleProgressEvent
  <2>4. status \in {"complete", "error"}
    OBVIOUS
  <2> HIDE DEF status
  <2>5. handleProgressEvent(v, event) = v2
    BY <2>3, Zenon
  <2>6. v1 \in View /\ v1.stages = v.stages
    BY DEF View
  <2> HIDE DEF v1
  <2>7. v2 \in View /\ v2.stages = v1.stages
    BY <2>4, <2>6 DEF View
  <2> QED
    BY <2>5, <2>6, <2>7
<1> QED
  BY <1>1, <1>2, <1>3, <1>4 DEF Told

\* Every step of the program keeps what is known of events and view.
LEMMA EventStep ==
    ASSUME IInv, [Next]_vars
    PROVE  Events'
<1> USE Parts DEF Events
<1>1. Events
  OBVIOUS
<1>2. stage \in [Stage -> StageStates] /\ EventTypes
  BY DEF EventTypes
<1>3. ASSUME UNCHANGED <<channel, stage, inbox, view>> PROVE Events'
  BY <1>3 DEF channel, EventTypes, EventInv, ViewLagsBehind, Told
<1>4. ASSUME NEW s \in Stage, StartStage(s) PROVE Events'
  <2>1. stage' = [stage EXCEPT ![s] = "running"] /\ stage[s] = "queued"
    BY <1>4 DEF StartStage
  <2>2. StagesAdvance /\ stage' \in [Stage -> StageStates]
    BY <1>2, <2>1 DEF StagesAdvance, StageStates, Begun, Ended
  <2>3. stage'[s] = "running"
    BY <1>2, <2>1
  <2>4. StageStarted(s) \in Event /\ Told(stage', StageStarted(s))
    BY <2>3, EventsAreEvents DEF Told, Begun
  <2> QED
    BY <1>4, <2>2, <2>4, ReportingStep DEF StartStage
<1>5. ASSUME NEW s \in Stage, ReportFindings(s) PROVE Events'
  <2>1. stage' = stage /\ UNCHANGED <<inbox, view>>
    BY <1>5 DEF ReportFindings, execution
  <2>2. FindingDiscovered \in Event /\ Told(stage', FindingDiscovered)
    BY EventsAreEvents DEF Told
  <2>3. StagesAdvance /\ stage' \in [Stage -> StageStates]
    BY <1>2, <2>1 DEF StagesAdvance
  <2> QED
    BY <1>5, <2>1, <2>2, <2>3, ReportingStep DEF ReportFindings
<1>6. ASSUME NEW s \in Stage, NEW r \in Ended, EndStage(s, r) PROVE Events'
  <2>1. stage' = [stage EXCEPT ![s] = r] /\ stage[s] = "running"
    BY <1>6 DEF EndStage
  <2>2. StagesAdvance /\ stage' \in [Stage -> StageStates]
    BY <1>2, <2>1 DEF StagesAdvance, StageStates, Begun
  <2>3. stage'[s] = r
    BY <1>2, <2>1
  <2>4. StageCompleted(s, r) \in Event /\ Told(stage', StageCompleted(s, r))
    BY <2>3, EventsAreEvents DEF Told, Begun
  <2> QED
    BY <1>6, <2>2, <2>4, ReportingStep DEF EndStage
<1>7. ASSUME NEW s \in Stage, LaunchStage(s) \/ DropStage(s) PROVE Events'
  <2>1. /\ \E to \in {"queued", "dropped"} : stage' = [stage EXCEPT ![s] = to]
        /\ stage[s] \in {"pending", "queued"}
        /\ UNCHANGED <<channel, inbox, view>>
    BY <1>7 DEF LaunchStage, DropStage
  <2>2. StagesAdvance /\ stage' \in [Stage -> StageStates]
    BY <1>2, <2>1 DEF StagesAdvance, StageStates, Begun, Ended
  <2>3. buffer' = buffer /\ closed' = closed /\ panicked' = panicked
    BY <2>1 DEF channel
  <2> QED
    BY <2>1, <2>2, <2>3, SilentStep
<1>8. ASSUME ReportCompleted PROVE Events'
  <2>1. stage' = stage /\ UNCHANGED <<inbox, view>> /\ send(PipelineCompleted(result.err)) /\ mode = "tui"
    BY <1>8 DEF ReportCompleted
  <2>2. result.err \in BOOLEAN
    <3> DEFINE no == FALSE
               yes == TRUE
    <3>1. no \in BOOLEAN /\ yes \in BOOLEAN
      OBVIOUS
    <3>2. result \in {[err |-> yes, status |-> "failed"]}
                     \cup {[err |-> no, status |-> r] : r \in {"success", "failed", "canceled"}}
                     \cup {[err |-> yes, status |-> "none"]}
      BY <1>8, Parts, Zenon DEF ReportCompleted, Commands, ResultInv, Results, Rejected
    <3> HIDE DEF no, yes
    <3> QED
      BY <3>1, <3>2
  <2>3. PipelineCompleted(result.err) \in Event /\ Told(stage', PipelineCompleted(result.err))
    BY <2>2, EventsAreEvents DEF Told
  <2>4. StagesAdvance /\ stage' \in [Stage -> StageStates]
    BY <1>2, <2>1 DEF StagesAdvance
  <2> QED
    BY <2>1, <2>3, <2>4, ReportingStep DEF Report
<1>9. ASSUME CloseReporter PROVE Events'
  BY <1>9 DEF CloseReporter, Close, EventTypes, EventInv, ViewLagsBehind, Told
<1>10. ASSUME WaitForEvent PROVE Events'
  <2>1. UNCHANGED <<closed, panicked, stage, view>>
    BY <1>10 DEF WaitForEvent, execution
  <2>2. CASE buffer # <<>> /\ inbox' = Head(buffer) /\ buffer' = Tail(buffer)
    <3>1. /\ Head(buffer) = buffer[1] /\ 1 \in 1..Len(buffer) /\ Head(buffer) \in Event
          /\ Tail(buffer) \in Seq(Event) /\ Len(Tail(buffer)) = Len(buffer) - 1
          /\ \A i \in 1..Len(Tail(buffer)) : Tail(buffer)[i] = buffer[i + 1] /\ i + 1 \in 1..Len(buffer)
      BY <1>2, <2>2, HeadTailProperties, LenProperties DEF EventTypes
    <3>2. EventTypes'
      BY <1>2, <2>1, <2>2, <3>1, BufferAssumption DEF EventTypes
    <3>3. \A i \in 1..Len(buffer') : Told(stage', buffer'[i])
      BY <2>1, <2>2, <3>1 DEF EventInv
    <3>4. Told(stage', inbox')
      BY <2>1, <2>2, <3>1 DEF EventInv
    <3> QED
      BY <2>1, <3>2, <3>3, <3>4 DEF EventInv, ViewLagsBehind
  <2>3. CASE inbox' = PipelineCompleted(FALSE) /\ UNCHANGED buffer
    <3>1. PipelineCompleted(FALSE) \in Event /\ Told(stage', PipelineCompleted(FALSE))
      BY EventsAreEvents, Zenon DEF Told
    <3>2. EventTypes'
      BY <1>2, <2>1, <2>3, <3>1 DEF EventTypes
    <3> QED
      BY <2>1, <2>3, <3>1, <3>2 DEF EventInv, ViewLagsBehind
  <2> QED
    BY <1>10, <2>2, <2>3 DEF WaitForEvent
<1>11. ASSUME Update PROVE Events'
  <2>1. /\ UNCHANGED <<channel, stage>> /\ inbox' = Nothing
        /\ view' = handleProgressEvent(view, inbox) /\ inbox # Nothing
    BY <1>11 DEF Update, execution
  <2>2. Told(stage, inbox) /\ view \in View
    BY <2>1 DEF EventInv, EventTypes
  <2>3. EventTypes'
    BY <1>2, <2>1, <2>2, UpdatedView DEF EventTypes, channel
  <2>4. ViewLagsBehind'
    BY <2>1, <2>2, UpdatedView DEF ViewLagsBehind, EventInv, Begun, Ended
  <2> QED
    BY <2>1, <2>3, <2>4 DEF EventInv, channel
<1>12. CASE Begin
  BY <1>3, <1>12 DEF Begin, Generate, Load, ShowAndExit, StartExecution, beforeRun, execution
<1>13. CASE \E s \in Stage : StageSteps(s)
  BY <1>4, <1>5, <1>6, <1>13, <1>7 DEF StageSteps
<1>14. CASE Goroutine
  BY <1>3, <1>8, <1>9, <1>14 DEF Goroutine, ExecuteReturns, DeliverResult
<1>15. CASE Quit \/ TerminalFails \/ ExitPlain \/ AwaitResult \/ Exit \/ UNCHANGED vars
  BY <1>3, <1>15 DEF Quit, TerminalFails, ExitPlain, AwaitResult, Exit, vars, execution
<1> QED
  BY <1>10, <1>11, <1>12, <1>13, <1>14, <1>15 DEF Next

-----------------------------------------------------------------------------
(* The command and the execution.                                          *)

\* What loads can be executed to the end.
LEMMA LoadsCanRun ==
    ASSUME Loads(file)
    PROVE  ExecutorValidate(file.pipeline) /\ EveryStageCanRun(file.pipeline)
  BY ValidCanRun DEF Loads

\* The steps from the file to the execution.
LEMMA BeginStep ==
    ASSUME Commands, Begin
    PROVE  Commands'
<1> USE DEF Commands
<1>1. ASSUME NEW template \in Templates, Generate(template) PROVE Commands'
  <2>1. Loads(file')
    BY <1>1, TemplateLoads DEF Generate
  <2>2. /\ cmd = "start" /\ generated' = TRUE
        /\ UNCHANGED <<mode, runnable, fault, exec, result, resultChan, tui, cmd>>
    BY <1>1 DEF Generate, beforeRun, execution
  <2>3. CommandTypes'
    BY <2>2 DEF CommandTypes
  <2> QED
    BY <2>1, <2>2, <2>3 DEF CommandInv, ResultInv, ExitTellsResult
<1>2. ASSUME Load PROVE Commands'
  <2>1. cmd = "start" /\ UNCHANGED <<mode, file, generated, exec, result, resultChan, tui>>
    BY <1>2 DEF Load, beforeRun, execution
  <2>2. exec = "idle" /\ ~fault /\ (generated => Loads(file))
    BY <2>1 DEF CommandInv
  <2>3. CASE Loads(file) /\ cmd' = "loaded" /\ runnable' = EveryStageCanRun(file.pipeline)
             /\ UNCHANGED fault
    <3>1. runnable' = TRUE
      BY <2>3, LoadsCanRun
    <3>2. CommandTypes'
      BY <2>1, <2>3, <3>1 DEF CommandTypes
    <3>3. Loads(file)'
      BY <2>1, <2>3 DEF Loads, Found, Converts, Validate
    <3> QED
      BY <2>1, <2>2, <2>3, <3>1, <3>2, <3>3 DEF CommandInv, ResultInv, ExitTellsResult
  <2>4. CASE ~Loads(file) /\ cmd' = "error" /\ UNCHANGED <<runnable, fault>>
    <3>1. CommandTypes'
      BY <2>1, <2>4 DEF CommandTypes
    <3>2. ~generated'
      BY <2>1, <2>2, <2>4
    <3> QED
      BY <2>1, <2>2, <2>4, <3>1, <3>2 DEF CommandInv, ResultInv, ExitTellsResult
  <2>5. CASE cmd' = "error" /\ fault' = TRUE /\ UNCHANGED runnable
    <3>1. CommandTypes'
      BY <2>1, <2>5 DEF CommandTypes
    <3> QED
      BY <2>1, <2>2, <2>5, <3>1 DEF CommandInv, ResultInv, ExitTellsResult
  <2> QED
    BY <1>2, <2>3, <2>4, <2>5 DEF Load
<1>3. ASSUME ShowAndExit PROVE Commands'
  <2>1. /\ cmd = "loaded" /\ mode \in {"validate", "dry run"}
        /\ UNCHANGED <<mode, file, generated, runnable, exec, result, resultChan, tui>>
    BY <1>3 DEF ShowAndExit, loaded, beforeRun, execution
  <2>2. exec = "idle" /\ ~fault /\ runnable /\ tui = "off" /\ Loads(file)
    BY <2>1 DEF CommandInv
  <2>3. \/ cmd' = "ok" /\ fault' = fault
        \/ cmd' = "error" /\ fault' = TRUE
    BY <1>3, <2>2, LoadsCanRun DEF ShowAndExit
  <2>4. CommandTypes'
    BY <2>1, <2>3, ZenonT(30) DEF CommandTypes
  <2>5. CommandInv'
    BY <2>1, <2>2, <2>3 DEF CommandInv
  <2>6. ResultInv'
    BY <2>1, <2>2 DEF ResultInv
  <2>7. ExitTellsResult'
    <3>1. CASE cmd' = "ok" /\ fault' = fault
      BY <2>1, <2>2, <3>1 DEF ExitTellsResult
    <3>2. CASE cmd' = "error" /\ fault' = TRUE
      BY <3>2 DEF ExitTellsResult
    <3> QED
      BY <2>3, <3>1, <3>2
  <2> QED
    BY <2>4, <2>5, <2>6, <2>7
<1>4. ASSUME StartExecution PROVE Commands'
  <2>1. /\ cmd = "loaded" /\ mode \in {"plain", "tui"} /\ cmd' = mode
        /\ tui' = (IF mode = "tui" THEN "running" ELSE tui) /\ generated' = FALSE
        /\ UNCHANGED <<mode, runnable, fault, resultChan>>
    BY <1>4 DEF StartExecution
  <2>2. exec = "idle" /\ ~fault /\ runnable /\ tui = "off" /\ Loads(file)
    BY <2>1 DEF CommandInv
  <2>3. exec' = "executing" /\ UNCHANGED result
    BY <1>4, <2>2, LoadsCanRun DEF StartExecution
  <2>4. CommandTypes'
    BY <2>1, <2>2, <2>3 DEF CommandTypes
  <2> QED
    BY <2>1, <2>2, <2>3, <2>4 DEF CommandInv, ResultInv, ExitTellsResult
<1> QED
  BY <1>1, <1>2, <1>3, <1>4 DEF Begin

\* The steps of the goroutine that executes.
LEMMA GoroutineStep ==
    ASSUME Commands, Goroutine
    PROVE  Commands'
<1> USE DEF Commands
<1>1. ASSUME NEW res \in Results, ExecuteReturns(res) PROVE Commands'
  <2>1. /\ exec = "executing" /\ exec' = "returned" /\ result' = res
        /\ UNCHANGED <<mode, file, generated, runnable, fault, resultChan, tui, cmd>>
    BY <1>1 DEF ExecuteReturns, input
  <2>2. CommandTypes' /\ ResultInv'
    <3>1. CommandTypes'
      BY <1>1, <2>1 DEF CommandTypes
    <3>2. ResultInv'
      BY <1>1, <2>1 DEF ResultInv
    <3> QED
      BY <3>1, <3>2
  <2>3. CommandInv'
    BY <2>1 DEF CommandInv
  <2>4. ExitTellsResult'
    BY <2>1 DEF CommandInv, CommandTypes, ExitTellsResult
  <2> QED
    BY <2>2, <2>3, <2>4
<1>2. ASSUME ReportCompleted \/ CloseReporter PROVE Commands'
  <2>1. /\ \/ exec = "returned" /\ mode = "tui" /\ exec' = "reported"
           \/ exec = "reported" /\ exec' = "closed"
        /\ UNCHANGED <<mode, file, generated, runnable, fault, result, resultChan, tui, cmd>>
    BY <1>2 DEF ReportCompleted, CloseReporter, input
  <2>2. CommandTypes' /\ ResultInv'
    <3>1. CommandTypes'
      BY <2>1, ZenonT(30) DEF CommandTypes
    <3>2. ResultInv'
      BY <2>1 DEF ResultInv
    <3> QED
      BY <3>1, <3>2
  <2>3. CommandInv'
    BY <2>1 DEF CommandInv, CommandTypes
  <2>4. ExitTellsResult'
    BY <2>1 DEF CommandInv, CommandTypes, ExitTellsResult
  <2> QED
    BY <2>2, <2>3, <2>4
<1>3. ASSUME DeliverResult PROVE Commands'
  <2>1. /\ exec = "closed" /\ exec' = "delivered" /\ resultChan' = Append(resultChan, result)
        /\ UNCHANGED <<mode, file, generated, runnable, fault, result, tui, cmd>>
    BY <1>3 DEF DeliverResult, input
  <2>2. resultChan = <<>>
    BY <2>1 DEF ResultInv
  <2>3. resultChan' = <<result>>
    BY <2>1, <2>2
  <2>4. CommandTypes' /\ ResultInv'
    <3>1. CommandTypes'
      BY <2>1, <2>3 DEF CommandTypes
    <3>2. ResultInv'
      BY <2>1, <2>3 DEF ResultInv
    <3> QED
      BY <3>1, <3>2
  <2>5. CommandInv'
    BY <2>1 DEF CommandInv, CommandTypes
  <2>6. ExitTellsResult'
    BY <2>1 DEF CommandInv, CommandTypes, ExitTellsResult
  <2> QED
    BY <2>4, <2>5, <2>6
<1> QED
  BY <1>1, <1>2, <1>3 DEF Goroutine

\* The end of the TUI and of the command.
LEMMA EndStep ==
    ASSUME Commands, Quit \/ TerminalFails \/ ExitPlain \/ AwaitResult \/ Exit
    PROVE  Commands'
<1> USE DEF Commands
<1>1. ASSUME Quit \/ TerminalFails PROVE Commands'
  <2>1. /\ tui = "running" /\ tui' \in {"ok", "error"}
        /\ UNCHANGED <<mode, file, generated, runnable, fault, exec, result, resultChan, cmd>>
    BY <1>1 DEF Quit, TerminalFails, input, execution
  <2>2. CommandTypes' /\ ResultInv'
    <3>1. CommandTypes'
      BY <2>1, ZenonT(30) DEF CommandTypes
    <3>2. ResultInv'
      BY <2>1 DEF ResultInv
    <3> QED
      BY <3>1, <3>2
  <2>3. CommandInv' /\ ExitTellsResult'
    BY <2>1 DEF CommandInv, ExitTellsResult
  <2> QED
    BY <2>2, <2>3
<1>2. ASSUME ExitPlain PROVE Commands'
  <2>1. /\ cmd = "plain" /\ exec = "returned" /\ fault' \in BOOLEAN
        /\ cmd' = (IF fault' \/ result.err \/ result.status = "failed" THEN "error" ELSE "ok")
        /\ UNCHANGED <<mode, file, generated, runnable, exec, result, resultChan, tui>>
    BY <1>2 DEF ExitPlain, WriteResults, loaded, execution, CommandTypes
  <2>2. runnable /\ mode = "plain" /\ tui = "off" /\ cmd' \in {"ok", "error"}
    BY <2>1 DEF CommandInv
  <2>3. CommandTypes' /\ ResultInv'
    <3>1. CommandTypes'
      BY <2>1, <2>2 DEF CommandTypes
    <3>2. ResultInv'
      BY <2>1, <2>2 DEF ResultInv
    <3> QED
      BY <3>1, <3>2
  <2>4. CommandInv'
    BY <2>1, <2>2 DEF CommandInv
  <2>5. ExitTellsResult'
    BY <2>1, <2>2 DEF ExitTellsResult
  <2> QED
    BY <2>3, <2>4, <2>5
<1>3. ASSUME AwaitResult PROVE Commands'
  <2>1. /\ cmd = "tui" /\ tui # "running" /\ cmd' = "await"
        /\ UNCHANGED <<mode, file, generated, runnable, fault, exec, result, resultChan, tui>>
    BY <1>3 DEF AwaitResult, input, execution
  <2>2. CommandTypes' /\ ResultInv'
    <3>1. CommandTypes'
      BY <2>1 DEF CommandTypes
    <3>2. ResultInv'
      BY <2>1 DEF ResultInv
    <3> QED
      BY <3>1, <3>2
  <2>3. CommandInv' /\ ExitTellsResult'
    BY <2>1 DEF CommandInv, ExitTellsResult
  <2> QED
    BY <2>2, <2>3
<1>4. ASSUME Exit PROVE Commands'
  <2>1. /\ cmd = "await" /\ resultChan # <<>> /\ resultChan' = Tail(resultChan)
        /\ fault' \in BOOLEAN
        /\ UNCHANGED <<mode, file, generated, runnable, exec, result, tui>>
    BY <1>4 DEF Exit, WriteResults, loaded, execution, CommandTypes
  <2>2. exec = "delivered" /\ resultChan = <<result>> /\ runnable /\ mode = "tui" /\ tui # "running"
    BY <2>1 DEF CommandInv, ResultInv
  <2>3. Head(resultChan) = result /\ resultChan' = <<>>
    BY <2>1, <2>2
  <2>4. cmd' = IF tui = "error" \/ fault' \/ result.err \/ result.status = "failed"
               THEN "error" ELSE "ok"
    BY <1>4, <2>3 DEF Exit
  <2>5. CommandTypes' /\ ResultInv'
    <3>1. CommandTypes'
      BY <2>1, <2>3, <2>4 DEF CommandTypes
    <3>2. ResultInv'
      BY <2>1, <2>3, <2>4 DEF ResultInv
    <3> QED
      BY <3>1, <3>2
  <2>6. CommandInv'
    BY <2>1, <2>2, <2>4 DEF CommandInv
  <2>7. ExitTellsResult'
    BY <2>1, <2>2, <2>4 DEF ExitTellsResult
  <2> QED
    BY <2>5, <2>6, <2>7
<1> QED
  BY <1>1, <1>2, <1>3, <1>4

\* Every step of the program keeps what is known of command and execution.
LEMMA CommandStep ==
    ASSUME Commands, [Next]_vars
    PROVE  Commands'
<1>1. ASSUME UNCHANGED <<mode, file, generated, runnable, fault, exec, result, resultChan, tui, cmd>>
      PROVE  Commands'
  <2>1. CommandTypes' /\ ResultInv'
    <3>1. CommandTypes'
      <4>1. /\ mode' = mode /\ generated' = generated /\ runnable' = runnable /\ fault' = fault
            /\ exec' = exec /\ result' = result /\ tui' = tui /\ cmd' = cmd
        BY <1>1
      <4>2. generated' \in BOOLEAN /\ runnable' \in BOOLEAN /\ fault' \in BOOLEAN
        BY <4>1, Zenon DEF Commands, CommandTypes
      <4>3. result' \in Results \cup {Nothing, Rejected}
        BY <4>1, Zenon DEF Commands, CommandTypes
      <4>4. /\ mode' \in {"validate", "dry run", "plain", "tui"}
            /\ exec' \in {"idle", "executing", "returned", "reported", "closed", "delivered"}
            /\ tui' \in {"off", "running", "ok", "error"}
            /\ cmd' \in {"start", "loaded", "plain", "tui", "await", "ok", "error"}
        BY <4>1 DEF Commands, CommandTypes
      <4> QED
        BY <4>2, <4>3, <4>4, Zenon DEF CommandTypes
    <3>2. ResultInv'
      BY <1>1 DEF Commands, ResultInv
    <3> QED
      BY <3>1, <3>2
  <2>2. CommandInv'
    BY <1>1 DEF Commands, CommandInv
  <2>3. ExitTellsResult'
    BY <1>1 DEF Commands, ExitTellsResult
  <2> QED
    BY <2>1, <2>2, <2>3 DEF Commands
<1>2. ASSUME NEW s \in Stage, StageSteps(s) PROVE Commands'
  BY <1>1, <1>2
     DEF StageSteps, LaunchStage, StartStage, DropStage, ReportFindings, EndStage, input, execution
<1>3. CASE WaitForEvent \/ Update \/ UNCHANGED vars
  BY <1>1, <1>3 DEF WaitForEvent, Update, input, execution, vars
<1> QED
  BY <1>2, <1>3, BeginStep, GoroutineStep, EndStep DEF Next

-----------------------------------------------------------------------------
(* The theorems.                                                           *)

\* The invariant holds initially.
LEMMA InitInv == Init => IInv
<1> SUFFICES ASSUME Init PROVE IInv
  OBVIOUS
<1>1. view \in View
  <2> DEFINE shown == [s \in Stage |-> "pending"]
             no == FALSE
  <2>1. shown \in [Stage -> {"pending"} \cup Begun] /\ no \in BOOLEAN
    OBVIOUS
  <2>2. view = [status |-> "idle", stages |-> shown, active |-> Nothing, done |-> no]
    BY Zenon DEF Init
  <2> HIDE DEF shown, no
  <2> QED
    BY <2>1, <2>2 DEF View
<1>2. view.stages = [s \in Stage |-> "pending"]
  BY DEF Init
<1>3. EventTypes /\ ~panicked
  <2>1. /\ stage = [s \in Stage |-> "pending"] /\ inbox = Nothing /\ buffer = <<>>
        /\ closed = FALSE /\ panicked = FALSE
    BY DEF Init, ChannelInit
  <2>2. stage \in [Stage -> StageStates]
    BY <2>1 DEF StageStates
  <2>3. buffer \in Seq(Event) /\ Len(buffer) <= BufferSize
    BY <2>1, BufferAssumption
  <2> QED
    BY <1>1, <2>1, <2>2, <2>3 DEF EventTypes
<1>4. EventInv
  <2>1. buffer = <<>> /\ inbox = Nothing
    BY DEF Init, ChannelInit
  <2>2. ViewLagsBehind
    BY <1>2 DEF ViewLagsBehind, Ended
  <2> QED
    BY <2>1, <2>2 DEF EventInv
<1>5. CommandTypes /\ CommandInv /\ ResultInv /\ ExitTellsResult
  BY DEF Init, CommandTypes, CommandInv, ResultInv, ExitTellsResult
<1> QED
  BY <1>3, <1>4, <1>5, Parts DEF Events, Commands

\* Every step of the program keeps the invariant.
LEMMA NextInv == IInv /\ [Next]_vars => IInv'
<1> SUFFICES ASSUME IInv, [Next]_vars PROVE IInv'
  OBVIOUS
<1>1. Events' /\ Commands'
  BY EventStep, CommandStep, Parts
<1>2. Commands' => Len(resultChan') <= 1 /\ \A i \in 1..Len(resultChan') : resultChan'[i] = result'
  <2>1. CASE resultChan' = <<>>
    BY <2>1
  <2>2. CASE resultChan' = <<result'>>
    BY <2>2
  <2> QED
    BY <2>1, <2>2 DEF Commands, ResultInv
<1> QED
  BY <1>1, <1>2, Zenon DEF IInv, TypeOK, Events, Commands, EventTypes, CommandTypes, Rejected

\* The invariant holds at all times.
THEOREM Invariant == Spec => []IInv
  BY InitInv, NextInv, PTL DEF Spec

\* All variables keep their types; the result channel holds at most the one
\* result, which is why the goroutine never blocks on it.
THEOREM TypeCorrect == Spec => []TypeOK
<1>1. IInv => TypeOK
  BY DEF IInv
<1> QED
  BY <1>1, Invariant, PTL

\* Stages that outlive Execute report to a channel that was closed, and no
\* send panics.
THEOREM NoPanic == Spec => []NoSendOnClosedChannel
<1>1. IInv => NoSendOnClosedChannel
  BY DEF IInv, NoSendOnClosedChannel
<1> QED
  BY <1>1, Invariant, PTL

\* Whatever the channel dropped, the TUI shows of each stage what was so.
THEOREM ScreenShowsThePast == Spec => []ViewLagsBehind
<1>1. IInv => ViewLagsBehind
  BY DEF IInv, EventInv
<1> QED
  BY <1>1, Invariant, PTL

\* The exit status of every pipeline command tells what became of the
\* pipeline, and a file that generate wrote is one that runs.
THEOREM ExitStatusTells == Spec => []ExitTellsResult
<1>1. IInv => ExitTellsResult
  BY DEF IInv
<1> QED
  BY <1>1, Invariant, PTL

=============================================================================
