----------------------------- MODULE PipelineFiles --------------------------
(***************************************************************************)
(* Pipeline definitions on disk: Loader and Validate of internal/pipeline, *)
(* and the templates of the generate command.  Texts are kept as far as    *)
(* the checks tell them apart: a name may be missing or too long, a        *)
(* duration malformed.  What no check looks at is left out.                *)
(***************************************************************************)
EXTENDS Naturals, Sequences

CONSTANT MaxStages

ASSUME MaxStagesAssumption == MaxStages \in Nat

-----------------------------------------------------------------------------
(* Stages and pipelines.                                                   *)

NoTimeout == "none"

\* A stage of a kind, its limits kept, that depends on others.
StageOf(kind, name, deps) ==
    [name |-> name, kind |-> kind, continueOn |-> "", deps |-> deps,
     config |-> "small", timeout |-> NoTimeout]

Scan(name, deps) == StageOf("scan", name, deps)

Lasting(stage, timeout) == [stage EXCEPT !.timeout = timeout]

PipelineOf(name, stages) ==
    [name |-> name, stages |-> stages, metadata |-> "small", timeout |-> NoTimeout,
     parallel |-> FALSE, failFast |-> FALSE]

-----------------------------------------------------------------------------
(* Pipeline.Validate.                                                      *)

ValidName(name) == name \notin {"", "too long"}

ValidStage(s) ==
    /\ ValidName(s.name)
    /\ s.kind \in {"scan", "policy", "report", "compliance", "custom"}
    /\ s.continueOn \in {"", "success", "failure", "always"}
    /\ s.config # "too large"

StageNumbers(p) == 1..Len(p.stages)

DistinctNames(p) ==
    \A i, j \in StageNumbers(p) : p.stages[i].name = p.stages[j].name => i = j

StageNamesOf(p) == {p.stages[i].name : i \in StageNumbers(p)}

\* Faulty: that a dependency is itself a stage is left to the executor.
KnownDependenciesUnchecked(p) ==
    \A i \in StageNumbers(p) : p.stages[i].name \notin p.stages[i].deps

\* Every dependency is another stage.
KnownDependencies(p) ==
    \A i \in StageNumbers(p) : p.stages[i].deps \subseteq StageNamesOf(p) \ {p.stages[i].name}

\* What the depth-first search of hasCycle finds: stages of which each
\* depends on another one of them.
HasCycle(p) ==
    \E S \in (SUBSET StageNumbers(p)) \ {{}} :
        \A i \in S : \E j \in S : p.stages[j].name \in p.stages[i].deps

Validate(p) ==
    /\ ValidName(p.name)
    /\ Len(p.stages) \in 1..MaxStages
    /\ p.metadata # "too large"
    /\ DistinctNames(p) /\ \A i \in StageNumbers(p) : ValidStage(p.stages[i])
    /\ KnownDependencies(p)
    /\ ~HasCycle(p)

\* The kinds the registry of the default executor has a runner for: all.
Runners == {"scan", "policy", "report", "compliance", "custom"}

\* DefaultExecutor.Validate.
ExecutorValidate(p) ==
    Validate(p) /\ \A i \in StageNumbers(p) : p.stages[i].kind \in Runners

-----------------------------------------------------------------------------
(* Files.                                                                  *)

Content(kind, pipeline) == [kind |-> kind, pipeline |-> pipeline]

NoPipeline == PipelineOf("", <<>>)

\* toPipeline: durations must parse; the rest is taken over as it is.
Converts(p) ==
    p.timeout # "malformed" /\ \A i \in StageNumbers(p) : p.stages[i].timeout # "malformed"

\* FindPipeline takes the first of the usual names for which there is a file.
Found(content) == content.kind # "missing"

\* Load: the file must be there, small enough, readable and YAML, its
\* durations parse, and the pipeline is valid.
Loads(content) ==
    /\ Found(content)
    /\ content.kind \notin {"too large", "unreadable", "not YAML"}
    /\ Converts(content.pipeline)
    /\ Validate(content.pipeline)

\* Save: pipelineToRaw writes a duration only when it is positive.
Written(timeout) == IF timeout \in {"0s", "negative"} THEN NoTimeout ELSE timeout

Saved(p) ==
    Content("document",
        [p EXCEPT !.timeout = Written(@),
                  !.stages = [i \in StageNumbers(p) |->
                                 [p.stages[i] EXCEPT !.timeout = Written(@)]]])

-----------------------------------------------------------------------------
(* The templates.                                                          *)

BasicPipeline ==
    [PipelineOf("security-scan",
        <<Scan("secrets", {}), Scan("sast", {"secrets"}), Scan("vulnerabilities", {"sast"})>>)
     EXCEPT !.timeout = "30m", !.failFast = TRUE]

FullPipeline ==
    [PipelineOf("full-security-pipeline",
        <<Lasting(Scan("secrets", {}), "5m"),
          Lasting(Scan("sast", {"secrets"}), "10m"),
          Lasting(Scan("vulnerabilities", {"secrets"}), "10m"),
          Lasting(Scan("dependencies", {"secrets"}), "5m"),
          StageOf("policy", "policy-check", {"sast", "vulnerabilities", "dependencies"}),
          StageOf("compliance", "compliance", {"policy-check"}),
          [StageOf("report", "report", {"compliance"}) EXCEPT !.continueOn = "always"]>>)
     EXCEPT !.timeout = "60m", !.failFast = TRUE]

ParallelPipeline ==
    [PipelineOf("parallel-scan",
        <<Scan("secrets", {}), Scan("sast", {}), Scan("vulnerabilities", {}),
          Scan("dependencies", {}),
          StageOf("report", "aggregate", {"secrets", "sast", "vulnerabilities", "dependencies"})>>)
     EXCEPT !.timeout = "30m", !.parallel = TRUE]

CICDPipeline ==
    [PipelineOf("cicd-security-check",
        <<Lasting(Scan("quick-scan", {}), "2m"),
          Lasting(Scan("security-check", {"quick-scan"}), "5m"),
          StageOf("policy", "policy-gate", {"security-check"})>>)
     EXCEPT !.timeout = "15m", !.failFast = TRUE]

Templates == {BasicPipeline, FullPipeline, ParallelPipeline, CICDPipeline}

-----------------------------------------------------------------------------
\* What validation is for: every stage has a runner, and whatever order they
\* are run in, none is left over.  A set of stages that has each stage all
\* whose dependencies are in it is the whole pipeline.
EveryStageCanRun(p) ==
    /\ \A i \in StageNumbers(p) : p.stages[i].kind \in Runners
    /\ \A S \in SUBSET StageNumbers(p) :
          (\A i \in StageNumbers(p) :
              p.stages[i].deps \subseteq {p.stages[j].name : j \in S} => i \in S)
          => S = StageNumbers(p)
=============================================================================
