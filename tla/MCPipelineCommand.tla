-------------------------- MODULE MCPipelineCommand -------------------------
(* Model checking of PipelineCommand with a channel small enough to fill,  *)
(* and with files that have each of the flaws the loader looks for, one or *)
(* two stages that depend on anything, and every cycle of three.           *)
EXTENDS PipelineCommand

Names == {"", "too long", "a", "b"}

Dependencies == {{}, {"a"}, {"b"}, {"c"}}

Flawed(s) ==
    {[s EXCEPT !.kind = "deploy"], [s EXCEPT !.continueOn = "never"],
     [s EXCEPT !.config = "too large"], [s EXCEPT !.timeout = "malformed"]}

OneStage == {<<Scan(name, deps)>> : name \in Names, deps \in Dependencies}

TwoStages ==
    {<<Scan("a", d), Scan(name, e)>> : d \in Dependencies, name \in Names, e \in Dependencies}

ThreeStages ==
    {<<Scan("a", d), Scan("b", e), Scan("c", f)>> :
        d \in Dependencies, e \in Dependencies, f \in Dependencies}

Eight == [i \in 1..8 |-> Scan(<<"a", "b", "c", "d", "e", "f", "g", "h">>[i], {})]

Pipelines ==
    {PipelineOf("p", stages) : stages \in OneStage \cup TwoStages \cup ThreeStages}
    \cup {PipelineOf("p", <<s>>) : s \in Flawed(StageOf("custom", "a", {}))}
    \cup {PipelineOf("p", <<>>), PipelineOf("p", Eight)}
    \cup {PipelineOf(name, <<Scan("a", {})>>) : name \in {"", "too long"}}
    \cup {[PipelineOf("p", <<Scan("a", {})>>) EXCEPT !.metadata = "too large"],
          [PipelineOf("p", <<Scan("a", {})>>) EXCEPT !.timeout = "malformed"]}

MCFiles ==
    {Content("document", p) : p \in Pipelines}
    \cup {Content(kind, NoPipeline) : kind \in {"missing", "too large", "unreadable", "not YAML"}}
=============================================================================
