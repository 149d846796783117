----------------------------- MODULE StageGraph -----------------------------
(***************************************************************************)
(* The dependency lists of a pipeline file.  A list may name a stage twice *)
(* and the graph may be circular: nothing has been validated yet.          *)
(***************************************************************************)
EXTENDS PipelineModel

CONSTANT MaxDeps        \* bound: entries of a DependsOn list

ASSUME MaxDepsAssumption == MaxDeps \in Nat

VARIABLE deps           \* DependsOn: for each stage the list of its dependencies

\* Lists over the other stages: Validate refuses unknown names and, before it
\* looks for cycles, a stage that depends on itself.
DependencyLists ==
    {d \in [Stage -> UNION {[1..n -> Stage] : n \in 0..MaxDeps}] :
        \A s \in Stage : \A i \in 1..Len(d[s]) : d[s][i] # s}

\* The same graph as sets.
DependencySets == [s \in Stage |-> {deps[s][i] : i \in 1..Len(deps[s])}]
=============================================================================
