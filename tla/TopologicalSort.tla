-------------------------- MODULE TopologicalSort ---------------------------
(***************************************************************************)
(* DefaultExecutor.topologicalSort of executor.go: Kahn's algorithm over   *)
(* the DependsOn lists, which may name a stage more than once.  Taking one *)
(* node off the queue, with the two inner loops, is one step.              *)
(***************************************************************************)
EXTENDS StageGraph, SequencesExt

CONSTANT StageList      \* pipeline.Stages, in the order of the file

ASSUME StageListAssumption ==
    StageList \in Seq(Stage) /\ ToSet(StageList) = Stage /\ Len(StageList) = Cardinality(Stage)

VARIABLES
    inDegree,   \* dependencies of a stage that are not in the order yet
    queue,      \* stages whose dependencies are all in the order
    order       \* the execution order built so far

sort == <<inDegree, queue, order>>

-----------------------------------------------------------------------------
\* inDegree is a map: the stages without dependencies are queued in any order.
SortInit ==
    /\ inDegree' = [s \in Stage |-> Len(deps[s])]
    /\ queue' \in SetToSeqs({s \in Stage : deps[s] = <<>>})
    /\ order' = <<>>

\* How often does stage s name node?  Each time costs one of its in-degree.
Mentions(s, node) == Cardinality({i \in 1..Len(deps[s]) : deps[s][i] = node})

\* Stages in the order of the file.
InFileOrder(S) ==
    {q \in SetToSeqs(S) :
        \A i, j \in DOMAIN StageList : \A k, l \in DOMAIN q :
            q[k] = StageList[i] /\ q[l] = StageList[j] /\ i < j => k < l}

\* Faulty: a dependent is queued whenever its in-degree is lowered.
DequeueEager ==
    /\ queue # <<>>
    /\ LET node  == Head(queue)
           left  == [s \in Stage |-> inDegree[s] - Mentions(s, node)]
           freed == {s \in Stage : Mentions(s, node) > 0}
       IN  /\ order' = Append(order, node)
           /\ inDegree' = left
           /\ \E q \in InFileOrder(freed) : queue' = Tail(queue) \o q

\* The head of the queue goes to the order; the dependents it was the last
\* dependency of are queued in the order of the file.
Dequeue ==
    /\ queue # <<>>
    /\ LET node  == Head(queue)
           left  == [s \in Stage |-> inDegree[s] - Mentions(s, node)]
           freed == {s \in Stage : inDegree[s] > 0 /\ left[s] = 0}
       IN  /\ order' = Append(order, node)
           /\ inDegree' = left
           /\ \E q \in InFileOrder(freed) : queue' = Tail(queue) \o q

\* len(order) # len(stages) is ErrCircularDependency.
SortFails == queue = <<>> /\ Len(order) # Len(StageList)
=============================================================================
