----------------------------- MODULE CycleCheck -----------------------------
(***************************************************************************)
(* hasCycle and hasCycleDFS of pipeline.go: the depth-first search by      *)
(* which Pipeline.Validate refuses circular dependencies.  The recursion   *)
(* is kept as an explicit stack of frames; one call or return is one step. *)
(***************************************************************************)
EXTENDS StageGraph

VARIABLES
    roots,      \* names the loop of hasCycle has still to visit
    stack,      \* frames of hasCycleDFS: a node and its next neighbour
    visited,    \* nodes ever entered
    recStack,   \* nodes entered and not left
    cycle       \* has the search returned true?

search == <<roots, stack, visited, recStack, cycle>>

-----------------------------------------------------------------------------
SearchInit ==
    /\ roots = Stage
    /\ stack = <<>>
    /\ visited = {}
    /\ recStack = {}
    /\ cycle = FALSE

SearchDone == cycle \/ (roots = {} /\ stack = <<>>)

\* The body of hasCycleDFS on entry: back edge, known node or new frame.
\* Here rest is the caller's stack.
Enter(node, rest) ==
    /\ cycle' = (node \in recStack)
    /\ IF node \in visited
       THEN stack' = rest /\ UNCHANGED <<visited, recStack>>
       ELSE /\ stack' = Append(rest, [node |-> node, next |-> 1])
            /\ visited' = visited \cup {node}
            /\ recStack' = recStack \cup {node}

\* hasCycle ranges over a map: the next root is any one left.
VisitRoot(node) ==
    /\ ~SearchDone /\ stack = <<>> /\ node \in roots
    /\ roots' = roots \ {node}
    /\ Enter(node, <<>>)
    /\ UNCHANGED deps

Top == stack[Len(stack)]
Below == SubSeq(stack, 1, Len(stack) - 1)

VisitNeighbor ==
    /\ ~SearchDone /\ stack # <<>> /\ Top.next <= Len(deps[Top.node])
    /\ Enter(deps[Top.node][Top.next], Append(Below, [Top EXCEPT !.next = @ + 1]))
    /\ UNCHANGED <<deps, roots>>

\* Faulty: the node stays on the recursion stack when the search leaves it.
LeaveKeepsNode ==
    /\ ~SearchDone /\ stack # <<>> /\ Top.next > Len(deps[Top.node])
    /\ stack' = Below
    /\ UNCHANGED <<deps, roots, visited, recStack, cycle>>

Leave ==
    /\ ~SearchDone /\ stack # <<>> /\ Top.next > Len(deps[Top.node])
    /\ recStack' = recStack \ {Top.node}
    /\ stack' = Below
    /\ UNCHANGED <<deps, roots, visited, cycle>>

SearchStep == (\E node \in Stage : VisitRoot(node)) \/ VisitNeighbor \/ Leave
=============================================================================
