---------------------- MODULE SequentialExecutorProofs ----------------------
(***************************************************************************)
(* Theorems about SequentialExecutor, for every set of stages and every    *)
(* dependency graph, circular ones and repeated dependencies included.     *)
(***************************************************************************)
EXTENDS SequentialExecutor, FiniteSetTheorems, SequenceTheorems, TLAPS

-----------------------------------------------------------------------------
(* The inductive invariant.                                                *)

(* The search of hasCycle: until it finds a cycle, the stack is a path of  *)
(* the graph, and the nodes it has left form a closed part without cycles. *)

Frame == [node : Stage, next : Nat \ {0}]

Explored == visited \ recStack

SearchType ==
    /\ deps \in DependencyLists
    /\ roots \subseteq Stage /\ visited \subseteq Stage /\ recStack \subseteq visited
    /\ stack \in Seq(Frame)
    /\ cycle \in BOOLEAN

\* The recursion stack is the path from a root to the node at hand: each
\* frame is at the neighbour that the frame above it has entered.
PathInv ==
    /\ recStack = {stack[i].node : i \in 1..Len(stack)}
    /\ \A i, j \in 1..Len(stack) : stack[i].node = stack[j].node => i = j
    /\ \A i \in 1..Len(stack) : stack[i].next <= Len(deps[stack[i].node]) + 1
    /\ \A i \in 1..(Len(stack) - 1) :
          /\ stack[i].next > 1
          /\ deps[stack[i].node][stack[i].next - 1] = stack[i + 1].node

\* Neighbours behind a frame are explored, but for the one it is in.
FrameInv ==
    \A i \in 1..Len(stack) : \A k \in 1..(stack[i].next - 1) :
        \/ deps[stack[i].node][k] \in Explored
        \/ i < Len(stack) /\ k = stack[i].next - 1

ExploredInv ==
    /\ \A s \in Explored : DependencySets[s] \subseteq Explored
    /\ \A S \in (SUBSET Explored) \ {{}} : \E s \in S : DependencySets[s] \cap S = {}

SearchInv ==
    /\ cycle => ~Acyclic(DependencySets)
    /\ ~cycle => PathInv /\ FrameInv /\ ExploredInv /\ Stage \subseteq roots \cup visited

-----------------------------------------------------------------------------
(* Facts about the dependency lists.                                       *)

LEMMA ListType ==
    ASSUME deps \in DependencyLists
    PROVE  /\ \A s \in Stage : deps[s] \in Seq(Stage)
           /\ \A s \in Stage : Len(deps[s]) \in Nat
           /\ \A s \in Stage : \A i \in 1..Len(deps[s]) : deps[s][i] \in Stage
           /\ \A s \in Stage : DependencySets[s] = {deps[s][i] : i \in 1..Len(deps[s])}
<1>1. deps \in [Stage -> UNION {[1..n -> Stage] : n \in 0..MaxDeps}]
  BY DEF DependencyLists
<1>2. ASSUME NEW s \in Stage
      PROVE  /\ deps[s] \in Seq(Stage)
             /\ Len(deps[s]) \in Nat
             /\ \A i \in 1..Len(deps[s]) : deps[s][i] \in Stage
  <2>1. PICK n \in 0..MaxDeps : deps[s] \in [1..n -> Stage]
    BY <1>1
  <2>2. n \in Nat
    BY MaxDepsAssumption
  <2>3. deps[s] \in Seq(Stage)
    BY <2>1, <2>2, SeqDef
  <2> QED
    BY <2>3, LenProperties, ElementOfSeq
<1>3. \A s \in Stage : DependencySets[s] = {deps[s][i] : i \in 1..Len(deps[s])}
  BY DEF DependencySets
<1> QED
  BY <1>2, <1>3

-----------------------------------------------------------------------------
(* Steps of the search.                                                    *)

LEMMA InitSearch == Init => SearchType /\ SearchInv
<1> SUFFICES ASSUME Init PROVE SearchType /\ SearchInv
  OBVIOUS
<1>1. /\ deps \in DependencyLists /\ roots = Stage /\ visited = {} /\ recStack = {}
      /\ stack = <<>> /\ cycle = FALSE
  BY DEF Init, SearchInit
<1>2. stack \in Seq(Frame) /\ Len(stack) = 0
  BY <1>1, EmptySeq
<1>3. Explored = {}
  BY <1>1 DEF Explored
<1>4. SearchType
  BY <1>1, <1>2 DEF SearchType
<1>5. PathInv /\ FrameInv /\ ExploredInv
  BY <1>1, <1>2, <1>3 DEF PathInv, FrameInv, ExploredInv
<1> QED
  BY <1>1, <1>4, <1>5 DEF SearchInv

\* The frame at the top, and the stack with that frame at its next neighbour.
LEMMA TopFacts ==
    ASSUME SearchType, stack # <<>>
    PROVE  /\ Len(stack) \in Nat \ {0}
           /\ \A i \in 1..Len(stack) : stack[i].node \in Stage /\ stack[i].next \in Nat \ {0}
           /\ Top = stack[Len(stack)] /\ Top \in Frame
           /\ Below \in Seq(Frame) /\ Len(Below) = Len(stack) - 1
           /\ \A i \in 1..(Len(stack) - 1) : Below[i] = stack[i]
<1>1. stack \in Seq(Frame) /\ Len(stack) \in Nat /\ Len(stack) # 0
  BY EmptySeq, LenProperties DEF SearchType
<1>2. \A i \in 1..Len(stack) : stack[i] \in Frame
  BY <1>1, ElementOfSeq
<1>3. \A i \in 1..Len(stack) : stack[i].node \in Stage /\ stack[i].next \in Nat \ {0}
  BY <1>2 DEF Frame
<1>4. 1 \in 1..(Len(stack) + 1) /\ Len(stack) - 1 \in 0..Len(stack)
  BY <1>1
<1>5. /\ Below \in Seq(Frame)
      /\ Len(Below) = IF 1 <= Len(stack) - 1 THEN (Len(stack) - 1) - 1 + 1 ELSE 0
      /\ \A i \in 1..((Len(stack) - 1) - 1 + 1) : Below[i] = stack[1 + i - 1]
  BY <1>1, <1>4, SubSeqProperties DEF Below
<1>6. Len(Below) = Len(stack) - 1
  <2>1. \A n \in Nat : n # 0 => (IF 1 <= n - 1 THEN (n - 1) - 1 + 1 ELSE 0) = n - 1
    OBVIOUS
  <2> QED
    BY <1>1, <1>5, <2>1
<1>7. \A i \in 1..(Len(stack) - 1) : Below[i] = stack[i]
  BY <1>1, <1>5
<1>8. Top = stack[Len(stack)] /\ Top \in Frame
  BY <1>1, <1>2 DEF Top
<1> QED
  BY <1>1, <1>3, <1>5, <1>6, <1>7, <1>8

Advanced == Append(Below, [Top EXCEPT !.next = @ + 1])

LEMMA AdvanceFacts ==
    ASSUME SearchType, stack # <<>>
    PROVE  /\ Advanced \in Seq(Frame) /\ Len(Advanced) = Len(stack)
           /\ \A i \in 1..(Len(stack) - 1) : Advanced[i] = stack[i]
           /\ \A i \in 1..Len(stack) : Advanced[i].node = stack[i].node
           /\ Advanced[Len(stack)].next = Top.next + 1
<1> DEFINE frame == [Top EXCEPT !.next = @ + 1]
<1>1. frame \in Frame /\ frame.node = Top.node /\ frame.next = Top.next + 1
  BY TopFacts DEF Frame
<1> HIDE DEF frame
<1>2. Advanced = Append(Below, frame)
  BY DEF frame, Advanced
<1>3. /\ Advanced \in Seq(Frame) /\ Len(Advanced) = Len(Below) + 1
      /\ \A i \in 1..Len(Below) : Advanced[i] = Below[i]
      /\ Advanced[Len(Below) + 1] = frame
  BY <1>1, <1>2, TopFacts, AppendProperties
<1>4. Len(Below) + 1 = Len(stack)
  BY TopFacts
<1>5. \A i \in 1..(Len(stack) - 1) : Advanced[i] = stack[i]
  BY <1>3, TopFacts
<1>6. Advanced[Len(stack)] = frame
  BY <1>3, <1>4
<1>7. \A i \in 1..Len(stack) : Advanced[i].node = stack[i].node
  BY <1>1, <1>5, <1>6, TopFacts
<1> QED
  BY <1>1, <1>3, <1>4, <1>5, <1>6, <1>7

\* A known node that is not on the recursion stack changes nothing but the
\* position of the frame at hand.
LEMMA RootStep ==
    ASSUME SearchType, SearchInv, NEW node \in Stage, VisitRoot(node)
    PROVE  SearchType' /\ SearchInv'
<1>1. /\ ~cycle /\ stack = <<>> /\ roots' = roots \ {node} /\ deps' = deps
      /\ cycle' = (node \in recStack)
      /\ IF node \in visited
         THEN stack' = <<>> /\ visited' = visited /\ recStack' = recStack
         ELSE /\ stack' = Append(<<>>, [node |-> node, next |-> 1])
              /\ visited' = visited \cup {node}
              /\ recStack' = recStack \cup {node}
  BY DEF VisitRoot, Enter, SearchDone
<1>2. /\ deps \in DependencyLists /\ roots \subseteq Stage /\ visited \subseteq Stage
      /\ PathInv /\ FrameInv /\ ExploredInv /\ Stage \subseteq roots \cup visited
  BY <1>1 DEF SearchType, SearchInv
<1>3. Len(stack) = 0 /\ recStack = {} /\ Explored = visited
  <2>1. Len(stack) = 0
    BY <1>1, EmptySeq
  <2> QED
    BY <2>1, <1>2 DEF PathInv, Explored
<1>4. cycle' \in BOOLEAN /\ ~cycle'
  <2>1. cycle' = (node \in recStack)
    BY <1>1
  <2>2. (node \in recStack) \in BOOLEAN
    OBVIOUS
  <2>3. node \notin recStack
    BY <1>3
  <2> QED
    BY <2>1, <2>2, <2>3
<1>5. DependencySets' = DependencySets
  BY <1>1 DEF DependencySets
<1>6. CASE node \in visited
  <2>1. /\ stack' = <<>> /\ visited' = visited /\ recStack' = {} /\ Len(stack') = 0
        /\ Explored' = Explored /\ stack' \in Seq(Frame)
    BY <1>1, <1>3, <1>6, EmptySeq DEF Explored
  <2>2. SearchType'
    BY <1>1, <1>2, <1>4, <2>1 DEF SearchType
  <2>3. PathInv' /\ FrameInv'
    BY <2>1 DEF PathInv, FrameInv
  <2>4. ExploredInv'
    BY <1>2, <1>5, <2>1 DEF ExploredInv
  <2>5. (Stage \subseteq roots \cup visited)'
    BY <1>1, <1>2, <1>6, <2>1
  <2> QED
    BY <1>4, <2>2, <2>3, <2>4, <2>5 DEF SearchInv
<1>7. CASE node \notin visited
  <2> DEFINE frame == [node |-> node, next |-> 1]
  <2>1. frame \in Frame /\ frame.node = node /\ frame.next = 1
    BY DEF Frame
  <2> HIDE DEF frame
  <2>2. stack' = Append(<<>>, frame) /\ visited' = visited \cup {node} /\ recStack' = {node}
    BY <1>1, <1>3, <1>7 DEF frame
  <2>3. stack' \in Seq(Frame) /\ Len(stack') = 1 /\ stack'[1] = frame
    <3>1. <<>> \in Seq(Frame) /\ Len(<<>>) = 0
      BY EmptySeq
    <3> QED
      BY <2>1, <2>2, <3>1, AppendProperties
  <2>4. Explored' = Explored
    BY <1>3, <1>7, <2>2 DEF Explored
  <2>5. SearchType'
    BY <1>1, <1>2, <1>4, <2>2, <2>3 DEF SearchType
  <2>6. 1..Len(stack') = {1} /\ 1..(Len(stack') - 1) = {}
    BY <2>3
  <2>7. Len(deps[node]) \in Nat
    BY <1>2, ListType
  <2>8. PathInv'
    BY <1>1, <2>1, <2>2, <2>3, <2>6, <2>7 DEF PathInv
  <2>9. FrameInv'
    BY <2>1, <2>3, <2>6 DEF FrameInv
  <2>10. ExploredInv'
    BY <1>2, <1>5, <2>4 DEF ExploredInv
  <2>11. (Stage \subseteq roots \cup visited)'
    BY <1>1, <1>2, <2>2
  <2> QED
    BY <1>4, <2>5, <2>8, <2>9, <2>10, <2>11 DEF SearchInv
<1> QED
  BY <1>6, <1>7

\* A back edge closes a cycle: every node from the neighbour up to the top of
\* the stack depends on the next one.
LEMMA BackEdge ==
    ASSUME SearchType, PathInv, stack # <<>>, Top.next <= Len(deps[Top.node]),
           deps[Top.node][Top.next] \in recStack
    PROVE  ~Acyclic(DependencySets)
<1> DEFINE n == Len(stack)
<1>1. n \in Nat \ {0} /\ Top = stack[n] /\ Top \in Frame
  BY TopFacts
<1>2. PICK k \in 1..n : stack[k].node = deps[Top.node][Top.next]
  BY DEF PathInv
<1> DEFINE Circle == {stack[i].node : i \in k..n}
<1>3. \A i \in 1..n : stack[i].node \in Stage /\ stack[i].next \in Nat \ {0}
  BY TopFacts
<1>4. \A i \in k..n : i \in 1..n
  BY <1>1, <1>2
<1>5. Circle \in (SUBSET Stage) \ {{}}
  <2>1. k \in k..n
    BY <1>1, <1>2
  <2> QED
    BY <1>3, <1>4, <2>1
<1>6. ASSUME NEW s \in Circle PROVE DependencySets[s] \cap Circle # {}
  <2>1. PICK i \in k..n : s = stack[i].node
    BY <1>6
  <2>2. i \in 1..n /\ s \in Stage
    BY <1>3, <1>4, <2>1
  <2>3. DependencySets[s] = {deps[s][j] : j \in 1..Len(deps[s])} /\ Len(deps[s]) \in Nat
    BY <2>2, ListType DEF SearchType
  <2>4. CASE i = n
    <3>1. s = Top.node /\ Top.next \in 1..Len(deps[s])
      BY <1>1, <1>3, <2>1, <2>2, <2>3, <2>4
    <3>2. deps[s][Top.next] = stack[k].node /\ stack[k].node \in Circle
      BY <1>1, <1>2, <3>1
    <3> QED
      BY <2>3, <3>1, <3>2
  <2>5. CASE i # n
    <3>1. i \in 1..(n - 1) /\ i + 1 \in k..n
      BY <1>1, <1>2, <2>1, <2>2, <2>5
    <3>2. /\ stack[i].next > 1 /\ stack[i].next <= Len(deps[s]) + 1
          /\ deps[s][stack[i].next - 1] = stack[i + 1].node
      BY <2>1, <2>2, <3>1 DEF PathInv
    <3>3. stack[i].next - 1 \in 1..Len(deps[s])
      BY <1>3, <2>2, <2>3, <3>2
    <3> QED
      BY <2>3, <3>1, <3>2, <3>3
  <2> QED
    BY <2>4, <2>5
<1> QED
  BY <1>5, <1>6 DEF Acyclic

\* The neighbour is the one known to be explored.
LEMMA KnownNeighbor ==
    ASSUME SearchType, SearchInv, ~cycle, stack # <<>>, Top.next <= Len(deps[Top.node]),
           deps[Top.node][Top.next] \in Explored,
           stack' = Advanced, cycle' \in BOOLEAN, ~cycle',
           UNCHANGED <<deps, roots, visited, recStack>>
    PROVE  SearchType' /\ SearchInv'
<1> DEFINE n == Len(stack)
<1>1. /\ deps \in DependencyLists
      /\ PathInv /\ FrameInv /\ ExploredInv /\ Stage \subseteq roots \cup visited
  BY DEF SearchType, SearchInv
<1>2. /\ n \in Nat \ {0} /\ Top = stack[n]
      /\ \A i \in 1..n : stack[i].node \in Stage /\ stack[i].next \in Nat \ {0}
  BY TopFacts
<1>3. /\ stack' \in Seq(Frame) /\ Len(stack') = n
      /\ \A i \in 1..(n - 1) : stack'[i] = stack[i]
      /\ \A i \in 1..n : stack'[i].node = stack[i].node
      /\ stack'[n].next = Top.next + 1
  BY AdvanceFacts
<1>4. /\ deps' = deps /\ roots' = roots /\ visited' = visited /\ recStack' = recStack
      /\ Explored' = Explored /\ DependencySets' = DependencySets
  BY DEF Explored, DependencySets
<1>5. SearchType'
  BY <1>3, <1>4 DEF SearchType
<1>6. \A s \in Stage : Len(deps[s]) \in Nat
  BY <1>1, ListType
<1> HIDE DEF n
<1>7. PathInv'
  <2>1. recStack' = {stack'[i].node : i \in 1..Len(stack')}
    <3>1. recStack = {stack[i].node : i \in 1..n}
      BY <1>1 DEF PathInv, n
    <3>2. {stack[i].node : i \in 1..n} = {stack'[i].node : i \in 1..n}
      BY <1>3
    <3> QED
      BY <1>3, <1>4, <3>1, <3>2
  <2>2. \A i, j \in 1..Len(stack') : stack'[i].node = stack'[j].node => i = j
    BY <1>1, <1>3 DEF PathInv, n
  <2>3. \A i \in 1..Len(stack') : stack'[i].next <= Len(deps'[stack'[i].node]) + 1
    <3> SUFFICES ASSUME NEW i \in 1..n PROVE stack'[i].next <= Len(deps[stack[i].node]) + 1
      BY <1>3, <1>4
    <3>1. CASE i = n
      BY <1>2, <1>3, <1>6, <3>1
    <3>2. CASE i # n
      <4>1. i \in 1..(n - 1)
        BY <1>2, <3>2
      <4> QED
        BY <1>1, <1>3, <4>1 DEF PathInv, n
    <3> QED
      BY <3>1, <3>2
  <2>4. \A i \in 1..(Len(stack') - 1) :
          /\ stack'[i].next > 1
          /\ deps'[stack'[i].node][stack'[i].next - 1] = stack'[i + 1].node
    <3> SUFFICES ASSUME NEW i \in 1..(n - 1)
                 PROVE  /\ stack'[i].next > 1
                        /\ deps[stack'[i].node][stack'[i].next - 1] = stack'[i + 1].node
      BY <1>3, <1>4
    <3>1. i + 1 \in 1..n
      BY <1>2
    <3>2. stack'[i] = stack[i] /\ stack'[i + 1].node = stack[i + 1].node
      BY <1>3, <3>1
    <3> QED
      BY <1>1, <3>2 DEF PathInv, n
  <2> QED
    BY <2>1, <2>2, <2>3, <2>4 DEF PathInv
<1>8. FrameInv'
  <2> SUFFICES ASSUME NEW i \in 1..n, NEW k \in 1..(stack'[i].next - 1)
               PROVE  \/ deps[stack[i].node][k] \in Explored
                      \/ i < n /\ k = stack'[i].next - 1
    BY <1>3, <1>4 DEF FrameInv
  <2>1. CASE i = n
    <3>1. stack[i] = Top /\ k \in 1..Top.next
      BY <1>2, <1>3, <2>1
    <3>2. CASE k = Top.next
      BY <3>1, <3>2
    <3>3. CASE k # Top.next
      <4>1. k \in 1..(stack[i].next - 1)
        BY <1>2, <3>1, <3>3
      <4> QED
        BY <1>1, <1>2, <2>1, <4>1 DEF FrameInv, n
    <3> QED
      BY <3>2, <3>3
  <2>2. CASE i # n
    <3>1. i \in 1..(n - 1) /\ i < n
      BY <1>2, <2>2
    <3>2. stack'[i] = stack[i]
      BY <1>3, <3>1
    <3> QED
      BY <1>1, <3>1, <3>2 DEF FrameInv, n
  <2> QED
    BY <2>1, <2>2
<1>9. ExploredInv' /\ (Stage \subseteq roots \cup visited)'
  BY <1>1, <1>4 DEF ExploredInv
<1> QED
  BY <1>5, <1>7, <1>8, <1>9 DEF SearchInv

\* A frame for the neighbour on top of the advanced one.
LEMMA PushedFacts ==
    ASSUME SearchType, stack # <<>>, NEW node \in Stage,
           stack' = Append(Advanced, [node |-> node, next |-> 1])
    PROVE  /\ stack' \in Seq(Frame) /\ Len(stack') = Len(stack) + 1
           /\ \A i \in 1..Len(stack) : stack'[i].node = stack[i].node
           /\ \A i \in 1..(Len(stack) - 1) : stack'[i] = stack[i]
           /\ stack'[Len(stack)].next = Top.next + 1
           /\ stack'[Len(stack) + 1].node = node /\ stack'[Len(stack) + 1].next = 1
<1> DEFINE n == Len(stack)
           frame == [node |-> node, next |-> 1]
<1>1. frame \in Frame /\ frame.node = node /\ frame.next = 1
  BY DEF Frame
<1> HIDE DEF n, frame
<1>2. n \in Nat \ {0}
  BY TopFacts DEF n
<1>3. /\ Advanced \in Seq(Frame) /\ Len(Advanced) = n
      /\ \A i \in 1..(n - 1) : Advanced[i] = stack[i]
      /\ \A i \in 1..n : Advanced[i].node = stack[i].node
      /\ Advanced[n].next = Top.next + 1
  BY AdvanceFacts DEF n
<1>4. /\ stack' \in Seq(Frame) /\ Len(stack') = n + 1
      /\ \A i \in 1..n : stack'[i] = Advanced[i]
      /\ stack'[n + 1] = frame
  <2>1. stack' = Append(Advanced, frame)
    BY DEF frame
  <2> QED
    BY <1>1, <1>3, <2>1, AppendProperties
<1>5. n \in 1..n /\ \A i \in 1..(n - 1) : i \in 1..n
  BY <1>2
<1>6. /\ \A i \in 1..n : stack'[i].node = stack[i].node
      /\ \A i \in 1..(n - 1) : stack'[i] = stack[i]
      /\ stack'[n].next = Top.next + 1
      /\ stack'[n + 1].node = node /\ stack'[n + 1].next = 1
  BY <1>1, <1>3, <1>4, <1>5
<1> QED
  BY <1>4, <1>6 DEF n

\* The neighbour is entered for the first time.
LEMMA NewNeighbor ==
    ASSUME SearchType, SearchInv, ~cycle, stack # <<>>,
           NEW node \in Stage, node = deps[Top.node][Top.next], node \notin visited,
           NEW n, n = Len(stack),
           stack' \in Seq(Frame), Len(stack') = n + 1,
           \A i \in 1..n : stack'[i].node = stack[i].node,
           \A i \in 1..(n - 1) : stack'[i] = stack[i],
           stack'[n].next = Top.next + 1,
           stack'[n + 1].node = node, stack'[n + 1].next = 1,
           Top.next <= Len(deps[Top.node]),
           visited' = visited \cup {node}, recStack' = recStack \cup {node},
           cycle' \in BOOLEAN, ~cycle', deps' = deps, roots' = roots
    PROVE  SearchType' /\ SearchInv'
<1>1. /\ deps \in DependencyLists /\ recStack \subseteq visited
      /\ PathInv /\ FrameInv /\ ExploredInv /\ Stage \subseteq roots \cup visited
  BY DEF SearchType, SearchInv
<1>2. /\ n \in Nat \ {0} /\ Top = stack[n]
      /\ \A i \in 1..n : stack[i].node \in Stage /\ stack[i].next \in Nat \ {0}
  BY TopFacts
<1>3. Explored' = Explored /\ DependencySets' = DependencySets
  BY <1>1 DEF Explored, DependencySets
<1>4. SearchType'
  BY <1>3 DEF SearchType
<1>5. \A s \in Stage : Len(deps[s]) \in Nat
  BY <1>1, ListType
<1>6. \A i \in 1..(n + 1) : i \in 1..n \/ i = n + 1
  BY <1>2
<1>7. recStack = {stack[i].node : i \in 1..n}
  BY <1>1 DEF PathInv
<1>8. PathInv'
  <2>1. recStack' = {stack'[i].node : i \in 1..Len(stack')}
    <3>1. {stack'[i].node : i \in 1..(n + 1)} = {stack'[i].node : i \in 1..n} \cup {node}
      <4>1. 1..(n + 1) = (1..n) \cup {n + 1}
        BY <1>2
      <4> QED
        BY <4>1
    <3>2. {stack'[i].node : i \in 1..n} = {stack[i].node : i \in 1..n}
      OBVIOUS
    <3> QED
      BY <1>7, <3>1, <3>2
  <2>2. \A i, j \in 1..Len(stack') : stack'[i].node = stack'[j].node => i = j
    <3>1. \A i \in 1..n : stack[i].node # node
      BY <1>1, <1>7
    <3>2. \A i, j \in 1..n : stack[i].node = stack[j].node => i = j
      BY <1>1 DEF PathInv
    <3> QED
      BY <1>6, <3>1, <3>2
  <2>3. \A i \in 1..Len(stack') : stack'[i].next <= Len(deps'[stack'[i].node]) + 1
    <3> SUFFICES ASSUME NEW i \in 1..(n + 1)
                 PROVE  stack'[i].next <= Len(deps[stack'[i].node]) + 1
      BY <1>3
    <3>1. CASE i = n + 1
      BY <1>5, <3>1
    <3>2. CASE i = n
      <4>1. stack'[i].node = Top.node /\ Top.node \in Stage
        BY <1>2, <3>2
      <4> QED
        BY <1>2, <1>5, <3>2, <4>1
    <3>3. CASE i # n /\ i # n + 1
      <4>1. i \in 1..(n - 1) /\ i \in 1..n
        BY <1>2, <3>3
      <4> QED
        BY <1>1, <4>1 DEF PathInv
    <3> QED
      BY <3>1, <3>2, <3>3
  <2>4. \A i \in 1..(Len(stack') - 1) :
          /\ stack'[i].next > 1
          /\ deps'[stack'[i].node][stack'[i].next - 1] = stack'[i + 1].node
    <3> SUFFICES ASSUME NEW i \in 1..n
                 PROVE  /\ stack'[i].next > 1
                        /\ deps[stack'[i].node][stack'[i].next - 1] = stack'[i + 1].node
      BY <1>2, <1>3
    <3>1. CASE i = n
      <4>1. stack'[i].node = Top.node /\ Top.next \in Nat \ {0}
        BY <1>2, <3>1
      <4>2. stack'[i].next = Top.next + 1 /\ stack'[i + 1].node = node
        BY <3>1
      <4>3. stack'[i].next > 1 /\ stack'[i].next - 1 = Top.next
        BY <4>1, <4>2
      <4> QED
        BY <4>1, <4>2, <4>3
    <3>2. CASE i # n
      <4>1. i \in 1..(n - 1) /\ i + 1 \in 1..n
        BY <1>2, <3>2
      <4>2. stack'[i] = stack[i] /\ stack'[i + 1].node = stack[i + 1].node
        BY <4>1
      <4> QED
        BY <1>1, <4>1, <4>2 DEF PathInv
    <3> QED
      BY <3>1, <3>2
  <2> QED
    BY <2>1, <2>2, <2>3, <2>4 DEF PathInv
<1>9. FrameInv'
  <2> SUFFICES ASSUME NEW i \in 1..(n + 1), NEW k \in 1..(stack'[i].next - 1)
               PROVE  \/ deps[stack'[i].node][k] \in Explored
                      \/ i < n + 1 /\ k = stack'[i].next - 1
    BY <1>3 DEF FrameInv
  <2>1. CASE i = n + 1
    BY <2>1
  <2>2. CASE i = n
    <3>1. stack'[i].node = stack[i].node /\ stack[i] = Top /\ stack'[i].next = Top.next + 1
      BY <1>2, <2>2
    <3>2. Top.next \in Nat \ {0}
      BY <1>2
    <3>3. CASE k = Top.next
      <4>1. k = stack'[i].next - 1 /\ i < n + 1
        BY <1>2, <2>2, <3>1, <3>2, <3>3
      <4> QED
        BY <4>1
    <3>4. CASE k # Top.next
      <4>1. k \in 1..(stack[i].next - 1)
        BY <3>1, <3>2, <3>4
      <4>2. i \in 1..n /\ ~(i < n)
        BY <1>2, <2>2
      <4> QED
        BY <1>1, <3>1, <4>1, <4>2 DEF FrameInv
    <3> QED
      BY <3>3, <3>4
  <2>3. CASE i # n /\ i # n + 1
    <3>1. i \in 1..(n - 1) /\ i \in 1..n /\ i < n + 1
      BY <1>2, <2>3
    <3>2. stack'[i] = stack[i]
      BY <3>1
    <3> QED
      BY <1>1, <3>1, <3>2 DEF FrameInv
  <2> QED
    BY <2>1, <2>2, <2>3
<1>10. ExploredInv'
  BY <1>1, <1>3 DEF ExploredInv
<1>11. (Stage \subseteq roots \cup visited)'
  BY <1>1, <1>3
<1> QED
  BY <1>4, <1>8, <1>9, <1>10, <1>11 DEF SearchInv

\* The node at the top is left: all its dependencies are explored, so it
\* joins them, and closes no cycle.
LEMMA LeaveStep ==
    ASSUME SearchType, SearchInv, Leave
    PROVE  SearchType' /\ SearchInv'
<1> DEFINE n == Len(stack)
<1>1. /\ ~cycle /\ stack # <<>> /\ Top.next > Len(deps[Top.node])
      /\ recStack' = recStack \ {Top.node} /\ stack' = Below
      /\ deps' = deps /\ roots' = roots /\ visited' = visited /\ cycle' = cycle
  <2>1. ~cycle
    BY DEF Leave, SearchDone
  <2>2. UNCHANGED <<deps, roots, visited, cycle>>
    BY DEF Leave
  <2>3. deps' = deps /\ roots' = roots /\ visited' = visited /\ cycle' = cycle
    BY <2>2, Zenon
  <2>4. /\ stack # <<>> /\ Top.next > Len(deps[Top.node])
        /\ recStack' = recStack \ {Top.node} /\ stack' = Below
    BY DEF Leave
  <2> QED
    BY <2>1, <2>3, <2>4, Zenon
<1>2. /\ deps \in DependencyLists /\ recStack \subseteq visited
      /\ PathInv /\ FrameInv /\ ExploredInv /\ Stage \subseteq roots \cup visited
  BY <1>1 DEF SearchType, SearchInv
<1>3. /\ n \in Nat \ {0} /\ Top = stack[n]
      /\ \A i \in 1..n : stack[i].node \in Stage /\ stack[i].next \in Nat \ {0}
      /\ stack' \in Seq(Frame) /\ Len(stack') = n - 1
      /\ \A i \in 1..(n - 1) : stack'[i] = stack[i]
  BY <1>1, TopFacts
<1> HIDE DEF n
<1>4. /\ n \in 1..n /\ Top.node \in Stage /\ Top.next \in Nat \ {0}
      /\ \A i \in 1..(n - 1) : i \in 1..n /\ i # n
      /\ \A i \in 1..n : i # n => i \in 1..(n - 1)
  BY <1>3
<1>5. recStack = {stack[i].node : i \in 1..n} /\ Top.node \in recStack
  BY <1>2, <1>3, <1>4 DEF PathInv, n
<1>6. Explored' = Explored \cup {Top.node} /\ Top.node \notin Explored
  BY <1>1, <1>2, <1>5 DEF Explored
<1>7. DependencySets' = DependencySets
  BY <1>1 DEF DependencySets
<1>8. DependencySets[Top.node] \subseteq Explored
  <2>1. /\ Len(deps[Top.node]) \in Nat
        /\ DependencySets[Top.node] = {deps[Top.node][k] : k \in 1..Len(deps[Top.node])}
    BY <1>2, <1>4, ListType
  <2>2. Top.next - 1 = Len(deps[Top.node])
    <3>1. Top.next <= Len(deps[Top.node]) + 1
      BY <1>2, <1>3, <1>4 DEF PathInv, n
    <3>2. Top.next > Len(deps[Top.node])
      BY <1>1
    <3> QED
      BY <1>4, <2>1, <3>1, <3>2
  <2>3. ASSUME NEW k \in 1..Len(deps[Top.node]) PROVE deps[Top.node][k] \in Explored
    <3>1. k \in 1..(stack[n].next - 1) /\ ~(n < n)
      BY <1>3, <2>2
    <3> QED
      BY <1>2, <1>3, <1>4, <3>1 DEF FrameInv, n
  <2> QED
    BY <2>1, <2>3
<1>9. SearchType'
  BY <1>1, <1>2, <1>3 DEF SearchType
<1>10. PathInv'
  <2>1. recStack' = {stack'[i].node : i \in 1..Len(stack')}
    <3>1. \A i \in 1..(n - 1) : stack[i].node # Top.node
      BY <1>2, <1>3, <1>4 DEF PathInv, n
    <3>2. recStack \ {Top.node} = {stack[i].node : i \in 1..(n - 1)}
      BY <1>3, <1>4, <1>5, <3>1
    <3>3. {stack[i].node : i \in 1..(n - 1)} = {stack'[i].node : i \in 1..(n - 1)}
      BY <1>3
    <3> QED
      BY <1>1, <1>3, <3>2, <3>3
  <2>2. /\ \A i, j \in 1..Len(stack') : stack'[i].node = stack'[j].node => i = j
        /\ \A i \in 1..Len(stack') : stack'[i].next <= Len(deps'[stack'[i].node]) + 1
    <3>1. /\ \A i, j \in 1..n : stack[i].node = stack[j].node => i = j
          /\ \A i \in 1..n : stack[i].next <= Len(deps[stack[i].node]) + 1
      BY <1>2 DEF PathInv, n
    <3>2. deps' = deps
      BY <1>1
    <3> QED
      BY <1>3, <1>4, <3>1, <3>2
  <2>3. \A i \in 1..(Len(stack') - 1) :
          /\ stack'[i].next > 1
          /\ deps'[stack'[i].node][stack'[i].next - 1] = stack'[i + 1].node
    <3> SUFFICES ASSUME NEW i \in 1..((n - 1) - 1)
                 PROVE  /\ stack'[i].next > 1
                        /\ deps[stack'[i].node][stack'[i].next - 1] = stack'[i + 1].node
      BY <1>1, <1>3
    <3>1. i \in 1..(n - 1) /\ i + 1 \in 1..(n - 1)
      BY <1>3
    <3>2. stack'[i] = stack[i] /\ stack'[i + 1] = stack[i + 1]
      BY <1>3, <3>1
    <3> QED
      BY <1>2, <3>1, <3>2 DEF PathInv, n
  <2> QED
    BY <2>1, <2>2, <2>3 DEF PathInv
<1>11. FrameInv'
  <2> SUFFICES ASSUME NEW i \in 1..(n - 1), NEW k \in 1..(stack[i].next - 1)
               PROVE  \/ deps[stack[i].node][k] \in Explored'
                      \/ i < n - 1 /\ k = stack[i].next - 1
    BY <1>1, <1>3 DEF FrameInv
  <2>1. deps[stack[i].node][k] \in Explored \/ k = stack[i].next - 1
    BY <1>2, <1>4 DEF FrameInv, n
  <2>2. CASE i = n - 1 /\ k = stack[i].next - 1
    <3>1. deps[stack[i].node][k] = stack[i + 1].node
      BY <1>2, <2>2 DEF PathInv, n
    <3>2. i + 1 = n
      BY <1>3, <2>2
    <3> QED
      BY <1>3, <1>6, <3>1, <3>2
  <2> QED
    BY <1>3, <1>6, <2>1, <2>2
<1>12. ExploredInv'
  <2>1. \A s \in Explored' : DependencySets[s] \subseteq Explored'
    BY <1>2, <1>6, <1>8 DEF ExploredInv
  <2>2. ASSUME NEW S \in (SUBSET Explored') \ {{}}
        PROVE  \E s \in S : DependencySets[s] \cap S = {}
    <3> DEFINE old == S \cap Explored
    <3>1. CASE old = {}
      <4>1. S = {Top.node}
        BY <1>6, <3>1
      <4> QED
        BY <1>6, <1>8, <4>1
    <3>2. CASE old # {}
      <4>1. old \in (SUBSET Explored) \ {{}}
        BY <3>2
      <4>2. PICK s \in old : DependencySets[s] \cap old = {}
        BY <1>2, <4>1 DEF ExploredInv
      <4>3. DependencySets[s] \subseteq Explored
        BY <1>2, <4>2 DEF ExploredInv
      <4> QED
        BY <4>2, <4>3
    <3> QED
      BY <3>1, <3>2
  <2> QED
    BY <1>7, <2>1, <2>2 DEF ExploredInv
<1>13. (Stage \subseteq roots \cup visited)'
  BY <1>1, <1>2
<1> QED
  BY <1>1, <1>9, <1>10, <1>11, <1>12, <1>13 DEF SearchInv

LEMMA NeighborStep ==
    ASSUME SearchType, SearchInv, VisitNeighbor
    PROVE  SearchType' /\ SearchInv'
<1> DEFINE node == deps[Top.node][Top.next]
<1>1. /\ ~cycle /\ stack # <<>> /\ Top.next <= Len(deps[Top.node])
      /\ Enter(node, Advanced)
      /\ deps' = deps /\ roots' = roots
  BY DEF VisitNeighbor, SearchDone, Advanced
<1>2. /\ cycle' = (node \in recStack)
      /\ IF node \in visited
         THEN stack' = Advanced /\ UNCHANGED <<visited, recStack>>
         ELSE /\ stack' = Append(Advanced, [node |-> node, next |-> 1])
              /\ visited' = visited \cup {node}
              /\ recStack' = recStack \cup {node}
  BY <1>1 DEF Enter
<1>3. /\ deps \in DependencyLists /\ roots \subseteq Stage /\ visited \subseteq Stage
      /\ recStack \subseteq visited /\ PathInv
  BY <1>1 DEF SearchType, SearchInv
<1>4. node \in Stage
  <2>1. Top.node \in Stage /\ Top.next \in Nat \ {0}
    BY <1>1, TopFacts DEF Frame
  <2>2. Len(deps[Top.node]) \in Nat
    BY <1>3, <2>1, ListType
  <2>3. Top.next \in 1..Len(deps[Top.node])
    BY <1>1, <2>1, <2>2
  <2> QED
    BY <1>3, <2>1, <2>3, ListType
<1>5. CASE node \in recStack
  <2>1. ~Acyclic(DependencySets)
    BY <1>1, <1>3, <1>5, BackEdge
  <2>2. DependencySets' = DependencySets
    BY <1>1 DEF DependencySets
  <2>3. cycle' \in BOOLEAN /\ cycle'
    <3>1. (node \in recStack) \in BOOLEAN
      OBVIOUS
    <3> QED
      BY <1>2, <1>5, <3>1
  <2>4. stack' = Advanced /\ visited' = visited /\ recStack' = recStack
    BY <1>2, <1>3, <1>5
  <2>5. Advanced \in Seq(Frame)
    BY <1>1, AdvanceFacts
  <2>6. SearchType'
    BY <1>1, <1>3, <2>3, <2>4, <2>5 DEF SearchType
  <2> QED
    BY <2>1, <2>2, <2>3, <2>6 DEF SearchInv
<1>6. CASE node \notin recStack
  <2>1. cycle' \in BOOLEAN /\ ~cycle'
    <3>1. (node \in recStack) \in BOOLEAN
      OBVIOUS
    <3> QED
      BY <1>2, <1>6, <3>1
  <2>2. CASE node \in visited
    <3>1. node \in Explored /\ stack' = Advanced
      BY <1>2, <1>6, <2>2 DEF Explored
    <3>2. UNCHANGED <<deps, roots, visited, recStack>>
      BY <1>1, <1>2, <2>2
    <3> HIDE DEF node
    <3> QED
      BY <1>1, <2>1, <3>1, <3>2, KnownNeighbor DEF node
  <2>3. CASE node \notin visited
    <3>1. /\ stack' = Append(Advanced, [node |-> node, next |-> 1])
          /\ visited' = visited \cup {node} /\ recStack' = recStack \cup {node}
      BY <1>2, <2>3
    <3> DEFINE n == Len(stack)
    <3>2. /\ stack' \in Seq(Frame) /\ Len(stack') = n + 1
          /\ \A i \in 1..n : stack'[i].node = stack[i].node
          /\ \A i \in 1..(n - 1) : stack'[i] = stack[i]
          /\ stack'[n].next = Top.next + 1
          /\ stack'[n + 1].node = node /\ stack'[n + 1].next = 1
      <4> HIDE DEF node
      <4> QED
        BY <1>1, <1>4, <3>1, PushedFacts
    <3>3. n = Len(stack) /\ node = deps[Top.node][Top.next]
      OBVIOUS
    <3> HIDE DEF n, node
    <3> QED
      BY <1>1, <1>4, <2>1, <2>3, <3>1, <3>2, <3>3, NewNeighbor
  <2> QED
    BY <2>2, <2>3
<1> QED
  BY <1>5, <1>6

\* Every step of the search keeps the invariant, and so does any step that
\* is not one.
LEMMA SearchKeeps ==
    ASSUME SearchType, SearchInv, SearchStep \/ UNCHANGED <<deps, search>>
    PROVE  SearchType' /\ SearchInv'
<1>1. CASE UNCHANGED <<deps, search>>
  <2>1. UNCHANGED <<deps, roots, stack, visited, recStack, cycle>>
    BY <1>1 DEF search
  <2>2. Explored' = Explored /\ DependencySets' = DependencySets
    BY <2>1 DEF Explored, DependencySets
  <2>3. SearchType'
    BY <2>1 DEF SearchType
  <2>4. PathInv' = PathInv
    BY <2>1 DEF PathInv
  <2>5. FrameInv' = FrameInv
    BY <2>1, <2>2 DEF FrameInv
  <2>6. ExploredInv' = ExploredInv
    BY <2>2 DEF ExploredInv
  <2> QED
    BY <2>1, <2>2, <2>3, <2>4, <2>5, <2>6 DEF SearchInv
<1>2. CASE SearchStep
  BY <1>2, RootStep, NeighborStep, LeaveStep DEF SearchStep
<1> QED
  BY <1>1, <1>2

\* A search that has ended without a cycle has explored every stage.
LEMMA SearchDecides ==
    ASSUME SearchType, SearchInv, SearchDone, ~cycle
    PROVE  Acyclic(DependencySets)
<1>1. stack = <<>> /\ roots = {}
  BY DEF SearchDone
<1>2. PathInv /\ ExploredInv /\ Stage \subseteq roots \cup visited
  BY DEF SearchInv
<1>3. recStack = {}
  <2>1. Len(stack) = 0
    BY <1>1, EmptySeq
  <2> QED
    BY <1>2, <2>1 DEF PathInv
<1>4. Explored = Stage
  BY <1>1, <1>2, <1>3 DEF Explored, SearchType
<1> QED
  BY <1>2, <1>4 DEF ExploredInv, Acyclic

-----------------------------------------------------------------------------
(* The topological sort: the in-degree of a stage counts the entries of    *)
(* its list that are not in the order yet, and the stages in the order or  *)
(* the queue are those with none left.                                     *)

Distinct(q) == \A i, j \in 1..Len(q) : q[i] = q[j] => i = j
Elements(q) == {q[i] : i \in 1..Len(q)}

\* Entries of the list of s that are not in the set done.
Missing(s, done) == {i \in 1..Len(deps[s]) : deps[s][i] \notin done}

\* The sort has started: the pipeline was valid.
Sorting == phase # "validate" /\ verdict # "invalid"

LineInv ==
    /\ order \in Seq(Stage) /\ queue \in Seq(Stage)
    /\ Distinct(order) /\ Distinct(queue)
    /\ Elements(order) \cap Elements(queue) = {}
    /\ \A i \in 1..Len(order) : \A d \in DependencySets[order[i]] :
          \E j \in 1..(i - 1) : order[j] = d

DegreeInv ==
    /\ inDegree \in [Stage -> Nat]
    /\ \A s \in Stage : inDegree[s] = Cardinality(Missing(s, Elements(order)))
    /\ \A s \in Stage : s \in Elements(order) \cup Elements(queue) <=> inDegree[s] = 0

SortInv ==
    IF Sorting THEN LineInv /\ DegreeInv
    ELSE order = <<>> /\ queue = <<>> /\ inDegree \in [Stage -> Nat]

\* An arrangement of a set of stages lists each of them once.
LEMMA Arrangement ==
    ASSUME NEW S \in SUBSET Stage, NEW q \in SetToSeqs(S)
    PROVE  q \in Seq(Stage) /\ Distinct(q) /\ Elements(q) = S
<1> DEFINE n == Cardinality(S)
<1>1. IsFiniteSet(S) /\ n \in Nat
  BY StageAssumption, FS_Subset, FS_CardinalityType
<1>2. q \in [1..n -> S] /\ \A i, j \in 1..n : i # j => q[i] # q[j]
  BY DEF SetToSeqs
<1> HIDE DEF n
<1>3. q \in [1..n -> Stage]
  BY <1>2
<1>4. q \in Seq(Stage) /\ Len(q) = n
  <2>1. q \in Seq(Stage)
    BY <1>1, <1>3, SeqDef
  <2>2. DOMAIN q = 1..n /\ DOMAIN q = 1..Len(q) /\ Len(q) \in Nat
    BY <1>2, <2>1, LenProperties
  <2> QED
    BY <1>1, <2>1, <2>2
<1>5. Distinct(q)
  BY <1>2, <1>4 DEF Distinct
<1>6. Elements(q) = S
  <2>1. q \in Injection(1..n, S)
    BY <1>2 DEF Injection, IsInjective
  <2>2. Cardinality(1..n) = n
    BY <1>1, FS_Interval
  <2>3. q \in Surjection(1..n, S)
    BY <1>1, <2>1, <2>2, FS_Injection DEF n
  <2>4. \A s \in S : \E i \in 1..n : q[i] = s
    BY <2>3 DEF Surjection
  <2> QED
    BY <1>2, <1>4, <2>4 DEF Elements
<1> QED
  BY <1>4, <1>5, <1>6

LEMMA ConcatElements ==
    ASSUME NEW q \in Seq(Stage), NEW r \in Seq(Stage)
    PROVE  /\ q \o r \in Seq(Stage)
           /\ Elements(q \o r) = Elements(q) \cup Elements(r)
           /\ Distinct(q) /\ Distinct(r) /\ Elements(q) \cap Elements(r) = {} => Distinct(q \o r)
<1> DEFINE m == Len(q)
           n == Len(r)
           line == q \o r
<1>1. m \in Nat /\ n \in Nat
  BY LenProperties
<1>2. /\ line \in Seq(Stage) /\ Len(line) = m + n
      /\ \A i \in 1..(m + n) : line[i] = IF i <= m THEN q[i] ELSE r[i - m]
  BY ConcatProperties
<1> HIDE DEF m, n, line
<1>3. /\ \A i \in 1..m : i \in 1..(m + n) /\ line[i] = q[i]
      /\ \A i \in 1..n : i + m \in 1..(m + n) /\ line[i + m] = r[i]
  BY <1>1, <1>2
<1>4. \A i \in 1..(m + n) : i \in 1..m \/ i - m \in 1..n
  BY <1>1
<1>5. \A i \in 1..(m + n) : i - m \in 1..n => line[i] = r[i - m]
  BY <1>1, <1>2
<1>6. Elements(line) = Elements(q) \cup Elements(r)
  <2>1. \A i \in 1..(m + n) : line[i] \in Elements(q) \cup Elements(r)
    BY <1>3, <1>4, <1>5 DEF Elements, m, n
  <2>2. (\A i \in 1..m : q[i] \in Elements(line)) /\ (\A i \in 1..n : r[i] \in Elements(line))
    BY <1>2, <1>3 DEF Elements
  <2> QED
    BY <1>2, <2>1, <2>2 DEF Elements, m, n
<1>7. ASSUME Distinct(q), Distinct(r), Elements(q) \cap Elements(r) = {}
      PROVE  Distinct(line)
  <2> SUFFICES ASSUME NEW i \in 1..(m + n), NEW j \in 1..(m + n), line[i] = line[j]
               PROVE  i = j
    BY <1>2 DEF Distinct
  <2>1. \A k \in 1..m, l \in 1..n : q[k] # r[l]
    BY <1>7 DEF Elements, m, n
  <2>2. CASE i \in 1..m /\ j \in 1..m
    BY <1>3, <1>7, <2>2 DEF Distinct, m
  <2>3. CASE i - m \in 1..n /\ j - m \in 1..n
    <3>1. i - m = j - m
      BY <1>5, <1>7, <2>3 DEF Distinct, n
    <3> QED
      BY <1>1, <3>1
  <2>4. CASE i \in 1..m /\ j - m \in 1..n
    BY <1>3, <1>5, <2>1, <2>4
  <2>5. CASE j \in 1..m /\ i - m \in 1..n
    BY <1>3, <1>5, <2>1, <2>5
  <2> QED
    BY <1>4, <2>2, <2>3, <2>4, <2>5
<1> QED
  BY <1>2, <1>6, <1>7 DEF line

LEMMA TailElements ==
    ASSUME NEW q \in Seq(Stage), q # <<>>
    PROVE  /\ Tail(q) \in Seq(Stage) /\ Head(q) \in Stage
           /\ Elements(q) = Elements(Tail(q)) \cup {Head(q)}
           /\ Distinct(q) => Distinct(Tail(q)) /\ Head(q) \notin Elements(Tail(q))
<1> DEFINE n == Len(q)
<1>1. /\ n \in Nat \ {0} /\ Head(q) = q[1] /\ Head(q) \in Stage
      /\ Tail(q) \in Seq(Stage) /\ Len(Tail(q)) = n - 1
      /\ \A i \in 1..(n - 1) : Tail(q)[i] = q[i + 1]
  BY HeadTailProperties, LenProperties, EmptySeq
<1> HIDE DEF n
<1>2. /\ \A i \in 1..(n - 1) : i + 1 \in 1..n /\ i + 1 # 1
      /\ \A i \in 1..n : i # 1 => i - 1 \in 1..(n - 1) /\ (i - 1) + 1 = i
      /\ 1 \in 1..n
  BY <1>1
<1>3. Elements(q) = Elements(Tail(q)) \cup {Head(q)}
  <2>1. \A i \in 1..n : q[i] \in Elements(Tail(q)) \cup {Head(q)}
    BY <1>1, <1>2 DEF Elements
  <2>2. \A i \in 1..(n - 1) : Tail(q)[i] \in Elements(q)
    BY <1>1, <1>2 DEF Elements, n
  <2>3. Head(q) \in Elements(q)
    BY <1>1, <1>2 DEF Elements, n
  <2> QED
    BY <1>1, <2>1, <2>2, <2>3 DEF Elements, n
<1>4. ASSUME Distinct(q) PROVE Distinct(Tail(q)) /\ Head(q) \notin Elements(Tail(q))
  <2>1. \A i, j \in 1..n : q[i] = q[j] => i = j
    BY <1>4 DEF Distinct, n
  <2>2. Distinct(Tail(q))
    <3> SUFFICES ASSUME NEW i \in 1..(n - 1), NEW j \in 1..(n - 1), Tail(q)[i] = Tail(q)[j]
                 PROVE  i = j
      BY <1>1 DEF Distinct
    <3>1. i + 1 = j + 1
      BY <1>1, <1>2, <2>1
    <3> QED
      BY <3>1
  <2>3. \A i \in 1..(n - 1) : Tail(q)[i] # Head(q)
    BY <1>1, <1>2, <2>1
  <2> QED
    BY <1>1, <2>2, <2>3 DEF Elements
<1> QED
  BY <1>1, <1>3, <1>4

LEMMA AppendElements ==
    ASSUME NEW q \in Seq(Stage), NEW s \in Stage
    PROVE  /\ Append(q, s) \in Seq(Stage) /\ Len(q) \in Nat
           /\ Len(Append(q, s)) = Len(q) + 1
           /\ \A i \in 1..Len(q) : Append(q, s)[i] = q[i]
           /\ Append(q, s)[Len(q) + 1] = s
           /\ Elements(Append(q, s)) = Elements(q) \cup {s}
           /\ Distinct(q) /\ s \notin Elements(q) => Distinct(Append(q, s))
<1> DEFINE n == Len(q)
           line == Append(q, s)
<1>1. /\ n \in Nat /\ line \in Seq(Stage) /\ Len(line) = n + 1
      /\ \A i \in 1..n : line[i] = q[i]
      /\ line[n + 1] = s
  BY AppendProperties, LenProperties
<1> HIDE DEF n, line
<1>2. 1..(n + 1) = (1..n) \cup {n + 1}
  BY <1>1
<1>3. Elements(line) = Elements(q) \cup {s}
  <2>1. Elements(line) = {line[i] : i \in 1..n} \cup {s}
    BY <1>1, <1>2 DEF Elements
  <2>2. {line[i] : i \in 1..n} = {q[i] : i \in 1..n}
    BY <1>1
  <2> QED
    BY <2>1, <2>2 DEF Elements, n
<1>4. ASSUME Distinct(q), s \notin Elements(q) PROVE Distinct(line)
  <2>1. \A i, j \in 1..n : q[i] = q[j] => i = j
    BY <1>4 DEF Distinct, n
  <2>2. \A i \in 1..n : q[i] # s
    BY <1>4 DEF Elements, n
  <2> QED
    BY <1>1, <1>2, <2>1, <2>2 DEF Distinct
<1> QED
  BY <1>1, <1>3, <1>4 DEF n, line

LEMMA MissingFinite ==
    ASSUME deps \in DependencyLists, NEW s \in Stage, NEW done
    PROVE  /\ IsFiniteSet(Missing(s, done)) /\ Cardinality(Missing(s, done)) \in Nat
           /\ Cardinality(Missing(s, done)) = 0 <=> DependencySets[s] \subseteq done
<1>1. /\ Len(deps[s]) \in Nat
      /\ DependencySets[s] = {deps[s][i] : i \in 1..Len(deps[s])}
  BY ListType
<1>2. IsFiniteSet(1..Len(deps[s]))
  BY <1>1, FS_Interval
<1>3. Missing(s, done) \in SUBSET (1..Len(deps[s]))
  BY DEF Missing
<1>4. IsFiniteSet(Missing(s, done)) /\ Cardinality(Missing(s, done)) \in Nat
  BY <1>2, <1>3, FS_Subset, FS_CardinalityType
<1>5. Missing(s, done) = {} <=> DependencySets[s] \subseteq done
  BY <1>1 DEF Missing
<1> QED
  BY <1>4, <1>5, FS_EmptySet

\* Each mention of the node that enters the order costs one.
LEMMA MentionsCounted ==
    ASSUME deps \in DependencyLists, NEW s \in Stage, NEW done, NEW node, node \notin done
    PROVE  /\ Cardinality(Missing(s, done)) - Mentions(s, node)
                = Cardinality(Missing(s, done \cup {node}))
           /\ Mentions(s, node) \in Nat
<1> DEFINE here == {i \in 1..Len(deps[s]) : deps[s][i] = node}
           rest == Missing(s, done \cup {node})
<1>1. Len(deps[s]) \in Nat
  BY ListType
<1>2. IsFiniteSet(1..Len(deps[s]))
  BY <1>1, FS_Interval
<1>3. here \in SUBSET (1..Len(deps[s]))
  OBVIOUS
<1>4. IsFiniteSet(here) /\ Cardinality(here) \in Nat
  <2> HIDE DEF here
  <2> QED
    BY <1>2, <1>3, FS_Subset, FS_CardinalityType
<1>5. IsFiniteSet(rest) /\ Cardinality(rest) \in Nat
  BY MissingFinite
<1>6. Missing(s, done) = rest \cup here /\ rest \cap here = {}
  BY DEF Missing
<1>7. Mentions(s, node) = Cardinality(here)
  BY DEF Mentions
<1> HIDE DEF here, rest
<1>8. Cardinality(rest \cup here) = Cardinality(rest) + Cardinality(here) - Cardinality(rest \cap here)
  BY <1>4, <1>5, FS_Union
<1>9. Cardinality({}) = 0
  BY FS_EmptySet
<1>10. Cardinality(Missing(s, done)) = Cardinality(rest) + Cardinality(here)
  <2>1. Cardinality(rest \cap here) = 0
    BY <1>6, <1>9
  <2>2. Cardinality(rest \cup here) = Cardinality(rest) + Cardinality(here)
    BY <1>4, <1>5, <1>8, <2>1
  <2> QED
    BY <1>6, <2>2
<1> QED
  BY <1>4, <1>5, <1>7, <1>10 DEF rest

\* The sort starts with the stages without dependencies.
LEMMA StartSortStep ==
    ASSUME deps \in DependencyLists, SortInit, deps' = deps
    PROVE  LineInv' /\ DegreeInv'
<1> DEFINE free == {s \in Stage : deps[s] = <<>>}
<1>1. /\ inDegree' = [s \in Stage |-> Len(deps[s])]
      /\ queue' \in SetToSeqs(free) /\ order' = <<>>
  BY DEF SortInit
<1>2. free \in SUBSET Stage
  OBVIOUS
<1>3. /\ queue' \in Seq(Stage) /\ Distinct(queue') /\ Elements(queue') = free
  <2> HIDE DEF free
  <2> QED
    BY <1>1, <1>2, Arrangement
<1>4. order' \in Seq(Stage) /\ Len(order') = 0
  BY <1>1, EmptySeq
<1>5. Distinct(order') /\ Elements(order') = {}
  BY <1>4 DEF Distinct, Elements
<1>6. LineInv'
  BY <1>3, <1>4, <1>5 DEF LineInv
<1>7. ASSUME NEW s \in Stage
      PROVE  /\ Len(deps[s]) \in Nat
             /\ Cardinality(Missing(s, {})) = Len(deps[s])
             /\ s \in free <=> Len(deps[s]) = 0
  <2>1. deps[s] \in Seq(Stage) /\ Len(deps[s]) \in Nat
    BY ListType
  <2>2. Missing(s, {}) = 1..Len(deps[s])
    BY DEF Missing
  <2>3. Cardinality(1..Len(deps[s])) = Len(deps[s])
    BY <2>1, FS_Interval
  <2>4. deps[s] = <<>> <=> Len(deps[s]) = 0
    BY <2>1, EmptySeq
  <2> QED
    BY <2>1, <2>2, <2>3, <2>4
<1>8. \A s \in Stage : Missing(s, {})' = Missing(s, {})
  BY DEF Missing
<1> HIDE DEF free
<1>9. inDegree' \in [Stage -> Nat] /\ \A s \in Stage : inDegree'[s] = Len(deps[s])
  BY <1>1, <1>7
<1>10. \A s \in Stage : inDegree'[s] = Cardinality(Missing(s, Elements(order)))'
  <2> SUFFICES ASSUME NEW s \in Stage
               PROVE  inDegree'[s] = Cardinality({i \in 1..Len(deps'[s]) : deps'[s][i] \notin Elements(order')})
    BY DEF Missing
  <2>1. {i \in 1..Len(deps'[s]) : deps'[s][i] \notin Elements(order')} = Missing(s, {})
    BY <1>5 DEF Missing
  <2> QED
    BY <1>7, <1>9, <2>1
<1>11. \A s \in Stage : s \in Elements(order') \cup Elements(queue') <=> inDegree'[s] = 0
  BY <1>3, <1>5, <1>7, <1>9
<1> QED
  BY <1>6, <1>9, <1>10, <1>11 DEF DegreeInv

\* A node moves from the queue to the order, and the stages it frees to the queue.
LEMMA DequeueStep ==
    ASSUME deps \in DependencyLists, LineInv, DegreeInv, Dequeue, deps' = deps
    PROVE  /\ LineInv' /\ DegreeInv'
           /\ order' = Append(order, Head(queue)) /\ Head(queue) \in Stage
<1> DEFINE node == Head(queue)
           left == [s \in Stage |-> inDegree[s] - Mentions(s, node)]
           freed == {s \in Stage : inDegree[s] > 0 /\ left[s] = 0}
           done == Elements(order)
<1>1. /\ queue # <<>> /\ order' = Append(order, node) /\ inDegree' = left
      /\ \E q \in InFileOrder(freed) : queue' = Tail(queue) \o q
  BY DEF Dequeue
<1>2. PICK q \in SetToSeqs(freed) : queue' = Tail(queue) \o q
  BY <1>1 DEF InFileOrder
<1>3. freed \in SUBSET Stage
  OBVIOUS
<1>4. q \in Seq(Stage) /\ Distinct(q) /\ Elements(q) = freed
  <2> HIDE DEF freed
  <2> QED
    BY <1>2, <1>3, Arrangement
<1>5. /\ order \in Seq(Stage) /\ queue \in Seq(Stage) /\ Distinct(order) /\ Distinct(queue)
      /\ done \cap Elements(queue) = {}
      /\ \A i \in 1..Len(order) : \A d \in DependencySets[order[i]] :
            \E j \in 1..(i - 1) : order[j] = d
  BY DEF LineInv
<1>6. /\ Tail(queue) \in Seq(Stage) /\ node \in Stage
      /\ Elements(queue) = Elements(Tail(queue)) \cup {node}
      /\ Distinct(Tail(queue)) /\ node \notin Elements(Tail(queue))
  BY <1>1, <1>5, TailElements
<1>7. node \notin done
  BY <1>5, <1>6
<1>8. /\ inDegree \in [Stage -> Nat]
      /\ \A s \in Stage : inDegree[s] = Cardinality(Missing(s, done))
      /\ \A s \in Stage : s \in done \cup Elements(queue) <=> inDegree[s] = 0
  BY DEF DegreeInv
<1>9. DependencySets[node] \subseteq done
  <2>1. inDegree[node] = 0
    BY <1>6, <1>8
  <2> QED
    BY <1>6, <1>8, <2>1, MissingFinite
<1>10. /\ order' \in Seq(Stage) /\ Len(order) \in Nat /\ Len(order') = Len(order) + 1
       /\ \A i \in 1..Len(order) : order'[i] = order[i]
       /\ order'[Len(order) + 1] = node
       /\ Elements(order') = done \cup {node} /\ Distinct(order')
  BY <1>1, <1>5, <1>6, <1>7, AppendElements
<1>11. DependencySets' = DependencySets
  BY DEF DependencySets
<1> HIDE DEF node
<1>12. \A s \in Stage : left[s] = inDegree[s] - Mentions(s, node)
  OBVIOUS
<1>13. \A s \in Stage : s \in freed <=> inDegree[s] > 0 /\ left[s] = 0
  OBVIOUS
<1>14. left = [s \in Stage |-> left[s]]
  OBVIOUS
<1> HIDE DEF left, freed
<1>15. \A s \in Stage : /\ left[s] = Cardinality(Missing(s, done \cup {node}))
                        /\ left[s] \in Nat /\ left[s] <= inDegree[s]
  <2> SUFFICES ASSUME NEW s \in Stage
               PROVE  /\ left[s] = Cardinality(Missing(s, done \cup {node}))
                      /\ left[s] \in Nat /\ left[s] <= inDegree[s]
    OBVIOUS
  <2> HIDE DEF done
  <2>1. /\ Cardinality(Missing(s, done)) - Mentions(s, node)
              = Cardinality(Missing(s, done \cup {node}))
        /\ Mentions(s, node) \in Nat
    BY <1>7, MentionsCounted
  <2>2. Cardinality(Missing(s, done \cup {node})) \in Nat
    BY MissingFinite
  <2> QED
    BY <1>8, <1>12, <2>1, <2>2
<1>16. \A s \in freed : s \in Stage /\ s \notin done \cup Elements(queue)
  BY <1>3, <1>8, <1>13
<1>17. /\ queue' \in Seq(Stage) /\ Distinct(queue')
       /\ Elements(queue') = Elements(Tail(queue)) \cup freed
  <2>1. Elements(Tail(queue)) \cap Elements(q) = {}
    BY <1>4, <1>6, <1>16
  <2> QED
    BY <1>2, <1>4, <1>6, <2>1, ConcatElements
<1>18. Elements(order') \cap Elements(queue') = {}
  BY <1>5, <1>6, <1>10, <1>16, <1>17
<1>19. \A i \in 1..Len(order') : \A d \in DependencySets'[order'[i]] :
          \E j \in 1..(i - 1) : order'[j] = d
  <2> SUFFICES ASSUME NEW i \in 1..(Len(order) + 1), NEW d \in DependencySets[order'[i]]
               PROVE  \E j \in 1..(i - 1) : order'[j] = d
    BY <1>10, <1>11
  <2>1. CASE i = Len(order) + 1
    <3>1. d \in done
      BY <1>9, <1>10, <2>1
    <3>2. PICK j \in 1..Len(order) : order[j] = d
      BY <3>1 DEF Elements
    <3> QED
      BY <1>10, <2>1, <3>2
  <2>2. CASE i # Len(order) + 1
    <3>1. i \in 1..Len(order)
      BY <1>10, <2>2
    <3>2. PICK j \in 1..(i - 1) : order[j] = d
      BY <1>5, <1>10, <3>1
    <3>3. j \in 1..Len(order)
      BY <1>10, <3>1
    <3> QED
      BY <1>10, <3>2, <3>3
  <2> QED
    BY <2>1, <2>2
<1>20. LineInv'
  BY <1>10, <1>17, <1>18, <1>19 DEF LineInv
<1>21. inDegree' \in [Stage -> Nat]
  BY <1>1, <1>14, <1>15
<1>22. \A s \in Stage : inDegree'[s] = Cardinality(Missing(s, Elements(order)))'
  <2> SUFFICES ASSUME NEW s \in Stage
               PROVE  inDegree'[s] = Cardinality({i \in 1..Len(deps'[s]) : deps'[s][i] \notin Elements(order')})
    BY DEF Missing
  <2>1. {i \in 1..Len(deps'[s]) : deps'[s][i] \notin Elements(order')} = Missing(s, done \cup {node})
    BY <1>10 DEF Missing
  <2> QED
    BY <1>1, <1>15, <2>1
<1>23. \A s \in Stage : s \in Elements(order') \cup Elements(queue') <=> inDegree'[s] = 0
  <2> SUFFICES ASSUME NEW s \in Stage
               PROVE  s \in Elements(order') \cup Elements(queue') <=> left[s] = 0
    BY <1>1
  <2>1. s \in Elements(order') \cup Elements(queue') <=> s \in done \cup Elements(queue) \/ s \in freed
    BY <1>6, <1>10, <1>17
  <2>2. inDegree[s] = 0 => left[s] = 0
    BY <1>8, <1>15
  <2> QED
    BY <1>8, <1>13, <2>1, <2>2
<1>24. DegreeInv'
  BY <1>21, <1>22, <1>23 DEF DegreeInv
<1> QED
  BY <1>1, <1>6, <1>20, <1>24 DEF node

\* An acyclic graph is sorted to the end.
LEMMA SortEnds ==
    ASSUME deps \in DependencyLists, LineInv, DegreeInv, Acyclic(DependencySets), queue = <<>>
    PROVE  Elements(order) = Stage /\ ~SortFails
<1> DEFINE rest == Stage \ Elements(order)
<1>1. Elements(queue) = {}
  BY EmptySeq DEF Elements
<1>2. Elements(order) \subseteq Stage
  BY ElementOfSeq DEF Elements, LineInv
<1>3. rest = {}
  <2> SUFFICES ASSUME rest # {} PROVE FALSE
    OBVIOUS
  <2>1. PICK s \in rest : DependencySets[s] \cap rest = {}
    BY DEF Acyclic
  <2>2. DependencySets[s] = {deps[s][i] : i \in 1..Len(deps[s])}
    BY <2>1, ListType
  <2>3. \A i \in 1..Len(deps[s]) : deps[s][i] \in Stage
    BY <2>1, ListType
  <2>4. DependencySets[s] \subseteq Elements(order)
    BY <2>1, <2>2, <2>3
  <2>5. inDegree[s] = 0
    BY <2>1, <2>4, MissingFinite DEF DegreeInv
  <2> QED
    BY <1>1, <2>1, <2>5 DEF DegreeInv
<1>4. Elements(order) = Stage
  BY <1>2, <1>3
<1>5. Len(order) = Cardinality(Stage)
  <2> DEFINE n == Len(order)
  <2>1. order \in [1..n -> Stage] /\ n \in Nat
    <3>1. order \in Seq(Stage)
      BY DEF LineInv
    <3> QED
      BY <3>1, LenProperties, ElementOfSeq
  <2>2. \A i, j \in 1..n : order[i] = order[j] => i = j
    BY DEF LineInv, Distinct
  <2>3. \A s \in Stage : \E i \in 1..n : order[i] = s
    BY <1>4 DEF Elements
  <2> HIDE DEF n
  <2>4. order \in Bijection(1..n, Stage)
    BY <2>1, <2>2, <2>3 DEF Bijection, Injection, Surjection, IsInjective
  <2>5. ExistsBijection(1..n, Stage)
    BY <2>4 DEF ExistsBijection
  <2> QED
    BY <2>1, <2>5, FS_CountingElements DEF n
<1> QED
  BY <1>4, <1>5, StageListAssumption DEF SortFails

-----------------------------------------------------------------------------
(* The phases of Execute, and the loop of executeSequential.               *)

BeforeLoop == {"validate", "sort"}

PhaseInv ==
    /\ phase \in Phase /\ ctx \in {"live", "done"}
    /\ verdict \in {"none", "success", "failed", "canceled", "invalid"}
    /\ verdict = "invalid" => cycle /\ phase = "returned"
    /\ Sorting => SearchDone /\ ~cycle
    /\ phase # "returned" => verdict = "none"
    /\ phase \in BeforeLoop \/ verdict = "invalid" => results = <<>>
    /\ phase \notin BeforeLoop /\ verdict # "invalid" => Elements(order) = Stage

\* A result that ends a fail-fast run.
Stops(status, cond) == IsError(status) \/ ~shouldContinue(cond, status)

\* The results are the first entries of the order, and completed has an entry
\* for exactly these stages.
ResultInv ==
    /\ results \in Seq(Stage)
    /\ current = Len(results) + 1
    /\ Len(results) <= Len(order)
    /\ \A i \in 1..Len(results) : results[i] = order[i]
    /\ completed \in [Stage -> {"pending"} \cup Terminal]
    /\ continueOn \in [Stage -> ContinueCondition \cup {"unread"}]
    /\ \A s \in Stage : completed[s] # "pending" <=> s \in Recorded
    /\ outcome \in {"pending"} \cup Terminal

\* Where the loop is; a fail-fast run stops at the first result that ends it.
LoopInv ==
    /\ phase \in {"begin", "running", "ended"} => current <= Len(order)
    /\ phase = "ended" => outcome \in Terminal
    /\ phase = "finished" => Len(results) = Len(order)
    /\ phase = "stopped" =>
          \/ ctx = "done"
          \/ failFast /\ \E s \in Recorded : Stops(completed[s], continueOn[s])
    /\ failFast => \A i \in 1..Len(results) :
          Stops(completed[results[i]], continueOn[results[i]]) =>
              i = Len(results) /\ phase \in {"stopped", "returned"}

\* What the status of the result says (the first part of VerdictTellsStages).
ReturnInv ==
    phase = "returned" =>
        /\ verdict = "success" => Recorded = Stage /\ \A s \in Stage : ~IsError(completed[s])
        /\ verdict = "canceled" =>
              Recorded = Stage /\ \E s \in Stage : completed[s] = "canceled"
        /\ verdict = "failed" =>
              \/ ctx = "done"
              \/ \E s \in Stage : IsError(completed[s])
              \/ failFast /\ \E s \in Recorded : ~shouldContinue(continueOn[s], completed[s])

IInv ==
    /\ SearchType /\ SearchInv
    /\ SortInv
    /\ PhaseInv
    /\ ResultInv /\ LoopInv
    /\ ReturnInv

-----------------------------------------------------------------------------
(* The initial states.                                                     *)

LEMMA InitInv == Init => IInv
<1> SUFFICES ASSUME Init PROVE IInv
  OBVIOUS
<1>1. SearchType /\ SearchInv
  BY InitSearch
<1>2. /\ order = <<>> /\ queue = <<>> /\ results = <<>> /\ phase = "validate"
      /\ current = 1 /\ outcome = "pending" /\ ctx = "live" /\ verdict = "none"
      /\ completed = [s \in Stage |-> "pending"]
      /\ continueOn = [s \in Stage |-> "unread"]
  BY DEF Init
<1>3. Len(results) = 0 /\ Len(order) = 0 /\ results \in Seq(Stage) /\ Recorded = {}
  BY <1>2, EmptySeq DEF Recorded
<1>4. inDegree \in [Stage -> Nat]
  BY DEF Init
<1>5. SortInv /\ PhaseInv
  BY <1>2, <1>4 DEF SortInv, PhaseInv, Sorting, Phase, BeforeLoop
<1>6. ResultInv /\ LoopInv /\ ReturnInv
  BY <1>2, <1>3 DEF ResultInv, LoopInv, ReturnInv
<1> QED
  BY <1>1, <1>5, <1>6 DEF IInv

-----------------------------------------------------------------------------
(* Every step keeps the invariant.                                         *)

\* The pipeline itself never changes, and only Validate searches.
LEMMA SearchPart ==
    ASSUME IInv, [Next]_vars
    PROVE  SearchType' /\ SearchInv'
<1>1. SearchStep \/ UNCHANGED <<deps, search>>
  BY DEF Next, Execute, vars, pipeline, Cancel, Validate, Reject, StartSort, Sort, FinishSort,
     Loop, BeginStage, Return, EndStage, Conclude
<1> QED
  BY <1>1, SearchKeeps DEF IInv

LEMMA DepsKept ==
    ASSUME [Next]_vars
    PROVE  deps' = deps /\ DependencySets' = DependencySets
<1>1. deps' = deps
  BY DEF Next, Execute, vars, pipeline, Cancel, Validate, Reject, StartSort, Sort, FinishSort,
     Loop, BeginStage, Return, EndStage, Conclude, SearchStep, VisitRoot, VisitNeighbor, Leave
<1> QED
  BY <1>1 DEF DependencySets

\* A valid pipeline is acyclic, and is sorted to the end.
LEMMA SortSucceeds ==
    ASSUME IInv, phase = "sort", queue = <<>>
    PROVE  Elements(order) = Stage /\ ~SortFails
<1>1. Sorting
  BY DEF IInv, PhaseInv, Sorting
<1>2. SearchDone /\ ~cycle
  BY <1>1 DEF IInv, PhaseInv
<1>3. Acyclic(DependencySets)
  BY <1>2, SearchDecides DEF IInv
<1> QED
  BY <1>1, <1>3, SortEnds DEF IInv, SortInv, SearchType

LEMMA SortPart ==
    ASSUME IInv, [Next]_vars
    PROVE  SortInv'
<1>1. SortInv /\ PhaseInv /\ deps \in DependencyLists /\ deps' = deps
  BY DepsKept DEF IInv, SearchType
<1>2. DependencySets' = DependencySets
  BY DepsKept
<1>3. CASE UNCHANGED sort /\ Sorting' = Sorting
  <2>1. inDegree' = inDegree /\ queue' = queue /\ order' = order
    BY <1>3 DEF sort
  <2>2. Elements(order') = Elements(order) /\ Elements(queue') = Elements(queue)
    BY <2>1
  <2>3. \A s \in Stage : Missing(s, Elements(order))' = Missing(s, Elements(order))
    BY <1>1, <2>1 DEF Missing
  <2>4. LineInv' = LineInv
    BY <1>2, <2>1, <2>2 DEF LineInv
  <2>5. DegreeInv' = DegreeInv
    BY <2>1, <2>2, <2>3 DEF DegreeInv
  <2> QED
    BY <1>1, <1>3, <2>1, <2>4, <2>5 DEF SortInv
<1>4. CASE StartSort
  <2>1. SortInit /\ phase' = "sort" /\ verdict' = verdict /\ verdict # "invalid"
    BY <1>1, <1>4 DEF StartSort, run, PhaseInv
  <2>2. LineInv' /\ DegreeInv'
    BY <1>1, <2>1, StartSortStep
  <2> QED
    BY <2>1, <2>2 DEF SortInv, Sorting
<1>5. CASE Sort
  <2>1. Dequeue /\ phase = "sort" /\ phase' = phase /\ verdict' = verdict /\ verdict # "invalid"
    BY <1>1, <1>5 DEF Sort, PhaseInv
  <2>2. LineInv /\ DegreeInv
    BY <1>1, <2>1 DEF SortInv, Sorting
  <2>3. LineInv' /\ DegreeInv'
    BY <1>1, <2>1, <2>2, DequeueStep
  <2> QED
    BY <2>1, <2>3 DEF SortInv, Sorting
<1>6. CASE Reject
  <2>1. UNCHANGED sort /\ phase = "validate" /\ phase' = "returned" /\ verdict' = "invalid"
    BY <1>6 DEF Reject
  <2>2. order' = order /\ queue' = queue /\ inDegree' = inDegree
    BY <2>1 DEF sort
  <2> QED
    BY <1>1, <2>1, <2>2 DEF SortInv, Sorting
<1>7. CASE ~StartSort /\ ~Sort /\ ~Reject
  <2>1. UNCHANGED sort
    BY <1>7 DEF Next, Execute, vars, Cancel, Validate, FinishSort, Loop, BeginStage, Return,
       EndStage, Conclude
  <2>2. Sorting' = Sorting
    <3>1. CASE UNCHANGED <<phase, verdict>>
      BY <3>1 DEF Sorting
    <3>2. CASE ~UNCHANGED <<phase, verdict>>
      <4>1. /\ phase # "validate" /\ phase # "returned" /\ phase' # "validate"
            /\ verdict' # "invalid"
        BY <1>1, <1>7, <3>2 DEF Next, Execute, vars, Cancel, Validate, FinishSort, Loop,
           BeginStage, Return, EndStage, Conclude, PhaseInv, determineOverallStatus, run
      <4> QED
        BY <1>1, <4>1 DEF PhaseInv, Sorting
    <3> QED
      BY <3>1, <3>2
  <2> QED
    BY <1>3, <2>1, <2>2
<1> QED
  BY <1>4, <1>5, <1>6, <1>7

LEMMA PhasePart ==
    ASSUME IInv, [Next]_vars
    PROVE  PhaseInv'
<1>1. PhaseInv
  BY DEF IInv
<1> DEFINE Kept == /\ UNCHANGED <<order, results, verdict>>
                   /\ SearchDone' = SearchDone /\ cycle' = cycle
<1>2. ASSUME UNCHANGED <<roots, stack, cycle>> PROVE SearchDone' = SearchDone
  BY <1>2 DEF SearchDone
<1>3. ASSUME UNCHANGED order PROVE Elements(order)' = Elements(order)
  BY <1>3
<1> USE DEF PhaseInv, Phase, BeforeLoop, Sorting
<1>4. CASE Cancel
  <2>1. UNCHANGED <<roots, stack, cycle, order, results, phase, verdict>> /\ ctx' = "done"
    BY <1>4 DEF Cancel, search, sort, run
  <2> QED
    BY <1>1, <1>2, <1>3, <2>1
<1>5. CASE Validate
  <2>1. UNCHANGED <<order, results, phase, verdict, ctx>> /\ phase = "validate"
    BY <1>5 DEF Validate, sort, run
  <2> QED
    BY <1>1, <2>1
<1>6. CASE Reject
  <2>1. /\ UNCHANGED <<cycle, results, ctx>> /\ cycle /\ phase = "validate"
        /\ phase' = "returned" /\ verdict' = "invalid"
    BY <1>6 DEF Reject, search, run
  <2> QED
    BY <1>1, <2>1
<1>7. CASE StartSort
  <2>1. /\ UNCHANGED <<roots, stack, cycle, results, ctx, verdict>> /\ SearchDone /\ ~cycle
        /\ phase = "validate" /\ phase' = "sort"
    BY <1>7 DEF StartSort, search, run
  <2>2. SearchDone' /\ ~cycle'
    BY <1>2, <2>1
  <2> QED
    BY <1>1, <2>1, <2>2
<1>8. CASE Sort
  <2>1. UNCHANGED <<roots, stack, cycle, results, ctx, phase, verdict>> /\ phase = "sort"
    BY <1>8 DEF Sort, search, run
  <2> QED
    BY <1>1, <1>2, <2>1
<1>9. CASE FinishSort
  <2>1. Elements(order) = Stage /\ ~SortFails
    BY <1>9, SortSucceeds DEF FinishSort
  <2>2. /\ UNCHANGED <<roots, stack, cycle, order, results, ctx, verdict>>
        /\ phase = "sort" /\ phase' = "loop"
    BY <1>9, <2>1 DEF FinishSort, search, sort, run
  <2> QED
    BY <1>1, <1>2, <1>3, <2>1, <2>2
<1>10. CASE Loop \/ BeginStage \/ \E status \in {"success", "failed"} : EndStage(status)
  <2>1. /\ UNCHANGED <<roots, stack, cycle, order, results, ctx, verdict>>
        /\ phase \in {"loop", "begin", "running"}
        /\ phase' \in {"finished", "stopped", "begin", "running", "ended"}
    BY <1>10 DEF Loop, BeginStage, EndStage, search, sort, run
  <2> QED
    BY <1>1, <1>2, <1>3, <2>1
<1>11. ASSUME NEW cond \in ContinueCondition, Conclude(cond) PROVE PhaseInv'
  <2>1. /\ UNCHANGED <<roots, stack, cycle, order, ctx, verdict>>
        /\ phase = "ended" /\ phase' \in {"loop", "stopped"}
    BY <1>11 DEF Conclude, search, sort
  <2> QED
    BY <1>1, <1>2, <1>3, <2>1
<1>12. CASE Return
  <2>1. /\ UNCHANGED <<roots, stack, cycle, order, ctx>>
        /\ phase \in {"finished", "stopped"} /\ phase' = "returned"
        /\ verdict' \in {"success", "failed", "canceled"}
    BY <1>12 DEF Return, search, sort, determineOverallStatus
  <2> QED
    BY <1>1, <1>2, <1>3, <2>1
<1>13. CASE UNCHANGED vars
  <2>1. UNCHANGED <<roots, stack, cycle, order, results, ctx, phase, verdict>>
    BY <1>13 DEF vars, search, sort, run
  <2> QED
    BY <1>1, <1>2, <1>3, <2>1
<1> QED
  BY <1>4, <1>5, <1>6, <1>7, <1>8, <1>9, <1>10, <1>11, <1>12, <1>13 DEF Next, Execute

\* The stage at hand is a new one.
LEMMA AtHand ==
    ASSUME IInv, phase \in {"begin", "running", "ended"}
    PROVE  /\ order[current] \in Stage /\ order[current] \notin Recorded
           /\ completed[order[current]] = "pending"
           /\ current \in 1..Len(order) /\ current = Len(results) + 1 /\ Len(results) \in Nat
           /\ DependencySets[order[current]] \subseteq Recorded
<1>1. Sorting
  BY DEF IInv, PhaseInv, Sorting
<1>2. LineInv
  BY <1>1 DEF IInv, SortInv
<1>3. /\ results \in Seq(Stage) /\ current = Len(results) + 1
      /\ \A i \in 1..Len(results) : results[i] = order[i]
      /\ current <= Len(order) /\ order \in Seq(Stage)
      /\ \A s \in Stage : completed[s] # "pending" <=> s \in Recorded
  BY <1>2 DEF IInv, ResultInv, LoopInv, LineInv
<1>4. Len(results) \in Nat /\ Len(order) \in Nat
  BY <1>3, LenProperties
<1>5. /\ current \in 1..Len(order)
      /\ \A i \in 1..Len(results) : i \in 1..Len(order) /\ i # current
      /\ 1..(current - 1) = 1..Len(results)
  BY <1>3, <1>4
<1>6. order[current] \in Stage
  BY <1>3, <1>5, ElementOfSeq
<1>7. order[current] \notin Recorded
  <2>1. \A i \in 1..Len(results) : results[i] # order[current]
    BY <1>2, <1>3, <1>5 DEF LineInv, Distinct
  <2> QED
    BY <2>1 DEF Recorded
<1>8. DependencySets[order[current]] \subseteq Recorded
  <2> SUFFICES ASSUME NEW d \in DependencySets[order[current]] PROVE d \in Recorded
    OBVIOUS
  <2>1. PICK j \in 1..(current - 1) : order[j] = d
    BY <1>2, <1>5 DEF LineInv
  <2> QED
    BY <1>3, <1>5, <2>1 DEF Recorded
<1> QED
  BY <1>3, <1>4, <1>5, <1>6, <1>7, <1>8

\* What recording a result changes.
LEMMA Concluded ==
    ASSUME IInv, NEW cond \in ContinueCondition, Conclude(cond), NEW s, s = order[current]
    PROVE  /\ s \in Stage /\ s \notin Recorded /\ phase = "ended" /\ outcome \in Terminal
           /\ results' \in Seq(Stage) /\ Len(results) \in Nat /\ Len(results') = Len(results) + 1
           /\ \A i \in 1..Len(results) : results'[i] = results[i]
           /\ results'[Len(results) + 1] = s
           /\ Recorded' = Recorded \cup {s}
           /\ completed' = [completed EXCEPT ![s] = outcome]
           /\ completed'[s] = outcome
           /\ continueOn' \in [Stage -> ContinueCondition \cup {"unread"}]
           /\ \A t \in Stage \ {s} : completed'[t] = completed[t] /\ continueOn'[t] = continueOn[t]
           /\ Stops(completed'[s], continueOn'[s]) <=>
                 IsError(outcome) \/ ~shouldContinue(cond, outcome)
<1>1. /\ s \in Stage /\ s \notin Recorded /\ phase = "ended" /\ outcome \in Terminal
      /\ results \in Seq(Stage)
      /\ completed \in [Stage -> {"pending"} \cup Terminal]
      /\ continueOn \in [Stage -> ContinueCondition \cup {"unread"}]
  BY AtHand DEF Conclude, IInv, LoopInv, ResultInv
<1>2. /\ results' = Append(results, s)
      /\ completed' = [completed EXCEPT ![s] = outcome]
      /\ continueOn' = [continueOn EXCEPT ![s] = IF IsError(outcome) THEN @ ELSE cond]
  BY DEF Conclude
<1>3. /\ results' \in Seq(Stage) /\ Len(results) \in Nat /\ Len(results') = Len(results) + 1
      /\ \A i \in 1..Len(results) : results'[i] = results[i]
      /\ results'[Len(results) + 1] = s
      /\ Elements(results') = Elements(results) \cup {s}
  BY <1>1, <1>2, AppendElements
<1>4. Recorded' = Recorded \cup {s}
  BY <1>3 DEF Recorded, Elements
<1>5. completed'[s] = outcome /\ \A t \in Stage \ {s} : completed'[t] = completed[t]
  BY <1>1, <1>2
<1>6. /\ continueOn' \in [Stage -> ContinueCondition \cup {"unread"}]
      /\ \A t \in Stage \ {s} : continueOn'[t] = continueOn[t]
      /\ ~IsError(outcome) => continueOn'[s] = cond
  BY <1>1, <1>2
<1>7. Stops(completed'[s], continueOn'[s]) <=> IsError(outcome) \/ ~shouldContinue(cond, outcome)
  BY <1>5, <1>6 DEF Stops
<1> QED
  BY <1>1, <1>2, <1>3, <1>4, <1>5, <1>6, <1>7

LEMMA ResultPart ==
    ASSUME IInv, [Next]_vars
    PROVE  ResultInv'
<1>1. ResultInv /\ PhaseInv
  BY DEF IInv
<1>2. ASSUME UNCHANGED <<order, current, results, completed, continueOn>>,
             outcome' \in {"pending"} \cup Terminal
      PROVE  ResultInv'
  <2>1. Recorded' = Recorded
    BY <1>2 DEF Recorded
  <2> QED
    BY <1>1, <1>2, <2>1 DEF ResultInv
<1>3. CASE Cancel \/ Validate \/ Reject \/ FinishSort \/ Loop \/ Return \/ UNCHANGED vars
  <2>1. UNCHANGED <<order, current, results, completed, continueOn, outcome>>
    BY <1>3 DEF Cancel, Validate, Reject, FinishSort, Loop, Return, vars, run, sort
  <2> QED
    BY <1>1, <1>2, <2>1 DEF ResultInv
<1>4. CASE BeginStage
  <2>1. UNCHANGED <<order, current, results, completed, continueOn>>
    BY <1>4 DEF BeginStage, sort
  <2>2. outcome' \in {outcome, "skipped", "canceled"}
    BY <1>4 DEF BeginStage
  <2> QED
    BY <1>1, <1>2, <2>1, <2>2 DEF ResultInv, Terminal
<1>5. ASSUME NEW status \in {"success", "failed"}, EndStage(status) PROVE ResultInv'
  <2>1. UNCHANGED <<order, current, results, completed, continueOn>> /\ outcome' = status
    BY <1>5 DEF EndStage, sort
  <2> QED
    BY <1>2, <2>1 DEF Terminal
<1>6. CASE StartSort \/ Sort
  <2>1. UNCHANGED <<current, results, completed, continueOn, outcome>> /\ phase \in BeforeLoop
    BY <1>6 DEF StartSort, Sort, run, BeforeLoop
  <2>2. Len(results) = 0 /\ Len(results') = 0
    BY <1>1, <2>1, EmptySeq DEF PhaseInv
  <2>3. order' \in Seq(Stage)
    <3>1. CASE StartSort
      BY <3>1, EmptySeq DEF StartSort, SortInit
    <3>2. CASE Sort
      <4>1. LineInv /\ DegreeInv /\ Dequeue /\ deps \in DependencyLists /\ deps' = deps
        BY <3>2, <1>1, DepsKept DEF Sort, IInv, SortInv, PhaseInv, Sorting, SearchType
      <4> QED
        BY <4>1, DequeueStep DEF LineInv
    <3> QED
      BY <1>6, <3>1, <3>2
  <2>4. 0 <= Len(order')
    BY <2>3, LenProperties
  <2>5. Recorded' = Recorded
    BY <2>1 DEF Recorded
  <2> QED
    BY <1>1, <2>1, <2>2, <2>4, <2>5 DEF ResultInv
<1>7. ASSUME NEW cond \in ContinueCondition, Conclude(cond) PROVE ResultInv'
  <2> DEFINE s == order[current]
             n == Len(results)
  <2>1. /\ s \in Stage /\ s \notin Recorded /\ phase = "ended" /\ outcome \in Terminal
        /\ results' \in Seq(Stage) /\ n \in Nat /\ Len(results') = n + 1
        /\ \A i \in 1..n : results'[i] = results[i]
        /\ results'[n + 1] = s
        /\ Recorded' = Recorded \cup {s}
        /\ completed' = [completed EXCEPT ![s] = outcome]
        /\ completed'[s] = outcome
        /\ continueOn' \in [Stage -> ContinueCondition \cup {"unread"}]
        /\ \A t \in Stage \ {s} : completed'[t] = completed[t]
    BY <1>7, Concluded
  <2>2. order' = order /\ current' = current + 1 /\ outcome' = "pending"
    BY <1>7 DEF Conclude, sort
  <2>3. current = n + 1 /\ current \in 1..Len(order)
    BY <1>7, AtHand DEF Conclude
  <2> HIDE DEF n, s
  <2>4. \A i \in 1..(n + 1) : results'[i] = order'[i]
    <3>1. \A i \in 1..(n + 1) : i \in 1..n \/ i = n + 1
      BY <2>1
    <3>2. \A i \in 1..n : results[i] = order[i]
      BY <1>1 DEF ResultInv, n
    <3>3. order[n + 1] = s
      BY <2>3 DEF s
    <3> QED
      BY <2>1, <2>2, <3>1, <3>2, <3>3
  <2>5. completed' \in [Stage -> {"pending"} \cup Terminal]
    BY <1>1, <2>1 DEF ResultInv
  <2>6. \A t \in Stage : completed'[t] # "pending" <=> t \in Recorded'
    <3>1. outcome # "pending"
      BY <2>1 DEF Terminal
    <3> QED
      BY <1>1, <2>1, <3>1 DEF ResultInv
  <2>7. current' = Len(results') + 1 /\ Len(results') <= Len(order')
    BY <2>1, <2>2, <2>3
  <2> QED
    BY <2>1, <2>2, <2>4, <2>5, <2>6, <2>7 DEF ResultInv
<1> QED
  BY <1>3, <1>4, <1>5, <1>6, <1>7 DEF Next, Execute

LEMMA LoopPart ==
    ASSUME IInv, [Next]_vars
    PROVE  LoopInv'
<1>1. LoopInv /\ PhaseInv /\ ResultInv
  BY DEF IInv
<1> DEFINE Kept == UNCHANGED <<failFast, order, current, results, completed, continueOn>>
           NoStop == failFast => \A i \in 1..Len(results) :
                        Stops(completed[results[i]], continueOn[results[i]]) =>
                            i = Len(results) /\ phase \in {"stopped", "returned"}
           Reason == \/ ctx = "done"
                     \/ failFast /\ \E s \in Recorded : Stops(completed[s], continueOn[s])
<1>2. ASSUME Kept, phase' = phase \/ phase \notin {"stopped", "returned"} \/ phase' = "returned"
      PROVE  NoStop'
  BY <1>1, <1>2 DEF LoopInv
<1>3. ASSUME Kept, ctx' = ctx \/ ctx' = "done" PROVE Reason => Reason'
  <2>1. Recorded' = Recorded
    BY <1>3 DEF Recorded
  <2> QED
    BY <1>3, <2>1
<1>4. CASE Cancel \/ Validate \/ Reject \/ UNCHANGED vars
  <2>1. Kept
    BY <1>4 DEF Cancel, Validate, Reject, vars, pipeline, sort, run
  <2>2. outcome' = outcome /\ (ctx' = ctx \/ ctx' = "done")
    BY <1>4 DEF Cancel, Validate, Reject, vars, run
  <2>3. phase' = phase \/ phase' = "returned"
    BY <1>4 DEF Cancel, Validate, Reject, vars
  <2>4. NoStop'
    BY <1>2, <2>1, <2>3
  <2>5. Reason => Reason'
    BY <1>3, <2>1, <2>2
  <2> QED
    BY <1>1, <2>1, <2>2, <2>3, <2>4, <2>5 DEF LoopInv
<1>5. CASE StartSort \/ Sort
  <2>1. phase' = "sort" /\ phase \in BeforeLoop /\ UNCHANGED results
    BY <1>5 DEF StartSort, Sort, BeforeLoop, run
  <2>2. Len(results') = 0
    BY <1>1, <2>1, EmptySeq DEF PhaseInv
  <2> QED
    BY <2>1, <2>2 DEF LoopInv
<1>6. CASE FinishSort
  <2>1. Kept /\ phase = "sort" /\ phase' \in {"loop", "returned"}
    BY <1>6 DEF FinishSort, pipeline, sort, run
  <2>2. NoStop'
    BY <1>2, <2>1
  <2> QED
    BY <2>1, <2>2 DEF LoopInv
<1>7. CASE Loop
  <2>1. /\ Kept /\ phase = "loop" /\ ctx' = ctx /\ outcome' = outcome
        /\ phase' = IF current > Len(order) THEN "finished"
                    ELSE IF ctx = "done" THEN "stopped"
                    ELSE "begin"
    BY <1>7 DEF Loop, pipeline, sort, run
  <2>2. NoStop'
    BY <1>2, <2>1
  <2>3. Len(results) \in Nat /\ Len(order) \in Nat
    <3>1. results \in Seq(Stage) /\ order \in Seq(Stage)
      BY <1>1, <2>1 DEF IInv, ResultInv, SortInv, Sorting, LineInv, PhaseInv
    <3> QED
      BY <3>1, LenProperties
  <2>4. CASE current > Len(order)
    <3>1. Len(results) = Len(order)
      BY <1>1, <2>3, <2>4 DEF ResultInv
    <3> QED
      BY <2>1, <2>2, <2>4, <3>1 DEF LoopInv
  <2>5. CASE ~(current > Len(order))
    <3>1. current <= Len(order)
      BY <1>1, <2>3, <2>5 DEF ResultInv
    <3> QED
      BY <2>1, <2>2, <2>5, <3>1 DEF LoopInv
  <2> QED
    BY <2>4, <2>5
<1>8. CASE BeginStage \/ \E status \in {"success", "failed"} : EndStage(status)
  <2>1. /\ Kept /\ ctx' = ctx /\ phase \in {"begin", "running"} /\ phase' \in {"running", "ended"}
        /\ phase' = "ended" => outcome' \in {"success", "failed", "skipped", "canceled"}
    BY <1>8 DEF BeginStage, EndStage, pipeline, sort
  <2>2. NoStop'
    BY <1>2, <2>1
  <2> QED
    BY <1>1, <2>1, <2>2 DEF LoopInv, Terminal
<1>9. ASSUME NEW cond \in ContinueCondition, Conclude(cond) PROVE LoopInv'
  <2> DEFINE s == order[current]
             n == Len(results)
             stop == failFast /\ (IsError(outcome) \/ ~shouldContinue(cond, outcome))
  <2>1. /\ s \in Stage /\ s \notin Recorded /\ n \in Nat /\ Len(results') = n + 1
        /\ \A i \in 1..n : results'[i] = results[i]
        /\ results'[n + 1] = s
        /\ Recorded' = Recorded \cup {s}
        /\ \A t \in Stage \ {s} : completed'[t] = completed[t] /\ continueOn'[t] = continueOn[t]
        /\ Stops(completed'[s], continueOn'[s]) <=>
              IsError(outcome) \/ ~shouldContinue(cond, outcome)
    BY <1>9, Concluded
  <2>2. /\ failFast' = failFast /\ phase = "ended"
        /\ phase' = IF stop THEN "stopped" ELSE "loop"
    BY <1>9 DEF Conclude, pipeline
  <2>3. phase' = "stopped" => failFast /\ Stops(completed'[s], continueOn'[s])
    BY <2>1, <2>2
  <2>4. failFast /\ Stops(completed'[s], continueOn'[s]) => phase' = "stopped"
    BY <2>1, <2>2
  <2> HIDE DEF s, n, stop
  <2>5. NoStop'
    <3> SUFFICES ASSUME failFast, NEW i \in 1..(n + 1),
                        Stops(completed'[results'[i]], continueOn'[results'[i]])
                 PROVE  i = n + 1 /\ phase' \in {"stopped", "returned"}
      BY <2>1, <2>2
    <3>1. CASE i = n + 1
      BY <2>1, <2>4, <3>1
    <3>2. CASE i # n + 1
      <4>1. i \in 1..n
        BY <2>1, <3>2
      <4>2. results[i] \in Stage \ {s} /\ results'[i] = results[i]
        BY <1>1, <2>1, <4>1, ElementOfSeq DEF ResultInv, Recorded, n
      <4>3. Stops(completed[results[i]], continueOn[results[i]])
        BY <2>1, <4>2
      <4> QED
        BY <1>1, <2>2, <4>1, <4>3 DEF LoopInv, n
    <3> QED
      BY <3>1, <3>2
  <2>6. phase' = "stopped" => Reason'
    BY <2>1, <2>2, <2>3
  <2>7. phase' \in {"stopped", "loop"}
    BY <2>2
  <2> QED
    BY <2>5, <2>6, <2>7 DEF LoopInv
<1>10. CASE Return
  <2>1. Kept /\ phase' = "returned"
    BY <1>10 DEF Return, pipeline, sort, run
  <2>2. NoStop'
    BY <1>2, <2>1
  <2> QED
    BY <2>1, <2>2 DEF LoopInv
<1> QED
  BY <1>4, <1>5, <1>6, <1>7, <1>8, <1>9, <1>10 DEF Next, Execute

\* Every recorded stage has ended.
LEMMA RecordedEnded ==
    ASSUME ResultInv
    PROVE  /\ Recorded \subseteq Stage
           /\ \A s \in Recorded : completed[s] \in Terminal
<1>1. Recorded \subseteq Stage
  BY ElementOfSeq DEF ResultInv, Recorded
<1> QED
  BY <1>1 DEF ResultInv

\* The status of a finished run is that of its stages.
LEMMA ReturnPart ==
    ASSUME IInv, [Next]_vars
    PROVE  ReturnInv'
<1>1. PhaseInv /\ ResultInv /\ LoopInv /\ ReturnInv
  BY DEF IInv
<1>2. CASE Return
  <2>1. /\ phase \in {"finished", "stopped"}
        /\ verdict' = IF phase = "stopped" THEN "failed"
                      ELSE determineOverallStatus({completed[s] : s \in Recorded})
        /\ UNCHANGED <<failFast, ctx, completed, continueOn, results>>
    BY <1>2 DEF Return, pipeline, run
  <2>2. Recorded' = Recorded
    BY <2>1 DEF Recorded
  <2>3. CASE phase = "stopped"
    <3>1. ctx = "done" \/ (failFast /\ \E s \in Recorded : Stops(completed[s], continueOn[s]))
      BY <1>1, <2>3 DEF LoopInv
    <3>2. verdict' = "failed"
      BY <2>1, <2>3
    <3> QED
      BY <1>1, <2>1, <2>2, <3>1, <3>2, RecordedEnded DEF ReturnInv, Stops
  <2>4. CASE phase = "finished"
    <3>1. Recorded = Stage
      <4>1. Len(results) = Len(order) /\ \A i \in 1..Len(results) : results[i] = order[i]
        BY <1>1, <2>4 DEF LoopInv, ResultInv
      <4>2. Recorded = Elements(order)
        BY <4>1 DEF Recorded, Elements
      <4> QED
        BY <1>1, <2>4, <4>2 DEF PhaseInv, BeforeLoop
    <3>2. verdict' = determineOverallStatus({completed[s] : s \in Stage})
      BY <2>1, <2>4, <3>1
    <3>3. /\ verdict' = "canceled" => \E s \in Stage : completed[s] = "canceled"
          /\ verdict' = "failed" => \E s \in Stage : completed[s] = "failed"
          /\ verdict' = "success" =>
                \A s \in Stage : completed[s] # "failed" /\ completed[s] # "canceled"
      BY <3>2 DEF determineOverallStatus
    <3> QED
      BY <2>1, <2>2, <3>1, <3>3 DEF ReturnInv, IsError
  <2> QED
    BY <2>1, <2>3, <2>4
<1>3. CASE phase = "returned" /\ ~Return
  <2>1. UNCHANGED <<failFast, completed, continueOn, results, verdict>> /\ (ctx' = ctx \/ ctx' = "done")
    BY <1>3 DEF Next, Execute, vars, pipeline, run, Cancel, Validate, Reject, StartSort, Sort,
       FinishSort, Loop, BeginStage, EndStage, Conclude
  <2>2. Recorded' = Recorded
    BY <2>1 DEF Recorded
  <2> QED
    BY <1>1, <1>3, <2>1, <2>2 DEF ReturnInv
<1>4. CASE phase # "returned" /\ ~Return /\ ~Reject
  <2>1. CASE FinishSort
    <3>1. phase' = "loop"
      BY <2>1, SortSucceeds DEF FinishSort
    <3> QED
      BY <3>1 DEF ReturnInv
  <2>2. CASE ~FinishSort
    <3>1. phase' # "returned"
      BY <1>4, <2>2 DEF Next, Execute, vars, Cancel, Validate, StartSort, Sort,
         Loop, BeginStage, EndStage, Conclude
    <3> QED
      BY <3>1 DEF ReturnInv
  <2> QED
    BY <2>1, <2>2
<1>5. CASE Reject
  BY <1>5 DEF Reject, ReturnInv
<1> QED
  BY <1>2, <1>3, <1>4, <1>5

LEMMA NextInv == IInv /\ [Next]_vars => IInv'
  BY SearchPart, SortPart, PhasePart, ResultPart, LoopPart, ReturnPart DEF IInv

\* The inductive invariant holds of every execution.
THEOREM Invariant == Spec => []IInv
  BY InitInv, NextInv, PTL DEF Spec

-----------------------------------------------------------------------------
(* The theorems.                                                           *)

\* An order without repetitions is no longer than the set of stages.
LEMMA DistinctLength ==
    ASSUME NEW q \in Seq(Stage), Distinct(q)
    PROVE  Len(q) \in Nat /\ Cardinality(Stage) \in Nat /\ Len(q) <= Cardinality(Stage)
<1> DEFINE n == Len(q)
<1>1. n \in Nat /\ q \in [1..n -> Stage]
  BY LenProperties, ElementOfSeq
<1>2. \A i, j \in 1..n : q[i] = q[j] => i = j
  BY DEF Distinct
<1> HIDE DEF n
<1>3. q \in Injection(1..n, Stage)
  BY <1>1, <1>2 DEF Injection, IsInjective
<1>4. Cardinality(1..n) = n
  BY <1>1, FS_Interval
<1>5. Cardinality(1..n) <= Cardinality(Stage) /\ Cardinality(Stage) \in Nat
  BY <1>3, StageAssumption, FS_Injection, FS_CardinalityType
<1> QED
  BY <1>1, <1>4, <1>5 DEF n

\* The flags of the pipeline and of the options never change.
LEMMA FlagsKept == Spec => [](failFast \in BOOLEAN /\ dryRun \in BOOLEAN)
<1> DEFINE Flags == failFast \in BOOLEAN /\ dryRun \in BOOLEAN
<1>1. Init => Flags
  BY DEF Init
<1>2. Flags /\ [Next]_vars => Flags'
  <2> SUFFICES ASSUME Flags, [Next]_vars PROVE Flags'
    OBVIOUS
  <2>1. UNCHANGED <<failFast, dryRun>>
    BY DEF Next, Execute, vars, pipeline, Cancel, Validate, Reject, StartSort, Sort,
       FinishSort, Loop, BeginStage, Return, EndStage, Conclude
  <2>2. failFast' = failFast /\ dryRun' = dryRun
    BY <2>1, Zenon
  <2> QED
    BY <2>2, Zenon
<1> QED
  BY <1>1, <1>2, PTL DEF Spec

\* Every variable keeps its type.
THEOREM TypeCorrect == Spec => []TypeOK
<1>1. ASSUME IInv, failFast \in BOOLEAN, dryRun \in BOOLEAN PROVE TypeOK
  <2>1. SearchType /\ SortInv /\ PhaseInv /\ ResultInv
    BY <1>1 DEF IInv
  <2>2. /\ inDegree \in [Stage -> Nat] /\ queue \in Seq(Stage) /\ order \in Seq(Stage)
        /\ Distinct(order)
    <3>1. CASE Sorting
      BY <2>1, <3>1 DEF SortInv, LineInv, DegreeInv
    <3>2. CASE ~Sorting
      <4>1. order = <<>> /\ queue = <<>> /\ inDegree \in [Stage -> Nat]
        BY <2>1, <3>2 DEF SortInv
      <4>2. <<>> \in Seq(Stage) /\ Len(<<>>) = 0
        BY EmptySeq
      <4> QED
        BY <4>1, <4>2 DEF Distinct
    <3> QED
      BY <3>1, <3>2
  <2>3. current \in 1..(Cardinality(Stage) + 1)
    <3>1. current = Len(results) + 1 /\ Len(results) <= Len(order) /\ Len(results) \in Nat
      BY <2>1, LenProperties DEF ResultInv
    <3>2. Len(order) \in Nat /\ Cardinality(Stage) \in Nat /\ Len(order) <= Cardinality(Stage)
      BY <2>2, DistinctLength
    <3> QED
      BY <3>1, <3>2
  <2>4. /\ outcome \in StageStatus
        /\ continueOn \in [Stage -> ContinueCondition \cup {"unread"}]
        /\ completed \in [Stage -> StageStatus]
        /\ results \in Seq(Stage)
    BY <2>1 DEF ResultInv, StageStatus
  <2>5. /\ deps \in DependencyLists
        /\ roots \subseteq Stage /\ visited \subseteq Stage /\ recStack \subseteq visited
        /\ stack \in Seq([node : Stage, next : Nat \ {0}]) /\ cycle \in BOOLEAN
    BY <2>1 DEF SearchType, Frame
  <2>6. /\ phase \in Phase /\ ctx \in {"live", "done"}
        /\ verdict \in {"none", "success", "failed", "canceled", "invalid"}
    BY <2>1 DEF PhaseInv
  <2> QED
    BY <1>1, <2>2, <2>3, <2>4, <2>5, <2>6, Zenon DEF TypeOK
<1> QED
  BY <1>1, Invariant, FlagsKept, PTL

\* hasCycle refuses a pipeline exactly when its dependencies are circular.
THEOREM CyclesRefused == Spec => []ValidationDecidesCycles
<1>1. IInv => ValidationDecidesCycles
  <2> SUFFICES ASSUME IInv PROVE ValidationDecidesCycles
    OBVIOUS
  <2>1. verdict = "invalid" => ~Acyclic(DependencySets)
    BY DEF IInv, PhaseInv, SearchInv
  <2>2. ASSUME phase \notin {"validate", "returned"} PROVE Acyclic(DependencySets)
    <3>1. SearchDone /\ ~cycle
      BY <2>2 DEF IInv, PhaseInv, Sorting
    <3> QED
      BY <3>1, SearchDecides DEF IInv
  <2> QED
    BY <2>1, <2>2 DEF ValidationDecidesCycles
<1> QED
  BY <1>1, Invariant, PTL

\* topologicalSort lists no stage twice and none before its dependencies.
THEOREM OrderCorrect == Spec => []OrderFollowsDependencies
<1>1. IInv => OrderFollowsDependencies
  <2> SUFFICES ASSUME IInv PROVE OrderFollowsDependencies
    OBVIOUS
  <2> DEFINE line == order \o queue
             m == Len(order)
  <2>1. CASE ~Sorting
    <3>1. order = <<>> /\ queue = <<>> /\ <<>> \in Seq(Stage) /\ Len(<<>>) = 0
      BY <2>1, EmptySeq DEF IInv, SortInv
    <3>2. line = <<>>
      BY <3>1, ConcatEmptySeq
    <3> HIDE DEF line
    <3>3. 1..Len(line) = {}
      BY <3>1, <3>2
    <3> QED
      BY <3>3 DEF OrderFollowsDependencies, line
  <2>2. CASE Sorting
    <3>1. LineInv /\ DegreeInv /\ deps \in DependencyLists
      BY <2>2 DEF IInv, SortInv, SearchType
    <3>2. /\ order \in Seq(Stage) /\ queue \in Seq(Stage) /\ Distinct(line)
          /\ line \in Seq(Stage) /\ Elements(line) = Elements(order) \cup Elements(queue)
      BY <3>1, ConcatElements DEF LineInv
    <3>3. /\ m \in Nat /\ Len(queue) \in Nat /\ Len(line) = m + Len(queue)
          /\ \A i \in 1..(m + Len(queue)) : line[i] = IF i <= m THEN order[i] ELSE queue[i - m]
      BY <3>2, LenProperties, ConcatProperties
    <3> HIDE DEF line, m
    <3>4. ASSUME NEW i \in 1..Len(line), NEW d \in DependencySets[line[i]]
          PROVE  \E j \in 1..Len(order) : j < i /\ order[j] = d
      <4>1. CASE i <= m
        <5>1. line[i] = order[i] /\ i \in 1..m
          BY <3>3, <4>1
        <5>2. PICK j \in 1..(i - 1) : order[j] = d
          BY <3>1, <5>1 DEF LineInv, m
        <5>3. j \in 1..m /\ j < i
          BY <3>3, <5>1
        <5> QED
          BY <5>2, <5>3 DEF m
      <4>2. CASE ~(i <= m)
        <5>1. line[i] = queue[i - m] /\ i - m \in 1..Len(queue)
          BY <3>3, <4>2
        <5>2. line[i] \in Elements(queue) /\ line[i] \in Stage
          BY <3>2, <5>1, ElementOfSeq DEF Elements
        <5>3. inDegree[line[i]] = 0
          BY <3>1, <5>2 DEF DegreeInv
        <5>4. DependencySets[line[i]] \subseteq Elements(order)
          BY <3>1, <5>2, <5>3, MissingFinite DEF DegreeInv
        <5>5. PICK j \in 1..m : order[j] = d
          BY <5>4 DEF Elements, m
        <5>6. j < i
          BY <3>3, <4>2
        <5> QED
          BY <5>5, <5>6 DEF m
      <4> QED
        BY <4>1, <4>2
    <3> QED
      BY <3>2, <3>4 DEF OrderFollowsDependencies, Distinct, line
  <2> QED
    BY <2>1, <2>2
<1> QED
  BY <1>1, Invariant, PTL

\* The status Execute returns is true of the stages, and fail-fast records
\* nothing after a result that ends the run.
THEOREM VerdictCorrect == Spec => []VerdictTellsStages
<1>1. IInv => VerdictTellsStages
  <2> SUFFICES ASSUME IInv PROVE VerdictTellsStages
    OBVIOUS
  <2>1. ResultInv /\ LoopInv /\ ReturnInv
    BY DEF IInv
  <2>2. Len(results) \in Nat
    BY <2>1, LenProperties DEF ResultInv
  <2>3. failFast => \A i \in 1..(Len(results) - 1) :
            ~IsError(completed[results[i]])
              /\ ~(~shouldContinue(continueOn[results[i]], completed[results[i]]))
    <3> SUFFICES ASSUME failFast, NEW i \in 1..(Len(results) - 1)
                 PROVE  ~Stops(completed[results[i]], continueOn[results[i]])
      BY DEF Stops
    <3>1. i \in 1..Len(results) /\ i # Len(results)
      BY <2>2
    <3> QED
      BY <2>1, <3>1 DEF LoopInv
  <2>4. phase = "returned" =>
          /\ verdict = "success" => Recorded = Stage /\ ~\E s \in Stage : IsError(completed[s])
          /\ verdict = "canceled" =>
                Recorded = Stage /\ \E s \in Stage : completed[s] = "canceled"
          /\ verdict = "failed" =>
                \/ ctx = "done" \/ \E s \in Stage : IsError(completed[s])
                \/ failFast /\ \E s \in Recorded : ~shouldContinue(continueOn[s], completed[s])
    BY <2>1 DEF ReturnInv
  <2> QED
    BY <2>3, <2>4 DEF VerdictTellsStages
<1> QED
  BY <1>1, Invariant, PTL

-----------------------------------------------------------------------------
(* The sequential executor implements StageLifecycle with one worker.      *)

LEMMA SameCardinality == \A S : Lifecycle!Cardinality(S) = Cardinality(S)
  BY DEF Lifecycle!Cardinality, Cardinality

LEMMA InitRefines == Init => Lifecycle!Init
<1> SUFFICES ASSUME Init PROVE Lifecycle!Init
  OBVIOUS
<1>1. deps \in DependencyLists /\ verdict = "none"
  BY DEF Init
<1>2. DependencySets \in [Stage -> SUBSET Stage]
  <2>1. \A s \in Stage : {deps[s][i] : i \in 1..Len(deps[s])} \in SUBSET Stage
    BY <1>1, ListType
  <2> QED
    BY <2>1 DEF DependencySets
<1>3. Status = [s \in Stage |-> "pending"]
  BY DEF Init, Status
<1> QED
  BY <1>1, <1>2, <1>3 DEF Lifecycle!Init

\* A step that records nothing, starts nothing and returns nothing is invisible.
LEMMA StatusKept ==
    ASSUME UNCHANGED completed,
           \/ phase \notin {"running", "ended"} /\ phase' \notin {"running", "ended"}
           \/ phase \in {"running", "ended"} /\ phase' \in {"running", "ended"}
              /\ UNCHANGED <<order, current>>
    PROVE  Status' = Status
  BY DEF Status

\* A stage is taken up when everything before it in the order is recorded.
LEMMA BeginRefines ==
    ASSUME IInv, BeginStage, NEW s, s = order[current]
    PROVE  s \in Stage /\ Lifecycle!Start(s)
<1>1. /\ phase = "begin" /\ phase' \in {"running", "ended"}
      /\ UNCHANGED <<order, current, completed, verdict>>
  BY DEF BeginStage, sort
<1>2. /\ s \in Stage /\ completed[s] = "pending" /\ DependencySets[s] \subseteq Recorded
  BY <1>1, AtHand
<1>3. ResultInv /\ DependencySets' = DependencySets
  BY DepsKept DEF IInv, Next, Execute
<1>4. \A t \in Stage : Status[t] = completed[t]
  BY <1>1 DEF Status
<1>5. Status' = [Status EXCEPT ![s] = "running"]
  BY <1>1, <1>2 DEF Status
<1>6. DependencySets[s] \subseteq Lifecycle!Finished
  BY <1>2, <1>3, <1>4, RecordedEnded DEF Lifecycle!Finished, Lifecycle!Terminal, Terminal
<1>7. Lifecycle!Running = {}
  <2>1. \A t \in Stage : Status[t] # "running"
    BY <1>3, <1>4 DEF ResultInv, Terminal
  <2> QED
    BY <2>1 DEF Lifecycle!Running
<1>8. Lifecycle!Cardinality(Lifecycle!Running) = 0
  BY <1>7, SameCardinality, FS_EmptySet
<1>9. Lifecycle!Cardinality(Lifecycle!Running) < 1
  BY <1>8
<1> QED
  BY <1>1, <1>2, <1>3, <1>4, <1>5, <1>6, <1>9 DEF Lifecycle!Start

\* The status of a stage is recorded.
LEMMA ConcludeRefines ==
    ASSUME IInv, NEW cond \in ContinueCondition, Conclude(cond), NEW s, s = order[current]
    PROVE  s \in Stage /\ Lifecycle!Finish(s)
<1>1. /\ s \in Stage /\ phase = "ended" /\ outcome \in Terminal
      /\ completed' = [completed EXCEPT ![s] = outcome]
  BY Concluded
<1>2. phase' \notin {"running", "ended"} /\ verdict' = verdict
  BY DEF Conclude
<1>3. ResultInv /\ DependencySets' = DependencySets
  BY DepsKept DEF IInv, Next, Execute
<1>4. Status[s] = "running"
  BY <1>1 DEF Status
<1>5. Status' = [Status EXCEPT ![s] = outcome]
  <2>1. Status' = completed'
    <3>1. completed' \in [Stage -> {"pending"} \cup Terminal]
      BY <1>1, <1>3 DEF ResultInv
    <3> QED
      BY <1>2, <3>1 DEF Status
  <2>2. \A t \in Stage \ {s} : Status[t] = completed[t]
    BY DEF Status
  <2>3. completed' = [t \in Stage |-> IF t = s THEN outcome ELSE completed[t]]
    BY <1>1, <1>3 DEF ResultInv
  <2>4. Status = [t \in Stage |-> Status[t]]
    BY DEF Status
  <2>5. [Status EXCEPT ![s] = outcome] = [t \in Stage |-> IF t = s THEN outcome ELSE Status[t]]
    BY <1>1, <2>4
  <2> QED
    BY <2>1, <2>2, <2>3, <2>5
<1> QED
  BY <1>1, <1>2, <1>3, <1>4, <1>5 DEF Lifecycle!Finish, Lifecycle!Terminal, Terminal

\* Success is reported only when every stage is recorded and ended well.
LEMMA ReturnRefines ==
    ASSUME IInv, Return
    PROVE  \E v \in {"success", "failed", "canceled"} : Lifecycle!Return(v)
<1>1. ResultInv /\ PhaseInv /\ ReturnInv'
  BY NextInv DEF IInv, Next, Execute
<1>2. /\ phase \in {"finished", "stopped"} /\ phase' = "returned"
      /\ UNCHANGED <<order, current, completed, results>>
      /\ verdict' \in {"success", "failed", "canceled"}
  BY DEF Return, run, sort, determineOverallStatus
<1>3. verdict = "none" /\ DependencySets' = DependencySets
  BY <1>1, <1>2, DepsKept DEF PhaseInv, Next, Execute
<1>4. Recorded' = Recorded
  BY <1>2 DEF Recorded
<1>5. Status' = Status /\ \A s \in Stage : Status[s] = completed[s]
  BY <1>2, StatusKept DEF Status
<1>6. verdict' = "success" => \A s \in Stage : Status[s] \in {"success", "skipped"}
  <2> SUFFICES ASSUME verdict' = "success", NEW s \in Stage
               PROVE  completed[s] \in {"success", "skipped"}
    BY <1>5
  <2>1. Recorded = Stage /\ ~IsError(completed[s])
    BY <1>1, <1>2, <1>4 DEF ReturnInv
  <2> QED
    BY <1>1, <2>1, RecordedEnded DEF IsError, Terminal
<1> QED
  BY <1>2, <1>3, <1>5, <1>6 DEF Lifecycle!Return

\* A pipeline that does not validate returns before any stage.
LEMMA RejectRefines ==
    ASSUME IInv, Reject
    PROVE  Lifecycle!Return("invalid")
<1>1. /\ verdict = "none" /\ verdict' = "invalid" /\ phase = "validate" /\ phase' = "returned"
      /\ UNCHANGED completed
  BY DEF Reject, IInv, PhaseInv, run
<1>2. Status' = Status
  BY <1>1, StatusKept
<1>3. DependencySets' = DependencySets
  BY DepsKept DEF Next, Execute
<1> QED
  BY <1>1, <1>2, <1>3 DEF Lifecycle!Return

\* Every other step leaves the abstract state alone.
LEMMA OtherRefines ==
    ASSUME IInv, [Next]_vars, ~Reject, ~BeginStage, ~Return,
           \A cond \in ContinueCondition : ~Conclude(cond)
    PROVE  UNCHANGED <<DependencySets, Status, verdict>>
<1>1. DependencySets' = DependencySets
  BY DepsKept
<1>2. CASE FinishSort
  <2>1. /\ UNCHANGED <<completed, verdict>> /\ phase = "sort" /\ phase' = "loop"
    BY <1>2, SortSucceeds DEF FinishSort, run
  <2> QED
    BY <1>1, <2>1, StatusKept
<1>3. CASE \E status \in {"success", "failed"} : EndStage(status)
  <2>1. /\ UNCHANGED <<completed, verdict, order, current>>
        /\ phase = "running" /\ phase' = "ended"
    BY <1>3 DEF EndStage, sort
  <2> QED
    BY <1>1, <2>1, StatusKept
<1>4. CASE Cancel \/ UNCHANGED vars
  <2>1. UNCHANGED <<completed, verdict, order, current, phase>>
    BY <1>4 DEF Cancel, vars, run, sort
  <2> QED
    BY <1>1, <2>1, StatusKept
<1>5. CASE Validate \/ StartSort \/ Sort \/ Loop
  <2>1. /\ UNCHANGED <<completed, verdict>>
        /\ phase \in {"validate", "sort", "loop"}
        /\ phase' \in {"validate", "sort", "finished", "stopped", "begin"}
    BY <1>5 DEF Validate, StartSort, Sort, Loop, run
  <2> QED
    BY <1>1, <2>1, StatusKept
<1> QED
  BY <1>2, <1>3, <1>4, <1>5 DEF Next, Execute

LEMMA NextRefines == IInv /\ [Next]_vars => [Lifecycle!Next]_(Lifecycle!vars)
<1> SUFFICES ASSUME IInv, [Next]_vars, ~UNCHANGED <<DependencySets, Status, verdict>>
             PROVE  Lifecycle!Next
  BY DEF Lifecycle!vars
<1> USE DEF Lifecycle!Next
<1>1. CASE Reject
  BY <1>1, RejectRefines
<1>2. CASE BeginStage
  BY <1>2, BeginRefines
<1>3. ASSUME NEW cond \in ContinueCondition, Conclude(cond) PROVE Lifecycle!Next
  BY <1>3, ConcludeRefines
<1>4. CASE Return
  BY <1>4, ReturnRefines
<1> QED
  BY <1>1, <1>2, <1>3, <1>4, OtherRefines

\* The sequential executor keeps the promises of StageLifecycle: one stage at
\* a time, after its dependencies, and success only when all ended well.
THEOREM Refinement == Spec => ImplementsLifecycle
<1>1. IInv /\ [Next]_vars => [Lifecycle!Next]_(Lifecycle!vars)
  BY NextRefines
<1> QED
  BY <1>1, InitRefines, Invariant, PTL DEF Spec, ImplementsLifecycle, Lifecycle!Spec
=============================================================================
