------------------------------- MODULE Tarjan -------------------------------
(***************************************************************************)
(* get_strongly_connected_components of graph.rs, one recursive call or    *)
(* one edge of one call per step.                                          *)
(*                                                                         *)
(* The recursion is an explicit stack of active calls.  strong_connect is  *)
(* called at most once for a vertex, so what is left of a call's edge loop *)
(* is a function of the vertex.  The order of the edges is the iteration   *)
(* order of a hash set of imports, hence any order.                        *)
(***************************************************************************)
EXTENDS UnitGraph

CONSTANT Graphs      \* the graphs the algorithm may be given

ASSUME GraphsAssumption == \A g \in Graphs : IsDirectedGraph(g)

VARIABLES
    graph,        \* g
    discovered,   \* the visited vertices, in the order they were visited
    lowlink,      \* verts[v].lowlink
    stack,        \* the stack of vertices without a component yet
    calls,        \* the vertices whose strong_connect is active, innermost last
    todo,         \* the edges each call has not followed yet
    components    \* strongly_connected_components

tarjanVars == <<graph, discovered, lowlink, stack, calls, todo, components>>

\* verts[v].index: the number of the vertex, not the time of its discovery.
Index(v) == v

Lesser(a, b) == IF a <= b THEN a ELSE b

InSeq(x, s) == \E i \in 1 .. Len(s) : s[i] = x

Visited(v) == InSeq(v, discovered)
OnStack(v) == InSeq(v, stack)
Emitted    == UNION {components[i] : i \in 1 .. Len(components)}

Current == calls[Len(calls)]

\* The state in which the algorithm starts on g, as an initial predicate and
\* as a step of a caller.
TarjanInit ==
    /\ graph \in Graphs
    /\ discovered = << >>
    /\ lowlink = [v \in Vertices(graph) |-> Index(v)]
    /\ stack = << >>
    /\ calls = << >>
    /\ todo = graph
    /\ components = << >>

StartOn(g) ==
    /\ graph' = g
    /\ discovered' = << >>
    /\ lowlink' = [v \in Vertices(g) |-> Index(v)]
    /\ stack' = << >>
    /\ calls' = << >>
    /\ todo' = g
    /\ components' = << >>

\* Entry of strong_connect(w): mark w, push it, begin its edge loop.
Enter(w) ==
    /\ discovered' = Append(discovered, w)
    /\ stack'      = Append(stack, w)
    /\ calls'      = Append(calls, w)

\* to_strongly_connected_components: the outer loop reaches the next vertex
\* that no call has visited.
StartRoot ==
    /\ calls = << >>
    /\ \E v \in Vertices(graph) :
          /\ ~Visited(v)
          /\ \A u \in Vertices(graph) : ~Visited(u) => v <= u
          /\ Enter(v)
    /\ UNCHANGED <<graph, lowlink, todo, components>>

\* "Successor w has not yet been visited; recurse on it."
Recurse ==
    /\ calls # << >>
    /\ \E w \in todo[Current] :
          /\ ~Visited(w)
          /\ Enter(w)
          /\ todo' = [todo EXCEPT ![Current] = @ \ {w}]
    /\ UNCHANGED <<graph, lowlink, components>>

\* Mutant of SkipEdge: edges to finished components count too.
SkipEdgeOffStack ==
    /\ calls # << >>
    /\ \E w \in todo[Current] :
          /\ Visited(w)
          /\ lowlink' = [lowlink EXCEPT ![Current] = Lesser(@, Index(w))]
          /\ todo' = [todo EXCEPT ![Current] = @ \ {w}]
    /\ UNCHANGED <<graph, discovered, stack, calls, components>>

\* Mutant of SkipEdge: the loop does not advance past a visited successor.
SkipEdgeForever ==
    /\ calls # << >>
    /\ \E w \in todo[Current] :
          /\ Visited(w)
          /\ lowlink' = IF OnStack(w)
                        THEN [lowlink EXCEPT ![Current] = Lesser(@, Index(w))]
                        ELSE lowlink
    /\ UNCHANGED <<graph, discovered, stack, calls, todo, components>>

\* Mutant of SkipEdge: a visited successor is ignored, on the stack or not.
SkipEdgeUnseen ==
    /\ calls # << >>
    /\ \E w \in todo[Current] :
          /\ Visited(w)
          /\ todo' = [todo EXCEPT ![Current] = @ \ {w}]
    /\ UNCHANGED <<graph, discovered, lowlink, stack, calls, components>>

\* "Successor w is in stack S and hence in the current SCC."  A visited
\* successor that has left the stack is ignored.
SkipEdge ==
    /\ calls # << >>
    /\ \E w \in todo[Current] :
          /\ Visited(w)
          /\ lowlink' = IF OnStack(w)
                        THEN [lowlink EXCEPT ![Current] = Lesser(@, Index(w))]
                        ELSE lowlink
          /\ todo' = [todo EXCEPT ![Current] = @ \ {w}]
    /\ UNCHANGED <<graph, discovered, stack, calls, components>>

\* Mutant of PopComponent: `break` before v itself is taken off the stack.
PopComponentAbove(v) ==
    IF lowlink[v] = Index(v)
    THEN \E k \in 1 .. Len(stack) :
            /\ stack[k] = v
            /\ stack' = SubSeq(stack, 1, k)
            /\ components' =
                  Append(components, {stack[i] : i \in k .. Len(stack)})
    ELSE UNCHANGED <<stack, components>>

\* "If v is a root node, pop the stack and generate an SCC": everything from
\* v up leaves the stack as one component.
PopComponent(v) ==
    IF lowlink[v] = Index(v)
    THEN \E k \in 1 .. Len(stack) :
            /\ stack[k] = v
            /\ stack' = SubSeq(stack, 1, k - 1)
            /\ components' =
                  Append(components, {stack[i] : i \in k .. Len(stack)})
    ELSE UNCHANGED <<stack, components>>

\* Mutant of Return: the caller does not look at the lowlink of its callee.
ReturnWithoutLowlink ==
    /\ calls # << >>
    /\ todo[Current] = {}
    /\ PopComponent(Current)
    /\ calls' = SubSeq(calls, 1, Len(calls) - 1)
    /\ UNCHANGED <<graph, discovered, lowlink, todo>>

\* The end of the call on v, and of the statement of its caller that takes the
\* smaller of the two lowlinks.
Return ==
    /\ calls # << >>
    /\ todo[Current] = {}
    /\ PopComponent(Current)
    /\ calls' = SubSeq(calls, 1, Len(calls) - 1)
    /\ lowlink' =
          IF Len(calls) = 1
          THEN lowlink
          ELSE [lowlink EXCEPT ![calls[Len(calls) - 1]] =
                                    Lesser(@, lowlink[Current])]
    /\ UNCHANGED <<graph, discovered, todo>>

TarjanStep == StartRoot \/ Recurse \/ SkipEdge \/ Return

TarjanDone == calls = << >> /\ \A v \in Vertices(graph) : Visited(v)

\* The caller holds the result: nothing is left to do.
Finished == TarjanDone /\ UNCHANGED tarjanVars

TarjanNext == TarjanStep \/ Finished

\* One thread runs the algorithm and nothing preempts it.
TarjanSpec == TarjanInit /\ [][TarjanNext]_tarjanVars /\ WF_tarjanVars(TarjanStep)

-----------------------------------------------------------------------------
(***************************************************************************)
(* Properties.                                                             *)
(***************************************************************************)

\* Every variable holds a value of its type, and the three sequences hold
\* vertices of the graph.
TarjanTypeOK ==
    /\ IsDirectedGraph(graph)
    /\ discovered \in Seq(Vertices(graph))
    /\ lowlink \in [Vertices(graph) -> Nat]
    /\ stack \in Seq(Vertices(graph))
    /\ calls \in Seq(Vertices(graph))
    /\ todo \in [Vertices(graph) -> SUBSET Vertices(graph)]
    /\ components \in Seq(SUBSET Vertices(graph))

\* At every moment a visited vertex is in exactly one place: once on the stack,
\* or in exactly one of the components already output (graph.rs:130-165).  No
\* component is empty.
EachVertexInOnePlace ==
    /\ \A v \in Vertices(graph) :
          Visited(v) <=> (OnStack(v) \/ v \in Emitted)
    /\ \A i, j \in 1 .. Len(stack) : i # j => stack[i] # stack[j]
    /\ \A i \in 1 .. Len(components) :
          /\ components[i] # {}
          /\ \A k \in 1 .. Len(stack) : stack[k] \notin components[i]
          /\ \A j \in 1 .. Len(components) :
                i # j => components[i] \cap components[j] = {}

\* When the outer loop is between two roots the stack is empty, so the result
\* is a partition of the vertices: codegen compiles each new unit exactly once
\* (compiler.rs:242-257).
NothingLeftBehind ==
    /\ calls = << >> => stack = << >>
    /\ TarjanDone => IsPartition(components, Vertices(graph))

\* Strictly increasing discovery: the order for which a vertex number is as
\* good as a discovery time.
DiscoveredInOrder ==
    \A i, j \in 1 .. Len(discovered) : i < j => discovered[i] < discovered[j]

\* If the hash sets happen to list the edges so that vertices are discovered in
\* the order of their numbers, the output is the set of strongly connected
\* components, each after the components it leads to.
ExactWhenDiscoveredInOrder ==
    TarjanDone /\ DiscoveredInOrder =>
        /\ {components[i] : i \in DOMAIN components}
              = StronglyConnectedComponents(graph)
        /\ LET cg == GraphOfDisjointSubgraphs(components, graph)
           IN  \A i, j \in Vertices(cg) : j \in cg[i] => j < i

\* A component, once output, is final: later steps only add components.
ComponentsOnlyGrow ==
    [][\A i \in 1 .. Len(components) :
          i <= Len(components') /\ components'[i] = components[i]]_components

\* The calls made, the edges that are no longer to be followed, and the calls
\* that have returned.
Called   == {v \in Vertices(graph) : Visited(v)}
Followed == {e \in Vertices(graph) \X Vertices(graph) : e[2] \notin todo[e[1]]}
Returned == {v \in Called : ~InSeq(v, calls)}

\* No step is taken twice and none undoes another, so that strong_connect ends
\* on every graph (graph.rs:130-165): each makes, follows or ends something that
\* was not before, and there are finitely many vertices and edges.
SearchAdvances ==
    [][/\ Called \subseteq Called' /\ Followed \subseteq Followed'
       /\ Returned \subseteq Returned'
       /\ <<Called, Followed, Returned>>' # <<Called, Followed, Returned>>]_tarjanVars

\* How many calls are still to be made, edges to be followed, and calls to return.
SearchLeft ==
    Cardinality(Vertices(graph) \ Called)
    + Cardinality((Vertices(graph) \X Vertices(graph)) \ Followed)
    + Cardinality(Vertices(graph) \ Returned)

\* The recursion takes at most a call and a return for each vertex and a step for each
\* edge (graph.rs:130-165): that many are left at most, and each step leaves fewer.
SearchRunsOut ==
    /\ [](SearchLeft \in 0 .. 2 * Cardinality(Vertices(graph)) + Cardinality(Edges(graph)))
    /\ [][SearchLeft' < SearchLeft]_tarjanVars

\* Whatever the graph and the order of its edges, the recursion ends.
TarjanTerminates == <>TarjanDone

-----------------------------------------------------------------------------
(***************************************************************************)
(* What the comments of the code say of the result.                        *)
(***************************************************************************)

\* "A strongly-connected component is a subgraph in which every node is
\* reachable from every other node" (graph.rs:88-89).
ComponentsAreStronglyConnected ==
    \A i \in DOMAIN components : \A a, b \in components[i] :
        b \in ReachableFrom(a, graph)

=============================================================================
