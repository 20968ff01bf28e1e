------------------------------ MODULE TopoSort ------------------------------
(***************************************************************************)
(* valid_topological_ordering of graph.rs, one call of visit or one edge   *)
(* of one call per step.                                                   *)
(*                                                                         *)
(* codegen gives it the graph of the components Tarjan found, and panics   *)
(* if the answer is an error; the ordering is the order in which the       *)
(* groups of units are compiled and linked.                                *)
(***************************************************************************)
EXTENDS UnitGraph

CONSTANT Graphs      \* the graphs the algorithm may be given

ASSUME GraphsAssumption == \A g \in Graphs : IsDirectedGraph(g)

VARIABLES
    graph,       \* g
    active,      \* the vertices whose flag `active` is set
    complete,    \* the vertices whose flag `complete` is set
    calls,       \* the vertices whose visit is in progress, innermost last
    todo,        \* the edges each visit has not followed yet
    ordering,    \* ordering
    next,        \* i of the outer loop
    result       \* what the function has returned, Pending until it has

sortVars == <<graph, active, complete, calls, todo, ordering, next, result>>

Pending == "pending"
Ok == "ok"
Err == "err"

Current == calls[Len(calls)]

SortInit ==
    /\ graph \in Graphs
    /\ active = {} /\ complete = {}
    /\ calls = << >>
    /\ todo = graph
    /\ ordering = << >>
    /\ next = 0
    /\ result = Pending

\* visit(w) up to its loop: a complete vertex needs nothing, an active one
\* closes a cycle, and the `?` of every caller passes the error on.
Visit(w) ==
    \/ /\ w \in complete
       /\ UNCHANGED <<active, calls, result>>
    \/ /\ w \in active \ complete
       /\ result' = Err
       /\ UNCHANGED <<active, calls>>
    \/ /\ w \notin complete \cup active
       /\ active' = active \cup {w}
       /\ calls' = Append(calls, w)
       /\ UNCHANGED result

\* The outer loop reaches its next vertex.
VisitRoot ==
    /\ result = Pending /\ calls = << >>
    /\ next \in Vertices(graph)
    /\ Visit(next)
    /\ next' = next + 1
    /\ UNCHANGED <<graph, complete, todo, ordering>>

\* Mutant of VisitEdge: only one edge of each vertex is followed.
VisitOneEdge ==
    /\ result = Pending /\ calls # << >>
    /\ \E w \in todo[Current] :
          /\ Visit(w)
          /\ todo' = [todo EXCEPT ![Current] = {}]
    /\ UNCHANGED <<graph, complete, ordering, next>>

\* The innermost visit follows its next edge.
VisitEdge ==
    /\ result = Pending /\ calls # << >>
    /\ \E w \in todo[Current] :
          /\ Visit(w)
          /\ todo' = [todo EXCEPT ![Current] = @ \ {w}]
    /\ UNCHANGED <<graph, complete, ordering, next>>

\* Mutant of CompleteVisit: both flags stay as they were during the visit.
CompleteVisitSetsNoFlag ==
    /\ result = Pending /\ calls # << >>
    /\ todo[Current] = {}
    /\ ordering' = Append(ordering, Current)
    /\ calls' = SubSeq(calls, 1, Len(calls) - 1)
    /\ UNCHANGED <<graph, active, complete, todo, next, result>>

\* The innermost visit has followed every edge.
CompleteVisit ==
    /\ result = Pending /\ calls # << >>
    /\ todo[Current] = {}
    /\ active' = active \ {Current}
    /\ complete' = complete \cup {Current}
    /\ ordering' = Append(ordering, Current)
    /\ calls' = SubSeq(calls, 1, Len(calls) - 1)
    /\ UNCHANGED <<graph, todo, next, result>>

ReturnOk ==
    /\ result = Pending /\ calls = << >>
    /\ next \notin Vertices(graph)
    /\ result' = Ok
    /\ UNCHANGED <<graph, active, complete, calls, todo, ordering, next>>

SortStep == VisitRoot \/ VisitEdge \/ CompleteVisit \/ ReturnOk

\* The caller holds the result: nothing is left to do.
Returned == result # Pending /\ UNCHANGED sortVars

SortNext == SortStep \/ Returned

\* One thread runs the algorithm and nothing preempts it.
SortSpec == SortInit /\ [][SortNext]_sortVars /\ WF_sortVars(SortStep)

-----------------------------------------------------------------------------
(***************************************************************************)
(* Properties.                                                             *)
(***************************************************************************)

\* Every variable holds a value of its type.
SortTypeOK ==
    /\ IsDirectedGraph(graph)
    /\ active \subseteq Vertices(graph)
    /\ complete \subseteq Vertices(graph)
    /\ calls \in Seq(Vertices(graph))
    /\ todo \in [Vertices(graph) -> SUBSET Vertices(graph)]
    /\ ordering \in Seq(Vertices(graph))
    /\ next \in Nat
    /\ result \in {Pending, Ok, Err}

\* "Returns a valid topological ordering if the graph is a DAG"
\* (graph.rs:37): what Ok carries has every vertex once, each after the
\* vertices its edges lead to.
OkIsTopological ==
    result = Ok =>
        /\ {ordering[i] : i \in 1 .. Len(ordering)} = Vertices(graph)
        /\ \A i, j \in 1 .. Len(ordering) : i # j => ordering[i] # ordering[j]
        /\ IsTopological(ordering, graph)

\* "Returns an error if the graph contains cycles" (graph.rs:37): whatever it has
\* returned, Ok means that no path leads back to where it started and an error
\* that one does, so that the panic of codegen (compiler.rs:236) always means a
\* cycle of components.
AnswerMeansAcyclic == result # Pending => (result = Ok <=> IsAcyclic(graph))

\* What the function says of itself (graph.rs:37): an ordering that is valid, if
\* there is one.
AnswerIsValid == OkIsTopological /\ AnswerMeansAcyclic

\* The visits begun, the edges that are no longer to be followed, the visits that
\* are through, and the vertices the outer loop has passed.
Begun    == active \cup complete
Followed == {e \in Vertices(graph) \X Vertices(graph) : e[2] \notin todo[e[1]]}
Passed   == {v \in Vertices(graph) : v < next}

\* No step is taken twice and none undoes another, so that visit ends on every
\* graph (graph.rs:39-50): each but the one that returns the answer begins,
\* follows, completes or passes something that was not before, and there are
\* finitely many vertices and edges.
SortAdvances ==
    [][result' = Pending =>
         /\ Begun \subseteq Begun' /\ Followed \subseteq Followed'
         /\ complete \subseteq complete' /\ Passed \subseteq Passed'
         /\ <<Begun, Followed, complete, Passed>>'
               # <<Begun, Followed, complete, Passed>>]_sortVars

\* How many visits are still to be begun, edges to be followed, visits to be completed
\* and vertices to be passed, and the answer to be returned.
SortLeft ==
    Cardinality(Vertices(graph) \ Begun)
    + Cardinality((Vertices(graph) \X Vertices(graph)) \ Followed)
    + Cardinality(Vertices(graph) \ complete)
    + Cardinality(Vertices(graph) \ Passed)
    + (IF result = Pending THEN 1 ELSE 0)

\* The recursion takes at most three steps for each vertex, one for each edge and a last
\* one (graph.rs:37-58), with an error as without: that many are left at most, and each
\* step leaves fewer.
SortRunsOut ==
    /\ [](SortLeft \in 0 .. 3 * Cardinality(Vertices(graph)) + Cardinality(Edges(graph)) + 1)
    /\ [][SortLeft' < SortLeft]_sortVars

\* Whatever the graph, the recursion ends with an answer, and the answer is Ok
\* if and only if the graph is acyclic.
AnswersRightly == <>(result = IF IsAcyclic(graph) THEN Ok ELSE Err)

=============================================================================
