------------------------------ MODULE UnitGraph ------------------------------
(***************************************************************************)
(* The graph vocabulary of graph.rs, as operators on constant values.      *)
(*                                                                         *)
(* A DirectedGraph is a vector of edge vectors, indexed by vertex.  The    *)
(* edge vectors are filled from a HashSet (compiler.rs:211-219) or sorted  *)
(* and deduplicated (graph.rs:80-81), so that a graph is a function from   *)
(* vertices to sets of vertices; the order in which a hash set hands out   *)
(* the edges is a choice made by whoever walks them.                       *)
(*                                                                         *)
(* Everything from Edges on is the reference the algorithms are           *)
(* compared with: it models no code.                                       *)
(***************************************************************************)
EXTENDS Naturals, FiniteSets, Sequences

Vertices(g) == DOMAIN g

\* "Vertices should be numbered from `0` to `vertex_count - 1`. Edges should
\* index this range."
IsDirectedGraph(g) ==
    /\ IsFiniteSet(Vertices(g))
    /\ Vertices(g) = 0 .. Cardinality(Vertices(g)) - 1
    /\ g \in [Vertices(g) -> SUBSET Vertices(g)]

\* graph_of_disjoint_subgraphs: the graph whose vertex i is the i-th subgraph,
\* counted from 0.
GraphOfDisjointSubgraphs(subgraphs, g) ==
    LET V == 0 .. Len(subgraphs) - 1
    IN  [i \in V |->
            {j \in V \ {i} :
                \E a \in subgraphs[i + 1], b \in subgraphs[j + 1] : b \in g[a]}]

-----------------------------------------------------------------------------
(***************************************************************************)
(* Reference definitions.                                                  *)
(***************************************************************************)

\* The edges as pairs of vertices.
Edges(g) == {e \in Vertices(g) \X Vertices(g) : e[2] \in g[e[1]]}

\* No edge leads out of S.
IsClosed(S, g) == \A a \in S : g[a] \subseteq S

\* The vertices at the end of a path from a, possibly empty: those that belong
\* to every closed set that a belongs to.
ReachableFrom(a, g) ==
    {b \in Vertices(g) :
        \A S \in SUBSET Vertices(g) : a \in S /\ IsClosed(S, g) => b \in S}

\* The vertices that a reaches and that reach a.
ComponentOf(a, g) ==
    {b \in Vertices(g) : b \in ReachableFrom(a, g) /\ a \in ReachableFrom(b, g)}

StronglyConnectedComponents(g) == {ComponentOf(a, g) : a \in Vertices(g)}

\* No path of one edge or more leads back to where it started.
IsAcyclic(g) ==
    \A a \in Vertices(g) : \A b \in g[a] : a \notin ReachableFrom(b, g)

\* Every vertex comes after the vertices its edges lead to.
IsTopological(ordering, g) ==
    \A i, j \in DOMAIN ordering : ordering[j] \in g[ordering[i]] => j < i

IsPartition(parts, S) ==
    /\ UNION {parts[i] : i \in DOMAIN parts} = S
    /\ \A i \in DOMAIN parts : parts[i] # {}
    /\ \A i, j \in DOMAIN parts : i # j => parts[i] \cap parts[j] = {}

\* The graphs codegen can meet: vertex 0 is the unit being loaded, and every
\* other vertex is an instance created for a reference made by an earlier
\* vertex, which then imports it (compiler.rs:171-192).
LoadGraphs(n) ==
    {g \in [0 .. n - 1 -> SUBSET (0 .. n - 1)] :
        \A w \in 1 .. n - 1 : \E v \in 0 .. w - 1 : w \in g[v]}

=============================================================================
