----------------------------- MODULE MCTopoSort -----------------------------
(***************************************************************************)
(* TopoSort on every graph of up to three vertices, and on those of four   *)
(* vertices without self loops, which graph_of_disjoint_subgraphs drops.   *)
(***************************************************************************)
EXTENDS TopoSort

AllGraphs(n) == [0 .. n - 1 -> SUBSET (0 .. n - 1)]

WithoutLoops(gs) == {g \in gs : \A v \in DOMAIN g : v \notin g[v]}

MCGraphs == UNION {AllGraphs(n) : n \in 0 .. 3} \cup WithoutLoops(AllGraphs(4))

=============================================================================
