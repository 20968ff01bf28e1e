------------------------------ MODULE MCTarjan ------------------------------
(***************************************************************************)
(* Tarjan on every graph of up to three vertices, and on those of four     *)
(* vertices, without self loops, that a load can build.                    *)
(***************************************************************************)
EXTENDS Tarjan

AllGraphs(n) == [0 .. n - 1 -> SUBSET (0 .. n - 1)]

\* What a load of up to three units can build.
SmallLoadGraphs == UNION {LoadGraphs(n) : n \in 1 .. 3}

WithoutLoops(gs) == {g \in gs : \A v \in DOMAIN g : v \notin g[v]}

MCGraphs == UNION {AllGraphs(n) : n \in 0 .. 3} \cup WithoutLoops(LoadGraphs(4))

=============================================================================
