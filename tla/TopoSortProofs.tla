--------------------------- MODULE TopoSortProofs ---------------------------
(***************************************************************************)
(* valid_topological_ordering answers rightly on every graph.              *)
(*                                                                         *)
(* The inductive invariant says what the flags and the call stack mean:    *)
(* the active vertices are the calls in progress and form a path, the      *)
(* complete ones are those in the ordering, each with all it leads to, and *)
(* an edge that has been followed leads to a complete vertex or to the     *)
(* next call.                                                              *)
(***************************************************************************)
EXTENDS TopoSort, Lemmas, FiniteSetTheorems

V == Vertices(graph)

\* The flags, the call stack and the ordering describe the same vertices.
FlagsOK ==
    /\ active = {calls[i] : i \in 1 .. Len(calls)}
    /\ complete = {ordering[i] : i \in 1 .. Len(ordering)}
    /\ active \cap complete = {}
    /\ \A i, j \in 1 .. Len(calls) : calls[i] = calls[j] => i = j
    /\ \A i, j \in 1 .. Len(ordering) : ordering[i] = ordering[j] => i = j

\* An edge that was followed leads to a complete vertex or to the next call.
EdgesOK ==
    result = Pending =>
        \A v \in V : \A w \in graph[v] \ todo[v] :
            \/ w \in complete
            \/ \E i \in 1 .. Len(calls) - 1 : calls[i] = v /\ calls[i + 1] = w

\* The edges still to follow are edges.
TodoOK == \A v \in V : todo[v] \subseteq graph[v]

\* The vertices in the ordering lead to earlier ones only.
OrderOK ==
    /\ \A v \in complete : graph[v] \subseteq complete
    /\ IsTopological(ordering, graph)

\* The call stack is a path: a call has reached those it made.
PathOK ==
    \A i, j \in 1 .. Len(calls) : i <= j => calls[j] \in ReachableFrom(calls[i], graph)

\* The vertices the outer loop has passed are dealt with.
LoopOK ==
    /\ result = Pending => \A v \in V : v < next => v \in complete \cup active
    /\ result = Ok => complete = V

\* An error means that there is a cycle.
ErrOK == result = Err => ~IsAcyclic(graph)

SortInv ==
    /\ SortTypeOK
    /\ FlagsOK
    /\ TodoOK
    /\ EdgesOK
    /\ OrderOK
    /\ PathOK
    /\ LoopOK
    /\ ErrOK

-----------------------------------------------------------------------------

\* What the type invariant says of the graph, with its definition expanded.
LEMMA GraphLemma ==
    ASSUME SortTypeOK
    PROVE  /\ Cardinality(V) \in Nat
           /\ V = 0 .. Cardinality(V) - 1
           /\ V \subseteq Nat
           /\ graph \in [V -> SUBSET V]
<1>1. IsFiniteSet(V) /\ V = 0 .. Cardinality(V) - 1 /\ graph \in [V -> SUBSET V]
    BY DEF SortTypeOK, IsDirectedGraph, V
<1>2. Cardinality(V) \in Nat
    BY <1>1, FS_CardinalityType
<1>3. V \subseteq Nat
    BY <1>1, <1>2
<1>4. QED
    BY <1>1, <1>2, <1>3

\* Nothing has been visited in an initial state.
LEMMA SortInvInit == SortInit => SortInv
<1> SUFFICES ASSUME SortInit PROVE SortInv
    OBVIOUS
<1>1. IsDirectedGraph(graph)
    BY GraphsAssumption DEF SortInit
<1>2. graph \in [V -> SUBSET V]
    BY <1>1 DEF IsDirectedGraph, V
<1>3. Len(calls) = 0 /\ Len(ordering) = 0
    BY DEF SortInit
<1>4. SortTypeOK
    BY <1>1, <1>2 DEF SortInit, SortTypeOK, Pending, V
<1>5. V \subseteq Nat
    BY <1>4, GraphLemma
<1>6. FlagsOK
    BY <1>3 DEF SortInit, FlagsOK
<1>7. TodoOK /\ EdgesOK
    BY <1>2 DEF SortInit, TodoOK, EdgesOK
<1>8. OrderOK
    BY <1>3 DEF SortInit, OrderOK, IsTopological
<1>9. PathOK
    BY <1>3 DEF PathOK
<1>10. LoopOK /\ ErrOK
    BY <1>5 DEF SortInit, LoopOK, ErrOK, Pending, Ok, Err
<1>11. QED
    BY <1>4, <1>6, <1>7, <1>8, <1>9, <1>10 DEF SortInv


-----------------------------------------------------------------------------

\* Pushing a fresh vertex, the end of an edge of the innermost visit if there
\* is one, keeps what is said of the call stack.
LEMMA PushKeepsStack ==
    ASSUME SortInv,
           NEW w \in V, w \notin complete \cup active,
           calls # << >> => w \in graph[Current],
           active' = active \cup {w}, calls' = Append(calls, w),
           UNCHANGED <<graph, complete, ordering>>
    PROVE  FlagsOK' /\ PathOK' /\ calls' \in Seq(V)
<1>1. /\ calls \in Seq(V)
      /\ graph \in [V -> SUBSET V]
    BY GraphLemma DEF SortInv, SortTypeOK, V
<1>2. /\ calls' \in Seq(V)
      /\ Len(calls) \in Nat
      /\ Len(calls') = Len(calls) + 1
      /\ \A i \in 1 .. Len(calls) : calls'[i] = calls[i]
      /\ calls'[Len(calls) + 1] = w
    BY <1>1, PushLemma
<1>3. \A i \in 1 .. Len(calls) : calls[i] # w
    BY DEF SortInv, FlagsOK
<1>4. active' = {calls'[i] : i \in 1 .. Len(calls')}
    BY <1>2 DEF SortInv, FlagsOK
<1>5. \A i, j \in 1 .. Len(calls') : calls'[i] = calls'[j] => i = j
    BY <1>2, <1>3 DEF SortInv, FlagsOK
<1>6. FlagsOK'
    BY SMTT(30), <1>4, <1>5 DEF SortInv, FlagsOK
<1>7. ASSUME NEW i \in 1 .. Len(calls'), NEW j \in 1 .. Len(calls'), i <= j
      PROVE  calls'[j] \in ReachableFrom(calls'[i], graph)
  <2>1. CASE j <= Len(calls)
      BY <1>2, <1>7, <2>1 DEF SortInv, PathOK
  <2>2. CASE i = Len(calls) + 1
      BY <1>2, <1>7, <2>2, ReachSelf DEF V
  <2>3. CASE j = Len(calls) + 1 /\ i <= Len(calls)
    <3>1. calls # << >> /\ i \in 1 .. Len(calls)
        BY <1>1, <1>2, <1>7, <2>3
    <3>2. /\ Len(calls) \in 1 .. Len(calls)
          /\ Current \in V
        BY <1>1, <3>1, TopLemma DEF Current
    <3>3. Current \in ReachableFrom(calls[i], graph)
        BY <1>2, <2>3, <3>1, <3>2 DEF SortInv, PathOK, Current
    <3>4. w \in ReachableFrom(Current, graph)
        BY <1>1, <3>1, <3>2, ReachEdge DEF V
    <3>5. w \in ReachableFrom(calls[i], graph)
        BY <3>3, <3>4, ReachTrans
    <3>6. calls'[j] = w /\ calls'[i] = calls[i]
        BY <1>2, <2>3, <3>1
    <3>7. QED
        BY <3>5, <3>6
  <2>4. QED
      BY <1>2, <1>7, <2>1, <2>2, <2>3
<1>8. PathOK'
    BY <1>7 DEF PathOK
<1>9. QED
    BY <1>2, <1>6, <1>8

\* Between two vertices of the outer loop nothing is active.
LEMMA VisitRootKeepsInv ==
    ASSUME SortInv, VisitRoot
    PROVE  SortInv'
<1>1. /\ result = Pending /\ calls = << >> /\ next \in V
      /\ Visit(next)
      /\ next' = next + 1
      /\ UNCHANGED <<graph, complete, todo, ordering>>
    BY DEF VisitRoot, V
<1>2. /\ Len(calls) = 0 /\ active = {}
      /\ V \subseteq Nat /\ next \in Nat /\ V' = V
      /\ graph \in [V -> SUBSET V]
    BY <1>1, GraphLemma DEF SortInv, FlagsOK, V
<1>3. TodoOK' /\ EdgesOK'
    <2>1. \A v \in V : \A x \in graph[v] \ todo[v] : x \in complete
      <3>1. 1 .. Len(calls) - 1 = {}
          BY <1>2
      <3>2. QED
          BY <1>1, <3>1 DEF SortInv, EdgesOK
    <2>2. QED
        BY <1>1, <1>2, <2>1 DEF SortInv, TodoOK, EdgesOK
<1>4. OrderOK'
    BY <1>1 DEF SortInv, OrderOK, IsTopological
<1>5. CASE next \in complete /\ UNCHANGED <<active, calls, result>>
  <2>1. SortTypeOK'
      BY <1>1, <1>2, <1>5 DEF SortInv, SortTypeOK, V
  <2>2. FlagsOK' /\ PathOK'
      BY <1>1, <1>2, <1>5 DEF SortInv, FlagsOK, PathOK
  <2>3. LoopOK' /\ ErrOK'
      BY <1>1, <1>2, <1>5 DEF SortInv, LoopOK, ErrOK, Pending, Ok, Err
  <2>4. QED
      BY <1>3, <1>4, <2>1, <2>2, <2>3 DEF SortInv
<1>6. CASE /\ next \notin complete \cup active
           /\ active' = active \cup {next}
           /\ calls' = Append(calls, next)
           /\ UNCHANGED result
  <2>1. FlagsOK' /\ PathOK' /\ calls' \in Seq(V)
      BY <1>1, <1>6, PushKeepsStack
  <2>2. SortTypeOK'
      BY <1>1, <1>2, <1>6, <2>1 DEF SortInv, SortTypeOK, V
  <2>3. LoopOK' /\ ErrOK'
      BY <1>1, <1>2, <1>6 DEF SortInv, LoopOK, ErrOK, Pending, Ok, Err
  <2>4. QED
      BY <1>3, <1>4, <2>1, <2>2, <2>3 DEF SortInv
<1>7. QED
    BY <1>1, <1>2, <1>5, <1>6 DEF Visit

\* Following an edge: the next call is the other end of an edge of this one.
LEMMA VisitEdgeKeepsInv ==
    ASSUME SortInv, VisitEdge
    PROVE  SortInv'
<1>1. PICK w \in todo[Current] :
          /\ Visit(w)
          /\ todo' = [todo EXCEPT ![Current] = @ \ {w}]
    BY DEF VisitEdge
<1>2. /\ result = Pending /\ calls # << >>
      /\ UNCHANGED <<graph, complete, ordering, next>>
      /\ V' = V
    BY DEF VisitEdge, V
<1>3. /\ calls \in Seq(V) /\ todo \in [V -> SUBSET V]
      /\ graph \in [V -> SUBSET V]
      /\ V \subseteq Nat
      /\ next \in Nat
    BY GraphLemma DEF SortInv, SortTypeOK, V
<1>4. Current \in V /\ Len(calls) \in 1 .. Len(calls) /\ Current = calls[Len(calls)]
    BY <1>2, <1>3, TopLemma DEF Current
<1>5. w \in V /\ todo' \in [V -> SUBSET V]
    BY <1>1, <1>3, <1>4
<1>6. w \in graph[Current]
    BY <1>1, <1>4 DEF SortInv, TodoOK
<1>7. TodoOK'
    BY <1>1, <1>2, <1>3, <1>4 DEF SortInv, TodoOK
<1>8. OrderOK'
    BY <1>2 DEF SortInv, OrderOK, IsTopological
<1>9. CASE w \in complete /\ UNCHANGED <<active, calls, result>>
  <2>1. SortTypeOK'
      BY <1>2, <1>5, <1>9 DEF SortInv, SortTypeOK, V
  <2>2. FlagsOK' /\ PathOK' /\ LoopOK' /\ ErrOK'
    <3>1. FlagsOK' /\ LoopOK'
        BY SMTT(30), <1>2, <1>9 DEF SortInv, FlagsOK, LoopOK
    <3>2. PathOK'
        BY <1>2, <1>9 DEF SortInv, PathOK
    <3>3. ErrOK'
        BY <1>2, <1>9 DEF SortInv, ErrOK
    <3>4. QED
        BY <3>1, <3>2, <3>3
  <2>3. EdgesOK'
      BY <1>1, <1>2, <1>3, <1>4, <1>9 DEF SortInv, EdgesOK
  <2>4. QED
      BY <1>7, <1>8, <2>1, <2>2, <2>3 DEF SortInv
<1>10. CASE w \in active \ complete /\ result' = Err /\ UNCHANGED <<active, calls>>
  <2>1. SortTypeOK'
      BY <1>2, <1>5, <1>10 DEF SortInv, SortTypeOK, V
  <2>2. FlagsOK'
      BY SMTT(30), <1>2, <1>10 DEF SortInv, FlagsOK
  <2>3. PathOK'
      BY <1>2, <1>10 DEF SortInv, PathOK
  <2>4. EdgesOK' /\ LoopOK'
      BY <1>10 DEF EdgesOK, LoopOK, Pending, Ok, Err
  <2>5. ~IsAcyclic(graph)
    <3>1. PICK i \in 1 .. Len(calls) : calls[i] = w
        BY <1>10 DEF SortInv, FlagsOK
    <3>2. Current \in ReachableFrom(w, graph)
        BY <1>4, <3>1 DEF SortInv, PathOK
    <3>3. QED
        BY <1>4, <1>6, <3>2 DEF IsAcyclic, V
  <2>6. ErrOK'
      BY <1>2, <2>5 DEF ErrOK
  <2>7. QED
      BY <1>7, <1>8, <2>1, <2>2, <2>3, <2>4, <2>6 DEF SortInv
<1>11. CASE /\ w \notin complete \cup active
            /\ active' = active \cup {w}
            /\ calls' = Append(calls, w)
            /\ UNCHANGED result
  <2>1. FlagsOK' /\ PathOK' /\ calls' \in Seq(V)
      BY <1>2, <1>5, <1>6, <1>11, PushKeepsStack
  <2>2. SortTypeOK'
      BY <1>2, <1>5, <1>11, <2>1 DEF SortInv, SortTypeOK, V
  <2>3. LoopOK' /\ ErrOK'
      BY <1>2, <1>11 DEF SortInv, LoopOK, ErrOK, Pending, Ok, Err
  <2>4. /\ Len(calls') = Len(calls) + 1
        /\ \A i \in 1 .. Len(calls) : calls'[i] = calls[i]
        /\ calls'[Len(calls) + 1] = w
      BY <1>3, <1>5, <1>11, PushLemma
  <2>5. ASSUME NEW v \in V, NEW x \in graph[v] \ todo'[v], x \notin complete
        PROVE  \E i \in 1 .. Len(calls') - 1 : calls'[i] = v /\ calls'[i + 1] = x
    <3>1. CASE x \in todo[v]
      <4>1. v = Current /\ x = w
          BY <1>1, <1>3, <1>4, <2>5, <3>1
      <4>2. QED
          BY <1>4, <2>4, <4>1
    <3>2. CASE x \notin todo[v]
      <4>1. PICK i \in 1 .. Len(calls) - 1 : calls[i] = v /\ calls[i + 1] = x
          BY <1>2, <2>5, <3>2 DEF SortInv, EdgesOK
      <4>2. QED
          BY <1>4, <2>4, <4>1
    <3>3. QED
        BY <3>1, <3>2
  <2>6. EdgesOK'
      BY <1>2, <2>5 DEF EdgesOK
  <2>7. QED
      BY <1>7, <1>8, <2>1, <2>2, <2>3, <2>6 DEF SortInv
<1>12. QED
    BY <1>1, <1>9, <1>10, <1>11 DEF Visit

\* Completing the innermost visit: all it leads to is complete, so it may go to
\* the end of the ordering.
LEMMA CompleteVisitKeepsInv ==
    ASSUME SortInv, CompleteVisit
    PROVE  SortInv'
<1> DEFINE n == Len(calls)
<1>1. /\ result = Pending /\ calls # << >> /\ todo[Current] = {}
      /\ active' = active \ {Current}
      /\ complete' = complete \cup {Current}
      /\ ordering' = Append(ordering, Current)
      /\ calls' = SubSeq(calls, 1, n - 1)
      /\ UNCHANGED <<graph, todo, next, result>>
      /\ V' = V
    BY DEF CompleteVisit, V
<1>2. /\ calls \in Seq(V) /\ ordering \in Seq(V)
      /\ graph \in [V -> SUBSET V]
      /\ active \subseteq V /\ complete \subseteq V
    BY GraphLemma DEF SortInv, SortTypeOK, V
<1>3. /\ Current \in V /\ Current = calls[n]
      /\ n \in Nat \ {0} /\ n \in 1 .. n /\ n - 1 \in 0 .. n
    BY <1>1, <1>2, TopLemma DEF Current
<1>4. /\ calls' \in Seq(V) /\ Len(calls') = n - 1
      /\ \A i \in 1 .. n - 1 : calls'[i] = calls[i]
    BY <1>1, <1>2, <1>3, PrefixLemma
<1>5. /\ ordering' \in Seq(V)
      /\ Len(ordering) \in Nat
      /\ Len(ordering') = Len(ordering) + 1
      /\ \A i \in 1 .. Len(ordering) : ordering'[i] = ordering[i]
      /\ ordering'[Len(ordering) + 1] = Current
    BY <1>1, <1>2, <1>3, PushLemma
<1>6. Current \in active /\ Current \notin complete
    BY <1>3 DEF SortInv, FlagsOK
<1>7. graph[Current] \subseteq complete
  <2>1. SUFFICES ASSUME NEW w \in graph[Current] PROVE w \in complete
      OBVIOUS
  <2>2. \A i \in 1 .. n - 1 : calls[i] # Current
      BY <1>3 DEF SortInv, FlagsOK
  <2>3. QED
      BY <1>1, <1>3, <2>1, <2>2 DEF SortInv, EdgesOK
<1>8. SortTypeOK'
    BY <1>1, <1>2, <1>3, <1>4, <1>5 DEF SortInv, SortTypeOK, V
<1>9. FlagsOK'
  <2>1. active' = {calls'[i] : i \in 1 .. Len(calls')}
    <3>1. \A i \in 1 .. n - 1 : calls[i] # Current
        BY <1>3 DEF SortInv, FlagsOK
    <3>2. \A i \in 1 .. n : i = n \/ i \in 1 .. n - 1
        BY <1>3
    <3>3. \A i \in 1 .. n - 1 : i \in 1 .. n
        BY <1>3
    <3>4. active = {calls[i] : i \in 1 .. n}
        BY DEF SortInv, FlagsOK
    <3>5. {calls'[i] : i \in 1 .. Len(calls')} = {calls[i] : i \in 1 .. n - 1}
        BY <1>4
    <3>6. QED
        BY <1>1, <1>3, <3>1, <3>2, <3>3, <3>4, <3>5
  <2>2. complete' = {ordering'[i] : i \in 1 .. Len(ordering')}
      BY <1>1, <1>5 DEF SortInv, FlagsOK
  <2>3. active' \cap complete' = {}
      BY <1>1 DEF SortInv, FlagsOK
  <2>4. \A i, j \in 1 .. Len(calls') : calls'[i] = calls'[j] => i = j
      BY <1>3, <1>4 DEF SortInv, FlagsOK
  <2>5. \A i \in 1 .. Len(ordering) : ordering[i] # Current
      BY <1>6 DEF SortInv, FlagsOK
  <2>6. \A i, j \in 1 .. Len(ordering') : ordering'[i] = ordering'[j] => i = j
      BY <1>5, <2>5 DEF SortInv, FlagsOK
  <2>7. QED
      BY <2>1, <2>2, <2>3, <2>4, <2>6 DEF FlagsOK
<1>10. TodoOK'
    BY <1>1 DEF SortInv, TodoOK
<1>11. EdgesOK'
  <2>1. ASSUME NEW v \in V, NEW w \in graph[v] \ todo[v], w \notin complete'
        PROVE  \E i \in 1 .. Len(calls') - 1 : calls'[i] = v /\ calls'[i + 1] = w
    <3>1. PICK i \in 1 .. n - 1 : calls[i] = v /\ calls[i + 1] = w
        BY <1>1, <2>1 DEF SortInv, EdgesOK
    <3>2. i # n - 1
        BY <1>1, <1>3, <2>1, <3>1
    <3>3. i \in 1 .. Len(calls') - 1 /\ i \in 1 .. n - 1 /\ i + 1 \in 1 .. n - 1
        BY <1>3, <1>4, <3>2
    <3>4. QED
        BY <1>4, <3>1, <3>3
  <2>2. QED
      BY <1>1, <2>1 DEF EdgesOK
<1>12. OrderOK'
  <2>1. \A v \in complete' : graph[v] \subseteq complete
      BY <1>1, <1>7 DEF SortInv, OrderOK
  <2>2. ASSUME NEW i \in 1 .. Len(ordering'), NEW j \in 1 .. Len(ordering'),
               ordering'[j] \in graph[ordering'[i]]
        PROVE  j < i
    <3>1. ordering'[i] \in complete'
        BY <1>9 DEF FlagsOK
    <3>2. ordering'[j] \in complete
        BY <2>1, <2>2, <3>1
    <3>3. j # Len(ordering) + 1
        BY <1>5, <1>6, <3>2
    <3>4. CASE i = Len(ordering) + 1
        BY <1>5, <3>3, <3>4
    <3>5. CASE i # Len(ordering) + 1
        BY <1>2, <1>5, <2>2, <3>3, <3>5 DEF SortInv, OrderOK, IsTopological
    <3>6. QED
        BY <3>4, <3>5
  <2>3. DOMAIN ordering' = 1 .. Len(ordering')
      BY <1>5
  <2>4. IsTopological(ordering, graph)'
      BY <1>1, <2>2, <2>3 DEF IsTopological
  <2>5. QED
      BY <1>1, <2>1, <2>4 DEF OrderOK
<1>13. PathOK'
  <2>1. \A i \in 1 .. n - 1 : i \in 1 .. n
      BY <1>3
  <2>2. \A i, j \in 1 .. n - 1 : i <= j => calls[j] \in ReachableFrom(calls[i], graph)
      BY <2>1 DEF SortInv, PathOK
  <2>3. QED
      BY <1>1, <1>4, <2>2 DEF PathOK
<1>14. LoopOK' /\ ErrOK'
    BY <1>1 DEF SortInv, LoopOK, ErrOK, Pending, Ok, Err
<1>15. QED
    BY <1>8, <1>9, <1>10, <1>11, <1>12, <1>13, <1>14 DEF SortInv

\* The outer loop is through and nothing is active: every vertex is complete.
LEMMA ReturnOkKeepsInv ==
    ASSUME SortInv, ReturnOk
    PROVE  SortInv'
<1>1. /\ result = Pending /\ calls = << >> /\ next \notin V
      /\ result' = Ok
      /\ UNCHANGED <<graph, active, complete, calls, todo, ordering, next>>
      /\ V' = V
    BY DEF ReturnOk, V
<1>2. /\ Cardinality(V) \in Nat /\ V = 0 .. Cardinality(V) - 1
      /\ next \in Nat /\ complete \subseteq V
    BY GraphLemma DEF SortInv, SortTypeOK, V
<1>3. \A v \in V : v < next
    BY <1>1, <1>2
<1>4. active = {}
    BY <1>1 DEF SortInv, FlagsOK
<1>5. complete = V
    BY <1>1, <1>2, <1>3, <1>4 DEF SortInv, LoopOK
<1>6. SortTypeOK'
    BY <1>1 DEF SortInv, SortTypeOK
<1>7. FlagsOK' /\ TodoOK'
    BY <1>1 DEF SortInv, FlagsOK, TodoOK
<1>8. EdgesOK' /\ LoopOK' /\ ErrOK'
    BY <1>1, <1>5 DEF EdgesOK, LoopOK, ErrOK, Pending, Ok, Err
<1>9. OrderOK'
    BY <1>1 DEF SortInv, OrderOK, IsTopological
<1>10. PathOK'
    BY <1>1 DEF SortInv, PathOK
<1>11. QED
    BY <1>6, <1>7, <1>8, <1>9, <1>10 DEF SortInv

\* A step that changes nothing.
LEMMA SortStutterKeepsInv ==
    ASSUME SortInv, UNCHANGED sortVars
    PROVE  SortInv'
<1>1. /\ UNCHANGED <<graph, active, complete, calls, todo, ordering, next, result>>
      /\ V' = V
    BY DEF sortVars, V
<1>2. SortTypeOK' /\ FlagsOK' /\ TodoOK' /\ EdgesOK' /\ LoopOK'
  <2>1. SortTypeOK' /\ TodoOK'
      BY <1>1 DEF SortInv, SortTypeOK, TodoOK
  <2>2. FlagsOK' /\ LoopOK'
      BY <1>1 DEF SortInv, FlagsOK, LoopOK
  <2>3. EdgesOK'
    <3>1. ASSUME result = Pending, NEW v \in V, NEW w \in graph[v] \ todo[v]
          PROVE  \/ w \in complete
                 \/ \E i \in 1 .. Len(calls) - 1 : calls[i] = v /\ calls[i + 1] = w
        BY <3>1 DEF SortInv, EdgesOK
    <3>2. QED
        BY <1>1, <3>1 DEF EdgesOK
  <2>4. QED
      BY <2>1, <2>2, <2>3
<1>3. OrderOK'
    BY <1>1 DEF SortInv, OrderOK, IsTopological
<1>4. PathOK' /\ ErrOK'
    BY <1>1 DEF SortInv, PathOK, ErrOK
<1>5. QED
    BY <1>2, <1>3, <1>4 DEF SortInv

-----------------------------------------------------------------------------

\* The invariant holds in every reachable state of visit and its outer loop.
THEOREM SortInvariant == SortSpec => []SortInv
<1>1. SortInit => SortInv
    BY SortInvInit
<1>2. SortInv /\ [SortNext]_sortVars => SortInv'
  <2> SUFFICES ASSUME SortInv, [SortNext]_sortVars PROVE SortInv'
      OBVIOUS
  <2>1. CASE VisitRoot
      BY <2>1, VisitRootKeepsInv
  <2>2. CASE VisitEdge
      BY <2>2, VisitEdgeKeepsInv
  <2>3. CASE CompleteVisit
      BY <2>3, CompleteVisitKeepsInv
  <2>4. CASE ReturnOk
      BY <2>4, ReturnOkKeepsInv
  <2>5. CASE UNCHANGED sortVars
      BY <2>5, SortStutterKeepsInv
  <2>6. QED
      BY <2>1, <2>2, <2>3, <2>4, <2>5 DEF SortNext, SortStep, Returned
<1>3. QED
    BY <1>1, <1>2, PTL DEF SortSpec

\* Every variable keeps its type, on every graph.
THEOREM SortTypes == SortSpec => []SortTypeOK
<1>1. SortInv => SortTypeOK
    BY DEF SortInv
<1>2. QED
    BY <1>1, SortInvariant, PTL

\* "Returns a valid topological ordering if the graph is a DAG": what Ok
\* carries has every vertex once, each after those its edges lead to
\* (graph.rs:37-58).
THEOREM OkIsRight == SortSpec => []OkIsTopological
<1>1. SortInv => OkIsTopological
  <2> SUFFICES ASSUME SortInv, result = Ok PROVE OkIsTopological
      BY DEF OkIsTopological
  <2>1. {ordering[i] : i \in 1 .. Len(ordering)} = Vertices(graph)
      BY DEF SortInv, FlagsOK, LoopOK, V
  <2>2. \A i, j \in 1 .. Len(ordering) : i # j => ordering[i] # ordering[j]
      BY DEF SortInv, FlagsOK
  <2>3. QED
      BY <2>1, <2>2 DEF SortInv, OrderOK, OkIsTopological
<1>2. QED
    BY <1>1, SortInvariant, PTL

\* "Returns an error if the graph contains cycles", and only then: the answer is
\* Ok exactly if the graph is acyclic (graph.rs:37-58).
THEOREM ErrIsRight == SortSpec => []AnswerMeansAcyclic
<1>1. SortInv => AnswerMeansAcyclic
  <2> SUFFICES ASSUME SortInv, result # Pending PROVE result = Ok <=> IsAcyclic(graph)
      BY DEF AnswerMeansAcyclic
  <2>1. CASE result = Ok
    <3>1. graph \in [V -> SUBSET V] /\ ordering \in Seq(V)
        BY GraphLemma DEF SortInv, SortTypeOK, V
    <3>2. \A v \in V : \E i \in 1 .. Len(ordering) : ordering[i] = v
        BY <2>1 DEF SortInv, FlagsOK, LoopOK
    <3>3. IsTopological(ordering, graph)
        BY DEF SortInv, OrderOK
    <3>4. QED
        BY <2>1, <3>1, <3>2, <3>3, TopologicalIsAcyclic DEF V
  <2>2. CASE result = Err
      BY <2>2 DEF SortInv, ErrOK, Ok, Err
  <2>3. QED
      BY <2>1, <2>2 DEF SortInv, SortTypeOK
<1>2. QED
    BY <1>1, SortInvariant, PTL

\* Both together: what the function says of itself (graph.rs:37).
THEOREM AnswerIsRight == SortSpec => []AnswerIsValid
<1>1. OkIsTopological /\ AnswerMeansAcyclic => AnswerIsValid
    BY DEF AnswerIsValid
<1>2. QED
    BY <1>1, OkIsRight, ErrIsRight, PTL

-----------------------------------------------------------------------------
(***************************************************************************)
(* The recursion ends: every step does one of finitely many things for the *)
(* first time, and undoes none.                                            *)
(***************************************************************************)

\* What a step has done that was not done before it.
LEMMA SortStepAdvances ==
    ASSUME SortInv, SortNext, sortVars' # sortVars
    PROVE  /\ Begun \subseteq Begun' /\ Followed \subseteq Followed'
           /\ complete \subseteq complete' /\ Passed \subseteq Passed'
           /\ \/ <<Begun, Followed, complete, Passed>>'
                    # <<Begun, Followed, complete, Passed>>
              \/ result' # Pending /\ UNCHANGED <<Begun, Followed, complete, Passed>>
           /\ result = Pending /\ graph' = graph
<1>1. /\ calls \in Seq(V) /\ todo \in [V -> SUBSET V] /\ next \in Nat
      /\ V \subseteq Nat
    BY GraphLemma DEF SortInv, SortTypeOK, V
<1>2. result = Pending /\ graph' = graph
    BY DEF SortNext, SortStep, VisitRoot, VisitEdge, CompleteVisit, ReturnOk, Returned
<1>3. CASE VisitRoot
  <2>1. /\ next \in V /\ next' = next + 1 /\ active \subseteq active'
        /\ UNCHANGED <<graph, complete, todo>>
      BY <1>3 DEF VisitRoot, Visit, V
  <2>2. Passed \subseteq Passed' /\ next \in Passed' /\ next \notin Passed
      BY <1>1, <2>1 DEF Passed, V
  <2>3. Begun \subseteq Begun' /\ Followed' = Followed
      BY <2>1 DEF Begun, Followed
  <2>4. QED
      BY <1>2, <2>1, <2>2, <2>3
<1>4. CASE VisitEdge
  <2>1. calls # << >> /\ active \subseteq active' /\ UNCHANGED <<graph, complete, next>>
      BY <1>4 DEF VisitEdge, Visit
  <2>2. PICK w \in todo[Current] : todo' = [todo EXCEPT ![Current] = @ \ {w}]
      BY <1>4 DEF VisitEdge
  <2>3. Current \in V /\ w \in V
      BY <1>1, <2>1, <2>2, TopLemma DEF Current
  <2>4. /\ todo'[Current] = todo[Current] \ {w}
        /\ \A v \in V : todo'[v] \subseteq todo[v]
      BY <1>1, <2>2, <2>3
  <2>5. /\ Followed = {e \in V \X V : e[2] \notin todo[e[1]]}
        /\ Followed' = {e \in V \X V : e[2] \notin todo'[e[1]]}
      BY <2>1 DEF Followed, V
  <2>6. \A e \in V \X V : e[1] \in V
      OBVIOUS
  <2>7. Followed \subseteq Followed'
      BY <2>4, <2>5, <2>6
  <2>8. <<Current, w>> \in Followed' /\ <<Current, w>> \notin Followed
      BY <2>3, <2>4, <2>5
  <2>9. Begun \subseteq Begun' /\ Passed' = Passed
      BY <2>1 DEF Begun, Passed
  <2>10. QED
      BY <1>2, <2>1, <2>7, <2>8, <2>9
<1>5. CASE CompleteVisit
  <2>1. /\ calls # << >> /\ UNCHANGED <<graph, todo, next>>
        /\ active' = active \ {Current}
        /\ complete' = complete \cup {Current}
      BY <1>5 DEF CompleteVisit
  <2>2. Current \in active
    <3>1. Len(calls) \in 1 .. Len(calls)
        BY <1>1, <2>1, TopLemma
    <3>2. QED
        BY <3>1 DEF SortInv, FlagsOK, Current
  <2>3. Current \notin complete
      BY <2>2 DEF SortInv, FlagsOK
  <2>4. Begun' = Begun /\ Followed' = Followed /\ Passed' = Passed
      BY <2>1, <2>2 DEF Begun, Followed, Passed
  <2>5. QED
      BY <1>2, <2>1, <2>3, <2>4
<1>6. CASE ReturnOk
    BY <1>6 DEF ReturnOk, Begun, Followed, Passed, Pending, Ok
<1>7. QED
    BY <1>2, <1>3, <1>4, <1>5, <1>6 DEF SortNext, SortStep, Returned

\* No step of visit or of its outer loop is taken twice (graph.rs:37-58).
THEOREM SortOnlyAdvances == SortSpec => SortAdvances
<1>1. SortInv /\ [SortNext]_sortVars =>
        [result' = Pending =>
           /\ Begun \subseteq Begun' /\ Followed \subseteq Followed'
           /\ complete \subseteq complete' /\ Passed \subseteq Passed'
           /\ <<Begun, Followed, complete, Passed>>'
                 # <<Begun, Followed, complete, Passed>>]_sortVars
    BY SortStepAdvances
<1>2. QED
    BY <1>1, SortInvariant, PTL DEF SortSpec, SortAdvances

\* There are finitely many to take: at most three for each vertex, one for each
\* edge and a last one are left, and each step leaves fewer, so that the recursion
\* ends on every graph (graph.rs:37-58).
THEOREM SortEnds == SortSpec => SortRunsOut
<1>1. SortInv =>
        SortLeft \in 0 .. 3 * Cardinality(V) + Cardinality(Edges(graph)) + 1
  <2> SUFFICES ASSUME SortInv
               PROVE  SortLeft \in 0 .. 3 * Cardinality(V) + Cardinality(Edges(graph)) + 1
      OBVIOUS
  <2>1. IsFiniteSet(V) /\ IsFiniteSet(V \X V)
      BY FS_Product DEF SortInv, SortTypeOK, IsDirectedGraph, V
  <2>2. /\ Cardinality(V) \in Nat
        /\ Cardinality(V \ Begun) \in 0 .. Cardinality(V)
        /\ Cardinality(V \ complete) \in 0 .. Cardinality(V)
        /\ Cardinality(V \ Passed) \in 0 .. Cardinality(V)
    <3>1. V \ Begun \in SUBSET V /\ V \ complete \in SUBSET V /\ V \ Passed \in SUBSET V
        OBVIOUS
    <3>2. QED
        BY <2>1, <3>1, FS_Subset, FS_CardinalityType
  <2>3. (V \X V) \ Followed \in SUBSET Edges(graph) /\ IsFiniteSet(Edges(graph))
    <3>1. Edges(graph) \in SUBSET (V \X V)
        BY DEF Edges, V
    <3>2. ASSUME NEW e \in V \X V, e \notin Followed PROVE e[2] \in graph[e[1]]
        BY <3>2 DEF Followed, SortInv, TodoOK, V
    <3>3. QED
        BY <2>1, <3>1, <3>2, FS_Subset DEF Edges, V
  <2>4. Cardinality((V \X V) \ Followed) \in 0 .. Cardinality(Edges(graph))
      BY <2>3, FS_Subset, FS_CardinalityType
  <2>5. QED
      BY <2>2, <2>3, <2>4, FS_CardinalityType DEF SortLeft, V
<1>2. SortInv /\ SortInv' /\ [SortNext]_sortVars => [SortLeft' < SortLeft]_sortVars
  <2> SUFFICES ASSUME SortInv, SortInv', SortNext, sortVars' # sortVars
               PROVE  SortLeft' < SortLeft
      OBVIOUS
  <2>1. IsFiniteSet(V) /\ IsFiniteSet(V \X V)
      BY FS_Product DEF SortInv, SortTypeOK, IsDirectedGraph, V
  <2>2. /\ Begun \subseteq Begun' /\ Followed \subseteq Followed'
        /\ complete \subseteq complete' /\ Passed \subseteq Passed'
        /\ graph' = graph /\ result = Pending
      BY SortStepAdvances
  <2>3. \/ Begun # Begun' \/ Followed # Followed'
        \/ complete # complete' \/ Passed # Passed' \/ result' # Pending
      BY SortStepAdvances
  <2>4. /\ Begun' \subseteq V /\ Followed' \subseteq V \X V
        /\ complete' \subseteq V /\ Passed' \subseteq V
      BY <2>2 DEF Begun, Followed, Passed, V, SortInv, SortTypeOK
  <2> DEFINE b == Cardinality(V \ Begun)              c == Cardinality(V \ Begun')
             f == Cardinality((V \X V) \ Followed)     h == Cardinality((V \X V) \ Followed')
             m == Cardinality(V \ complete)           n == Cardinality(V \ complete')
             p == Cardinality(V \ Passed)             q == Cardinality(V \ Passed')
             y == IF result' = Pending THEN 1 ELSE 0
  <2>5. b \in Nat /\ c \in Nat /\ c <= b /\ (Begun # Begun' => c < b)
      BY <2>1, <2>2, <2>4, LessLeft
  <2>6. f \in Nat /\ h \in Nat /\ h <= f /\ (Followed # Followed' => h < f)
      BY <2>1, <2>2, <2>4, LessLeft
  <2>7. m \in Nat /\ n \in Nat /\ n <= m /\ (complete # complete' => n < m)
      BY <2>1, <2>2, <2>4, LessLeft
  <2>8. p \in Nat /\ q \in Nat /\ q <= p /\ (Passed # Passed' => q < p)
      BY <2>1, <2>2, <2>4, LessLeft
  <2>9. y \in 0 .. 1 /\ (result' # Pending => y = 0)
      OBVIOUS
  <2>10. SortLeft = b + f + m + p + 1 /\ SortLeft' = c + h + n + q + y
      BY <2>2 DEF SortLeft, V
  <2> HIDE DEF b, c, f, h, m, n, p, q, y
  <2>11. QED
      BY <2>3, <2>5, <2>6, <2>7, <2>8, <2>9, <2>10
<1>3. QED
    BY <1>1, <1>2, SortInvariant, PTL DEF SortSpec, SortRunsOut, V

=============================================================================
