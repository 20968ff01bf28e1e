---------------------------- MODULE TarjanProofs ----------------------------
(***************************************************************************)
(* Whatever the graph and the order of its edges, the component search     *)
(* outputs a partition of the vertices.                                    *)
(*                                                                         *)
(* Vertex numbers in the place of discovery times make the components      *)
(* wrong, yet one thing they cannot break: the outer loop starts a search  *)
(* at the least vertex not visited, so no lowlink of that search is less   *)
(* than the number of its root, and the root takes the rest of the stack   *)
(* with it.                                                                *)
(*                                                                         *)
(* When the numbers happen to be the order of discovery the answer is      *)
(* right: the second half of the module.                                   *)
(***************************************************************************)
EXTENDS Tarjan, Lemmas, FiniteSetTheorems

V == Vertices(graph)

\* The search starts at the bottom of the stack, and its calls are distinct.
StackOK ==
    /\ calls = << >> => stack = << >>
    /\ calls # << >> => stack # << >> /\ stack[1] = calls[1]
    /\ \A i \in 1 .. Len(calls) : Visited(calls[i])
    /\ \A i, j \in 1 .. Len(calls) : calls[i] = calls[j] => i = j

\* What is not visited yet has its own number for a lowlink, and no vertex a
\* greater one.
LowlinksOK ==
    /\ \A v \in V : ~Visited(v) => lowlink[v] = v
    /\ \A v \in V : lowlink[v] <= v

\* No number and no lowlink the search can meet is less than that of its root.
RootIsLeast ==
    calls # << >> =>
        /\ \A v \in V : ~Visited(v) => calls[1] <= v
        /\ \A k \in 1 .. Len(stack) : calls[1] <= stack[k]
        /\ \A i \in 1 .. Len(calls) : calls[1] <= lowlink[calls[i]]

TarjanInv ==
    /\ TarjanTypeOK
    /\ EachVertexInOnePlace
    /\ StackOK
    /\ LowlinksOK
    /\ RootIsLeast

-----------------------------------------------------------------------------

\* The type invariant with its definitions expanded.
LEMMA TypeLemma ==
    ASSUME TarjanTypeOK
    PROVE  /\ V \subseteq Nat
           /\ graph \in [V -> SUBSET V] /\ todo \in [V -> SUBSET V]
           /\ lowlink \in [V -> Nat]
           /\ discovered \in Seq(V) /\ stack \in Seq(V) /\ calls \in Seq(V)
           /\ components \in Seq(SUBSET V)
<1>1. IsFiniteSet(V) /\ V = 0 .. Cardinality(V) - 1 /\ graph \in [V -> SUBSET V]
    BY DEF TarjanTypeOK, IsDirectedGraph, V
<1>2. Cardinality(V) \in Nat
    BY <1>1, FS_CardinalityType
<1>3. V \subseteq Nat
    BY <1>1, <1>2
<1>4. QED
    BY <1>1, <1>3 DEF TarjanTypeOK, V

\* Nothing has been visited in an initial state.
LEMMA TarjanInvInit == TarjanInit => TarjanInv
<1> SUFFICES ASSUME TarjanInit PROVE TarjanInv
    OBVIOUS
<1>1. IsDirectedGraph(graph)
    BY GraphsAssumption DEF TarjanInit
<1>2. graph \in [V -> SUBSET V]
    BY <1>1 DEF IsDirectedGraph, V
<1>3. Len(discovered) = 0 /\ Len(stack) = 0 /\ Len(calls) = 0 /\ Len(components) = 0
    BY DEF TarjanInit
<1>4. V \subseteq Nat
  <2>1. Cardinality(V) \in Nat
      BY <1>1, FS_CardinalityType DEF IsDirectedGraph, V
  <2>2. QED
      BY <1>1, <2>1 DEF IsDirectedGraph, V
<1>5. lowlink = [v \in V |-> v]
    BY DEF TarjanInit, Index, V
<1>6. TarjanTypeOK
    BY <1>1, <1>2, <1>4, <1>5 DEF TarjanInit, TarjanTypeOK, V
<1>7. EachVertexInOnePlace
    BY <1>3 DEF EachVertexInOnePlace, Visited, OnStack, Emitted, InSeq
<1>8. StackOK
    BY <1>3 DEF TarjanInit, StackOK
<1>9. LowlinksOK
    BY <1>4, <1>5 DEF LowlinksOK
<1>10. RootIsLeast
    BY DEF TarjanInit, RootIsLeast
<1>11. QED
    BY <1>6, <1>7, <1>8, <1>9, <1>10 DEF TarjanInv

\* Nor has anything when a caller starts the algorithm on a graph.
LEMMA TarjanInvStart ==
    ASSUME NEW g, IsDirectedGraph(g), StartOn(g)
    PROVE  TarjanInv'
<1>1. /\ graph' = g /\ V' = DOMAIN g
      /\ discovered' = << >> /\ stack' = << >> /\ calls' = << >> /\ components' = << >>
      /\ todo' = g /\ lowlink' = [v \in DOMAIN g |-> v]
    BY DEF StartOn, Index, V, Vertices
<1>2. g \in [DOMAIN g -> SUBSET DOMAIN g] /\ DOMAIN g \subseteq Nat
  <2>1. Cardinality(DOMAIN g) \in Nat
      BY FS_CardinalityType DEF IsDirectedGraph, Vertices
  <2>2. QED
      BY <2>1 DEF IsDirectedGraph, Vertices
<1>3. Len(discovered') = 0 /\ Len(stack') = 0 /\ Len(calls') = 0 /\ Len(components') = 0
    BY <1>1
<1>4. TarjanTypeOK'
    BY <1>1, <1>2 DEF TarjanTypeOK, V, Vertices
<1>5. EachVertexInOnePlace'
    BY <1>3 DEF EachVertexInOnePlace, Visited, OnStack, Emitted, InSeq
<1>6. StackOK'
    BY <1>1, <1>3 DEF StackOK
<1>7. LowlinksOK'
    BY <1>1, <1>2 DEF LowlinksOK
<1>8. RootIsLeast'
    BY <1>1 DEF RootIsLeast
<1>9. QED
    BY <1>4, <1>5, <1>6, <1>7, <1>8 DEF TarjanInv

-----------------------------------------------------------------------------

\* Entering a vertex puts it, and nothing else, on the stack.
LEMMA EnterLemma ==
    ASSUME TarjanInv, NEW w \in V, ~Visited(w), Enter(w),
           UNCHANGED <<graph, lowlink, components>>
    PROVE  /\ discovered' \in Seq(V) /\ stack' \in Seq(V) /\ calls' \in Seq(V)
           /\ calls' # << >> /\ stack' # << >>
           /\ Len(calls) \in Nat /\ Len(calls') = Len(calls) + 1
           /\ \A i \in 1 .. Len(calls) : calls'[i] = calls[i]
           /\ calls'[Len(calls) + 1] = w
           /\ Len(stack) \in Nat /\ Len(stack') = Len(stack) + 1
           /\ \A i \in 1 .. Len(stack) : stack'[i] = stack[i]
           /\ stack'[Len(stack) + 1] = w
           /\ \A v : Visited(v)' <=> Visited(v) \/ v = w
           /\ EachVertexInOnePlace'
<1>1. /\ discovered \in Seq(V) /\ stack \in Seq(V) /\ calls \in Seq(V)
      /\ discovered' = Append(discovered, w)
      /\ stack' = Append(stack, w)
      /\ calls' = Append(calls, w)
      /\ components' = components
      /\ V' = V
    BY TypeLemma DEF TarjanInv, Enter, V
<1>2. /\ discovered' \in Seq(V)
      /\ Len(discovered) \in Nat /\ Len(discovered') = Len(discovered) + 1
      /\ \A i \in 1 .. Len(discovered) : discovered'[i] = discovered[i]
      /\ discovered'[Len(discovered) + 1] = w
    BY <1>1, PushLemma
<1>3. /\ stack' \in Seq(V) /\ stack' # << >>
      /\ Len(stack) \in Nat /\ Len(stack') = Len(stack) + 1
      /\ \A i \in 1 .. Len(stack) : stack'[i] = stack[i]
      /\ stack'[Len(stack) + 1] = w
    BY <1>1, PushLemma
<1>4. /\ calls' \in Seq(V) /\ calls' # << >>
      /\ Len(calls) \in Nat /\ Len(calls') = Len(calls) + 1
      /\ \A i \in 1 .. Len(calls) : calls'[i] = calls[i]
      /\ calls'[Len(calls) + 1] = w
    BY <1>1, PushLemma
<1>5. \A v : Visited(v)' <=> Visited(v) \/ v = w
    BY <1>2 DEF Visited, InSeq
<1>6. \A v : OnStack(v)' <=> OnStack(v) \/ v = w
    BY <1>3 DEF OnStack, InSeq
<1>7. Emitted' = Emitted
    BY <1>1 DEF Emitted
<1>8. ~OnStack(w) /\ w \notin Emitted
    BY DEF TarjanInv, EachVertexInOnePlace, V
<1>9. EachVertexInOnePlace'
  <2>1. \A v \in V' : Visited(v)' <=> (OnStack(v) \/ v \in Emitted)'
      BY <1>1, <1>5, <1>6, <1>7 DEF TarjanInv, EachVertexInOnePlace, V
  <2>2. \A i \in 1 .. Len(stack) : stack[i] # w
      BY <1>8 DEF OnStack, InSeq
  <2>3. \A i, j \in 1 .. Len(stack') : i # j => stack'[i] # stack'[j]
      BY <1>3, <2>2 DEF TarjanInv, EachVertexInOnePlace
  <2>4. \A i \in 1 .. Len(components) : w \notin components[i]
      BY <1>8 DEF Emitted
  <2>5. \A i \in 1 .. Len(components) : \A k \in 1 .. Len(stack') :
            stack'[k] \notin components[i]
      BY <1>3, <2>4 DEF TarjanInv, EachVertexInOnePlace
  <2>6. QED
      BY <1>1, <2>1, <2>3, <2>5 DEF TarjanInv, EachVertexInOnePlace, V
<1>10. QED
    BY <1>2, <1>3, <1>4, <1>5, <1>9

\* The outer loop starts at the least vertex that is not visited.
LEMMA StartRootKeepsInv ==
    ASSUME TarjanInv, StartRoot
    PROVE  TarjanInv'
<1>1. PICK r \in V : /\ ~Visited(r)
                     /\ \A u \in V : ~Visited(u) => r <= u
                     /\ Enter(r)
    BY DEF StartRoot, V
<1>2. /\ calls = << >> /\ stack = << >> /\ Len(calls) = 0 /\ Len(stack) = 0
      /\ UNCHANGED <<graph, lowlink, todo, components>>
      /\ V' = V
    BY DEF StartRoot, TarjanInv, StackOK, V
<1>3. /\ V \subseteq Nat /\ lowlink \in [V -> Nat] /\ todo \in [V -> SUBSET V]
      /\ components \in Seq(SUBSET V)
    BY TypeLemma DEF TarjanInv
<1>4. /\ discovered' \in Seq(V) /\ stack' \in Seq(V) /\ calls' \in Seq(V)
      /\ calls' # << >> /\ stack' # << >>
      /\ Len(calls') = 1 /\ calls'[1] = r
      /\ Len(stack') = 1 /\ stack'[1] = r
      /\ \A v : Visited(v)' <=> Visited(v) \/ v = r
      /\ EachVertexInOnePlace'
    BY <1>1, <1>2, EnterLemma
<1>5. TarjanTypeOK'
    BY <1>2, <1>3, <1>4 DEF TarjanInv, TarjanTypeOK, V
<1>6. StackOK'
    BY <1>4 DEF StackOK
<1>7. LowlinksOK'
    BY <1>2, <1>4 DEF TarjanInv, LowlinksOK
<1>8. RootIsLeast'
  <2>1. lowlink[r] = r
      BY <1>1 DEF TarjanInv, LowlinksOK
  <2>2. QED
      BY <1>1, <1>2, <1>3, <1>4, <2>1 DEF RootIsLeast
<1>9. QED
    BY <1>4, <1>5, <1>6, <1>7, <1>8 DEF TarjanInv

\* The search goes on at a vertex that was not visited, hence not less than
\* its root.
LEMMA RecurseKeepsInv ==
    ASSUME TarjanInv, Recurse
    PROVE  TarjanInv'
<1>1. /\ V \subseteq Nat /\ lowlink \in [V -> Nat] /\ todo \in [V -> SUBSET V]
      /\ components \in Seq(SUBSET V) /\ calls \in Seq(V) /\ stack \in Seq(V)
    BY TypeLemma DEF TarjanInv
<1>2. /\ calls # << >>
      /\ UNCHANGED <<graph, lowlink, components>>
      /\ V' = V
    BY DEF Recurse, V
<1>3. Current \in V /\ Len(calls) \in Nat \ {0} /\ calls[1] \in V
    BY <1>1, <1>2, TopLemma DEF Current
<1>4. PICK w \in todo[Current] : /\ ~Visited(w) /\ Enter(w)
                                 /\ todo' = [todo EXCEPT ![Current] = @ \ {w}]
    BY DEF Recurse
<1>5. w \in V /\ todo' \in [V -> SUBSET V]
    BY <1>1, <1>3, <1>4
<1>6. /\ discovered' \in Seq(V) /\ stack' \in Seq(V) /\ calls' \in Seq(V)
      /\ calls' # << >> /\ stack' # << >>
      /\ Len(calls') = Len(calls) + 1
      /\ \A i \in 1 .. Len(calls) : calls'[i] = calls[i]
      /\ calls'[Len(calls) + 1] = w
      /\ Len(stack) \in Nat /\ Len(stack') = Len(stack) + 1
      /\ \A i \in 1 .. Len(stack) : stack'[i] = stack[i]
      /\ stack'[Len(stack) + 1] = w
      /\ \A v : Visited(v)' <=> Visited(v) \/ v = w
      /\ EachVertexInOnePlace'
    BY <1>2, <1>4, <1>5, EnterLemma
<1>7. stack # << >> /\ Len(stack) \in Nat \ {0}
    BY <1>1, <1>2, TopLemma DEF TarjanInv, StackOK
<1>8. calls'[1] = calls[1] /\ stack'[1] = stack[1]
    BY <1>3, <1>6, <1>7
<1>9. TarjanTypeOK'
    BY <1>1, <1>2, <1>5, <1>6 DEF TarjanInv, TarjanTypeOK, V
<1>10. StackOK'
  <2>1. \A i \in 1 .. Len(calls) : calls[i] # w
      BY <1>4 DEF TarjanInv, StackOK
  <2>2. \A i \in 1 .. Len(calls') : Visited(calls[i])'
      BY <1>3, <1>6 DEF TarjanInv, StackOK
  <2>3. \A i, j \in 1 .. Len(calls') : calls'[i] = calls'[j] => i = j
      BY <1>3, <1>6, <2>1 DEF TarjanInv, StackOK
  <2>4. calls'[1] = stack'[1]
      BY <1>2, <1>8 DEF TarjanInv, StackOK
  <2>5. QED
      BY <1>6, <2>2, <2>3, <2>4 DEF StackOK
<1>11. LowlinksOK'
    BY <1>2, <1>6 DEF TarjanInv, LowlinksOK
<1>12. RootIsLeast'
  <2>1. calls[1] <= w /\ lowlink[w] = w
      BY <1>2, <1>4, <1>5 DEF TarjanInv, RootIsLeast, LowlinksOK
  <2>2. \A v \in V : ~Visited(v)' => calls'[1] <= v
      BY <1>2, <1>6, <1>8 DEF TarjanInv, RootIsLeast
  <2>3. \A k \in 1 .. Len(stack') : calls'[1] <= stack'[k]
      BY <1>2, <1>6, <1>8, <2>1 DEF TarjanInv, RootIsLeast
  <2>4. \A i \in 1 .. Len(calls') : calls'[1] <= lowlink'[calls'[i]]
      BY <1>2, <1>3, <1>6, <1>8, <2>1 DEF TarjanInv, RootIsLeast
  <2>5. QED
      BY <1>2, <2>2, <2>3, <2>4 DEF RootIsLeast
<1>13. QED
    BY <1>6, <1>9, <1>10, <1>11, <1>12 DEF TarjanInv

\* A followed edge lowers the lowlink of the innermost call, but not below the
\* root: what is on the stack is not less than the root.
LEMMA SkipEdgeKeepsInv ==
    ASSUME TarjanInv, SkipEdge
    PROVE  TarjanInv'
<1>1. /\ V \subseteq Nat /\ lowlink \in [V -> Nat] /\ todo \in [V -> SUBSET V]
      /\ calls \in Seq(V) /\ stack \in Seq(V)
    BY TypeLemma DEF TarjanInv
<1>2. /\ calls # << >>
      /\ UNCHANGED <<graph, discovered, stack, calls, components>>
      /\ V' = V
    BY DEF SkipEdge, V
<1>3. /\ Current \in V /\ Current = calls[Len(calls)]
      /\ Len(calls) \in 1 .. Len(calls) /\ calls[1] \in V
    BY <1>1, <1>2, TopLemma DEF Current
<1>4. PICK w \in todo[Current] :
          /\ lowlink' = IF OnStack(w)
                        THEN [lowlink EXCEPT ![Current] = Lesser(@, Index(w))]
                        ELSE lowlink
          /\ todo' = [todo EXCEPT ![Current] = @ \ {w}]
    BY DEF SkipEdge
<1>5. w \in V /\ todo' \in [V -> SUBSET V]
    BY <1>1, <1>3, <1>4
<1>6. /\ lowlink' \in [V -> Nat]
      /\ \A v \in V : v # Current => lowlink'[v] = lowlink[v]
      /\ \/ lowlink'[Current] = lowlink[Current]
         \/ lowlink'[Current] = w /\ OnStack(w) /\ w <= lowlink[Current]
    BY <1>1, <1>3, <1>4, <1>5 DEF Lesser, Index
<1>7. TarjanTypeOK'
  <2>1. /\ graph' = graph /\ V' = V /\ discovered' = discovered
        /\ stack' = stack /\ calls' = calls /\ components' = components
      BY <1>2 DEF V
  <2>2. /\ discovered \in Seq(V) /\ stack \in Seq(V) /\ calls \in Seq(V)
        /\ components \in Seq(SUBSET V) /\ IsDirectedGraph(graph)
      BY DEF TarjanInv, TarjanTypeOK, V
  <2>3. QED
      BY <1>5, <1>6, <2>1, <2>2 DEF TarjanTypeOK, V
<1>8. EachVertexInOnePlace' /\ StackOK'
  <2>1. EachVertexInOnePlace'
      BY SMTT(30), <1>2 DEF TarjanInv, EachVertexInOnePlace, Visited, OnStack, Emitted, InSeq
  <2>2. StackOK'
      BY <1>2 DEF TarjanInv, StackOK, Visited, InSeq
  <2>3. QED
      BY <2>1, <2>2
<1>9. LowlinksOK'
  <2>1. Visited(Current)
      BY <1>3 DEF TarjanInv, StackOK
  <2>2. \A v : Visited(v)' <=> Visited(v)
      BY <1>2 DEF Visited, InSeq
  <2>3. \A v \in V : lowlink'[v] <= lowlink[v]
      BY <1>1, <1>3, <1>5, <1>6
  <2>4. \A v \in V : lowlink'[v] <= v
      BY <1>1, <1>6, <2>3 DEF TarjanInv, LowlinksOK
  <2>5. QED
      BY <1>2, <1>6, <2>1, <2>2, <2>4 DEF TarjanInv, LowlinksOK
<1>10. RootIsLeast'
  <2>1. \A v : Visited(v)' <=> Visited(v)
      BY <1>2 DEF Visited, InSeq
  <2>2. OnStack(w) => calls[1] <= w
      BY <1>2 DEF TarjanInv, RootIsLeast, OnStack, InSeq
  <2>3. calls[1] <= lowlink[Current]
      BY <1>2, <1>3 DEF TarjanInv, RootIsLeast
  <2>4. calls[1] <= lowlink'[Current]
      BY <1>6, <2>2, <2>3
  <2>5. ASSUME NEW i \in 1 .. Len(calls) PROVE calls[1] <= lowlink'[calls[i]]
    <3>1. calls[i] \in V
        BY <1>1
    <3>2. calls[1] <= lowlink[calls[i]]
        BY <1>2 DEF TarjanInv, RootIsLeast
    <3>3. QED
        BY <1>6, <2>4, <3>1, <3>2
  <2>6. QED
      BY <1>2, <2>1, <2>5 DEF TarjanInv, RootIsLeast
<1>11. QED
    BY <1>7, <1>8, <1>9, <1>10 DEF TarjanInv

-----------------------------------------------------------------------------

\* Lowering one value of a function lowers no other.
LEMMA LowerLemma ==
    ASSUME NEW S, NEW f \in [S -> Nat], NEW x \in S, NEW m \in Nat,
           NEW g, g = [f EXCEPT ![x] = Lesser(@, m)]
    PROVE  /\ g \in [S -> Nat]
           /\ \A v \in S : g[v] <= f[v]
           /\ \A v \in S : \/ g[v] = f[v]
                           \/ v = x /\ g[v] = m
<1>1. \A v \in S : f[v] \in Nat
    OBVIOUS
<1>2. Lesser(f[x], m) \in Nat /\ Lesser(f[x], m) <= f[x] /\ Lesser(f[x], m) \in {f[x], m}
    BY <1>1 DEF Lesser
<1>3. g \in [S -> Nat]
    BY <1>2
<1>4. g[x] = Lesser(f[x], m) /\ \A v \in S : v # x => g[v] = f[v]
    OBVIOUS
<1>5. \A v \in S : g[v] <= f[v]
    BY <1>1, <1>2, <1>4
<1>6. \A v \in S : \/ g[v] = f[v]
                   \/ v = x /\ g[v] = m
    BY <1>2, <1>4
<1>7. QED
    BY <1>3, <1>5, <1>6

\* What is below the top of a stack is in it.
LEMMA InnerIndex ==
    ASSUME NEW n \in Nat \ {0}
    PROVE  /\ \A i \in 1 .. n - 1 : i \in 1 .. n
           /\ n # 1 => /\ n - 1 \in 1 .. n
                       /\ n - 1 \in 1 .. n - 1
                       /\ 1 \in 1 .. n - 1
    OBVIOUS

\* Popping a component moves vertices from the stack to the output.
LEMMA PopLemma ==
    ASSUME TarjanInv, NEW v \in V, PopComponent(v), UNCHANGED <<graph, discovered>>
    PROVE  /\ stack' \in Seq(V) /\ components' \in Seq(SUBSET V)
           /\ EachVertexInOnePlace'
           /\ Len(stack') \in 0 .. Len(stack)
           /\ \A i \in 1 .. Len(stack') : stack'[i] = stack[i]
           /\ stack' # stack => stack[Len(stack') + 1] = v /\ lowlink[v] = v
<1>1. /\ stack \in Seq(V) /\ components \in Seq(SUBSET V)
      /\ Len(stack) \in Nat /\ Len(components) \in Nat
      /\ V' = V
    BY TypeLemma DEF TarjanInv, V
<1>2. CASE lowlink[v] # Index(v)
  <2>1. UNCHANGED <<stack, components>>
      BY <1>2 DEF PopComponent
  <2>2. EachVertexInOnePlace'
      BY <2>1 DEF TarjanInv, EachVertexInOnePlace, Visited, OnStack, Emitted, InSeq, V
  <2>3. QED
      BY <1>1, <2>1, <2>2
<1>3. CASE lowlink[v] = Index(v)
  <2>1. PICK k \in 1 .. Len(stack) :
            /\ stack[k] = v
            /\ stack' = SubSeq(stack, 1, k - 1)
            /\ components' = Append(components, {stack[i] : i \in k .. Len(stack)})
      BY <1>3 DEF PopComponent
  <2> DEFINE c == {stack[i] : i \in k .. Len(stack)}
             m == Len(components)
  <2>2. k - 1 \in 0 .. Len(stack) /\ k \in k .. Len(stack)
      BY <1>1
  <2>3. /\ stack' \in Seq(V) /\ Len(stack') = k - 1
        /\ \A i \in 1 .. k - 1 : stack'[i] = stack[i]
      BY <1>1, <2>1, <2>2, PrefixLemma
  <2>4. c \in SUBSET V
      BY <1>1
  <2>5. /\ components' \in Seq(SUBSET V)
        /\ Len(components') = m + 1
        /\ \A i \in 1 .. m : components'[i] = components[i]
        /\ components'[m + 1] = c
      BY <1>1, <2>1, <2>4, PushLemma
  <2>6. \A i \in 1 .. Len(stack) : i \in 1 .. k - 1 \/ i \in k .. Len(stack)
      BY <1>1
  <2>7. \A i \in 1 .. k - 1 : i \in 1 .. Len(stack) /\ i \notin k .. Len(stack)
      BY <1>1
  <2>8. \A i \in k .. Len(stack) : i \in 1 .. Len(stack)
      BY <1>1
  <2>9. \A x : OnStack(x) <=> OnStack(x)' \/ x \in c
      BY <2>3, <2>6, <2>7, <2>8 DEF OnStack, InSeq
  <2>10. \A x : x \in Emitted' <=> x \in Emitted \/ x \in c
    <3>1. \A i \in 1 .. m + 1 : i \in 1 .. m \/ i = m + 1
        BY <1>1
    <3>2. m + 1 \in 1 .. m + 1 /\ \A i \in 1 .. m : i \in 1 .. m + 1
        BY <1>1
    <3>3. QED
        BY <2>5, <3>1, <3>2 DEF Emitted
  <2>11. \A x : Visited(x)' <=> Visited(x)
      BY DEF Visited, InSeq
  <2>12. \A x \in V : Visited(x)' <=> (OnStack(x) \/ x \in Emitted)'
      BY <2>9, <2>10, <2>11 DEF TarjanInv, EachVertexInOnePlace, V
  <2>13. \A i, j \in 1 .. Len(stack') : i # j => stack'[i] # stack'[j]
      BY <2>3, <2>7 DEF TarjanInv, EachVertexInOnePlace
  <2>14. \A i \in 1 .. m : components[i] \cap c = {}
      BY <2>8 DEF TarjanInv, EachVertexInOnePlace
  <2>15. \A i \in 1 .. k - 1 : stack[i] \notin c
      BY <2>7, <2>8 DEF TarjanInv, EachVertexInOnePlace
  <2>16. ASSUME NEW i \in 1 .. Len(components')
         PROVE  /\ components'[i] # {}
                /\ \A l \in 1 .. Len(stack') : stack'[l] \notin components'[i]
                /\ \A j \in 1 .. Len(components') :
                      i # j => components'[i] \cap components'[j] = {}
    <3>1. CASE i = m + 1
      <4>1. c # {}
          BY <2>2
      <4>2. \A j \in 1 .. Len(components') : i # j => j \in 1 .. m
          BY <1>1, <2>5, <3>1
      <4>3. QED
          BY <2>3, <2>5, <2>14, <2>15, <3>1, <4>1, <4>2
    <3>2. CASE i # m + 1
      <4>1. i \in 1 .. m
          BY <1>1, <2>5, <3>2
      <4>2. \A j \in 1 .. Len(components') : j = m + 1 \/ j \in 1 .. m
          BY <1>1, <2>5
      <4>3. \A l \in 1 .. Len(stack') : stack'[l] \notin components'[i]
          BY <2>3, <2>5, <2>7, <4>1 DEF TarjanInv, EachVertexInOnePlace
      <4>4. QED
          BY <2>5, <2>14, <4>1, <4>2, <4>3 DEF TarjanInv, EachVertexInOnePlace
    <3>3. QED
        BY <3>1, <3>2
  <2>17. EachVertexInOnePlace'
      BY <1>1, <2>12, <2>13, <2>16 DEF EachVertexInOnePlace, V
  <2>18. QED
      BY <1>1, <1>3, <2>1, <2>2, <2>3, <2>5, <2>17 DEF Index
<1>4. QED
    BY <1>2, <1>3

\* The end of a call: an inner one leaves the root on the stack, the root takes
\* all that is left of the stack with it.
LEMMA ReturnKeepsInv ==
    ASSUME TarjanInv, Return
    PROVE  TarjanInv'
<1> DEFINE n == Len(calls)
           low == IF n = 1 THEN lowlink
                  ELSE [lowlink EXCEPT ![calls[n - 1]] = Lesser(@, lowlink[Current])]
<1>1. /\ calls # << >>
      /\ PopComponent(Current)
      /\ calls' = SubSeq(calls, 1, n - 1)
      /\ lowlink' = low
      /\ UNCHANGED <<graph, discovered, todo>>
      /\ V' = V
    BY DEF Return, V
<1>2. /\ V \subseteq Nat /\ lowlink \in [V -> Nat] /\ todo \in [V -> SUBSET V]
      /\ calls \in Seq(V) /\ stack \in Seq(V) /\ discovered \in Seq(V)
    BY TypeLemma DEF TarjanInv
<1>3. /\ Current \in V /\ Current = calls[n]
      /\ n \in Nat \ {0} /\ n \in 1 .. n /\ n - 1 \in 0 .. n /\ 1 \in 1 .. n
    BY <1>1, <1>2, TopLemma DEF Current
<1>4. /\ stack' \in Seq(V) /\ components' \in Seq(SUBSET V)
      /\ EachVertexInOnePlace'
      /\ Len(stack') \in 0 .. Len(stack)
      /\ \A i \in 1 .. Len(stack') : stack'[i] = stack[i]
      /\ stack' # stack => stack[Len(stack') + 1] = Current /\ lowlink[Current] = Current
    BY <1>1, <1>3, PopLemma
<1>5. /\ calls' \in Seq(V) /\ Len(calls') = n - 1
      /\ \A i \in 1 .. n - 1 : calls'[i] = calls[i] /\ i \in 1 .. n
  <2>1. n - 1 \in 0 .. Len(calls)
      BY <1>3
  <2>2. /\ calls' \in Seq(V) /\ Len(calls') = n - 1
        /\ \A i \in 1 .. n - 1 : calls'[i] = calls[i]
      BY <1>1, <1>2, <2>1, PrefixLemma
  <2>3. \A i \in 1 .. n - 1 : i \in 1 .. n
      BY <1>3, InnerIndex
  <2>4. QED
      BY <2>2, <2>3
<1>6. \A v : Visited(v)' <=> Visited(v)
    BY <1>1 DEF Visited, InSeq
<1>7. /\ stack # << >> /\ Len(stack) \in Nat \ {0}
      /\ stack[1] = calls[1] /\ calls[1] \in V
    BY <1>1, <1>2, <1>3, TopLemma DEF TarjanInv, StackOK
<1>8. /\ lowlink' \in [V -> Nat]
      /\ \A v \in V : lowlink'[v] <= lowlink[v]
      /\ \A v \in V :
            \/ lowlink'[v] = lowlink[v]
            \/ n # 1 /\ v = calls[n - 1] /\ lowlink'[v] = lowlink[Current]
  <2>1. CASE n = 1
    <3>1. lowlink' = lowlink
        BY <1>1, <2>1
    <3>2. lowlink' \in [V -> Nat] /\ \A v \in V : lowlink'[v] = lowlink[v]
        BY <1>2, <3>1
    <3>3. \A v \in V : lowlink'[v] <= lowlink[v]
        BY <1>2, <3>2
    <3>4. QED
        BY <3>2, <3>3
  <2>2. CASE n # 1
    <3>1. n - 1 \in 1 .. Len(calls)
        BY <1>3, <2>2, InnerIndex
    <3>2. calls[n - 1] \in V
        BY <1>2, <3>1
    <3>3. lowlink' = [lowlink EXCEPT ![calls[n - 1]] = Lesser(@, lowlink[Current])]
        BY <1>1, <2>2
    <3>4. lowlink[Current] \in Nat
        BY <1>2, <1>3
    <3>5. PICK x \in V : x = calls[n - 1]
        BY <3>2
    <3>6. PICK m \in Nat : m = lowlink[Current]
        BY <3>4
    <3>7. lowlink' = [lowlink EXCEPT ![x] = Lesser(@, m)]
        BY <3>3, <3>5, <3>6
    <3>8. \A f \in [V -> Nat] : \A g :
             g = [f EXCEPT ![x] = Lesser(@, m)] =>
                 /\ g \in [V -> Nat]
                 /\ \A v \in V : g[v] <= f[v]
                 /\ \A v \in V : g[v] = f[v] \/ (v = x /\ g[v] = m)
        BY LowerLemma
    <3>9. /\ lowlink' \in [V -> Nat]
          /\ \A v \in V : lowlink'[v] <= lowlink[v]
          /\ \A v \in V : lowlink'[v] = lowlink[v] \/ (v = x /\ lowlink'[v] = m)
        BY <1>2, <3>7, <3>8
    <3>10. QED
        BY <2>2, <3>5, <3>6, <3>9
  <2>3. QED
      BY <2>1, <2>2
<1>9. TarjanTypeOK'
    BY <1>1, <1>4, <1>5, <1>8 DEF TarjanInv, TarjanTypeOK, V
<1>10. LowlinksOK'
  <2>1. \A v \in V : ~Visited(v) => lowlink'[v] = lowlink[v]
    <3>1. n # 1 => Visited(calls[n - 1])
      <4>1. n # 1 => n - 1 \in 1 .. Len(calls)
          BY <1>3, InnerIndex
      <4>2. QED
          BY <4>1 DEF TarjanInv, StackOK
    <3>2. QED
        BY <1>8, <3>1
  <2>2. \A v \in V : lowlink'[v] <= v
      BY <1>2, <1>8 DEF TarjanInv, LowlinksOK
  <2>3. QED
      BY <1>1, <1>6, <2>1, <2>2 DEF TarjanInv, LowlinksOK
<1>11. CASE n = 1
  <2>1. Current = calls[1]
      BY <1>3, <1>11
  <2>2. lowlink[Current] = Index(Current)
    <3>1. lowlink[Current] <= Current /\ Current <= lowlink[Current]
        BY <1>1, <1>3, <2>1 DEF TarjanInv, LowlinksOK, RootIsLeast
    <3>2. QED
        BY <1>2, <1>3, <3>1 DEF Index
  <2>3. PICK k \in 1 .. Len(stack) : stack[k] = Current /\ stack' = SubSeq(stack, 1, k - 1)
      BY <1>1, <2>2 DEF PopComponent
  <2>4. k = 1
      BY <1>7, <2>1, <2>3 DEF TarjanInv, EachVertexInOnePlace
  <2>5. stack' = << >> /\ calls' = << >>
    <3>1. SubSeq(stack, 1, 0) = << >> /\ SubSeq(calls, 1, 0) = << >>
        BY SubSeqEmpty
    <3>2. QED
        BY <1>1, <1>11, <2>3, <2>4, <3>1
  <2>6. Len(calls') = 0
      BY <1>5, <1>11
  <2>7. StackOK' /\ RootIsLeast'
      BY <2>5, <2>6 DEF StackOK, RootIsLeast
  <2>8. QED
      BY <1>4, <1>9, <1>10, <2>7 DEF TarjanInv
<1>12. CASE n # 1
  <2>1. /\ n - 1 \in 1 .. n /\ n - 1 \in 1 .. n - 1 /\ 1 \in 1 .. n - 1
        /\ calls' # << >> /\ calls'[1] = calls[1]
    <3>1. n - 1 \in 1 .. n /\ n - 1 \in 1 .. n - 1 /\ 1 \in 1 .. n - 1
        BY <1>3, <1>12, InnerIndex
    <3>2. calls' # << >>
        BY <1>3, <1>5, <1>12
    <3>3. QED
        BY <1>5, <3>1, <3>2
  <2>2. Current # calls[1]
      BY <1>3, <1>12 DEF TarjanInv, StackOK
  <2>3. stack' # << >> /\ stack'[1] = stack[1]
    <3>1. CASE stack' = stack
        BY <1>7, <3>1
    <3>2. CASE stack' # stack
      <4>1. Len(stack') # 0
          BY <1>4, <1>7, <2>2, <3>2
      <4>2. Len(stack') \in Nat /\ 1 \in 1 .. Len(stack')
          BY <1>4, <1>7, <4>1
      <4>3. QED
          BY <1>4, <4>1, <4>2
    <3>3. QED
        BY <3>1, <3>2
  <2>4. StackOK'
    <3>1. \A i \in 1 .. Len(calls') : Visited(calls[i])'
        BY <1>5, <1>6 DEF TarjanInv, StackOK
    <3>2. \A i, j \in 1 .. Len(calls') : calls'[i] = calls'[j] => i = j
        BY <1>5 DEF TarjanInv, StackOK
    <3>3. QED
        BY <1>7, <2>1, <2>3, <3>1, <3>2 DEF StackOK
  <2>5. RootIsLeast'
    <3>1. \A v \in V : ~Visited(v)' => calls'[1] <= v
        BY <1>1, <1>6, <2>1 DEF TarjanInv, RootIsLeast
    <3>2. \A k \in 1 .. Len(stack') : calls'[1] <= stack'[k]
      <4>1. \A k \in 1 .. Len(stack') : k \in 1 .. Len(stack)
          BY <1>4, <1>7
      <4>2. QED
          BY <1>1, <1>4, <2>1, <4>1 DEF TarjanInv, RootIsLeast
    <3>3. calls[1] <= lowlink[Current]
        BY <1>1, <1>3 DEF TarjanInv, RootIsLeast
    <3>4. \A i \in 1 .. n - 1 : calls[i] \in V /\ calls[1] <= lowlink[calls[i]]
        BY <1>1, <1>2, <1>5 DEF TarjanInv, RootIsLeast
    <3>5. \A i \in 1 .. n - 1 : calls[1] <= lowlink'[calls[i]]
        BY <1>8, <3>3, <3>4
    <3>6. \A i \in 1 .. Len(calls') : calls'[1] <= lowlink'[calls'[i]]
        BY <1>5, <2>1, <3>5
    <3>7. QED
        BY <1>1, <3>1, <3>2, <3>6 DEF RootIsLeast
  <2>6. QED
      BY <1>4, <1>9, <1>10, <2>4, <2>5 DEF TarjanInv
<1>13. QED
    BY <1>11, <1>12

\* A step that changes nothing.
LEMMA TarjanStutterKeepsInv ==
    ASSUME TarjanInv, UNCHANGED tarjanVars
    PROVE  TarjanInv'
<1>1. UNCHANGED <<graph, discovered, lowlink, stack, calls, todo, components>>
    BY DEF tarjanVars
<1>2. TarjanTypeOK'
    BY <1>1 DEF TarjanInv, TarjanTypeOK
<1>3. EachVertexInOnePlace'
    BY <1>1 DEF TarjanInv, EachVertexInOnePlace, Visited, OnStack, Emitted, InSeq
<1>4. StackOK' /\ LowlinksOK' /\ RootIsLeast'
    BY <1>1 DEF TarjanInv, StackOK, LowlinksOK, RootIsLeast, Visited, InSeq, V
<1>5. QED
    BY <1>2, <1>3, <1>4 DEF TarjanInv

-----------------------------------------------------------------------------

\* The invariant holds in every reachable state of the component search.
THEOREM TarjanInvariant == TarjanSpec => []TarjanInv
<1>1. TarjanInit => TarjanInv
    BY TarjanInvInit
<1>2. TarjanInv /\ [TarjanNext]_tarjanVars => TarjanInv'
  <2> SUFFICES ASSUME TarjanInv, [TarjanNext]_tarjanVars PROVE TarjanInv'
      OBVIOUS
  <2>1. CASE StartRoot
      BY <2>1, StartRootKeepsInv
  <2>2. CASE Recurse
      BY <2>2, RecurseKeepsInv
  <2>3. CASE SkipEdge
      BY <2>3, SkipEdgeKeepsInv
  <2>4. CASE Return
      BY <2>4, ReturnKeepsInv
  <2>5. CASE UNCHANGED tarjanVars
      BY <2>5, TarjanStutterKeepsInv
  <2>6. QED
      BY <2>1, <2>2, <2>3, <2>4, <2>5 DEF TarjanNext, TarjanStep, Finished
<1>3. QED
    BY <1>1, <1>2, PTL DEF TarjanSpec

\* Every variable keeps its type, on every graph.
THEOREM TarjanTypes == TarjanSpec => []TarjanTypeOK
<1>1. TarjanInv => TarjanTypeOK
    BY DEF TarjanInv
<1>2. QED
    BY <1>1, TarjanInvariant, PTL

\* A visited vertex is on the stack or in one component, and in one place only
\* (graph.rs:130-165).
THEOREM OnePlace == TarjanSpec => []EachVertexInOnePlace
<1>1. TarjanInv => EachVertexInOnePlace
    BY DEF TarjanInv
<1>2. QED
    BY <1>1, TarjanInvariant, PTL

LEMMA PartitionLemma == TarjanInv => NothingLeftBehind
<1> SUFFICES ASSUME TarjanInv PROVE NothingLeftBehind
    OBVIOUS
<1>1. calls = << >> => stack = << >>
    BY DEF TarjanInv, StackOK
<1>2. ASSUME TarjanDone PROVE IsPartition(components, Vertices(graph))
  <2>1. components \in Seq(SUBSET V) /\ DOMAIN components = 1 .. Len(components)
      BY TypeLemma DEF TarjanInv
  <2>2. Len(stack) = 0
      BY <1>1, <1>2 DEF TarjanDone
  <2>3. \A v \in V : v \in Emitted
      BY <1>2, <2>2 DEF TarjanInv, EachVertexInOnePlace, TarjanDone, OnStack, InSeq, V
  <2>4. Emitted = V
      BY <2>1, <2>3 DEF Emitted
  <2>5. QED
      BY <2>1, <2>4 DEF TarjanInv, EachVertexInOnePlace, IsPartition, Emitted, V
<1>3. QED
    BY <1>1, <1>2 DEF NothingLeftBehind

\* The answer is a partition of the vertices, so that codegen compiles every
\* new unit exactly once, however wrong the groups may be
\* (graph.rs:119-166, compiler.rs:242-257).
THEOREM AnswerIsPartition == TarjanSpec => []NothingLeftBehind
    BY TarjanInvariant, PartitionLemma, PTL

\* A component, once output, stays as it is (graph.rs:163).
THEOREM AnswerOnlyGrows == TarjanSpec => ComponentsOnlyGrow
<1> DEFINE Grow == \A i \in 1 .. Len(components) :
                      i <= Len(components') /\ components'[i] = components[i]
<1>1. TarjanInv /\ [TarjanNext]_tarjanVars => [Grow]_components
  <2> SUFFICES ASSUME TarjanInv, [TarjanNext]_tarjanVars, components' # components
               PROVE  Grow
      OBVIOUS
  <2>1. components \in Seq(SUBSET V) /\ stack \in Seq(V)
      BY TypeLemma DEF TarjanInv
  <2>2. PopComponent(Current)
      BY DEF TarjanNext, TarjanStep, Finished, StartRoot, Recurse, SkipEdge, Return, tarjanVars
  <2>3. PICK k \in 1 .. Len(stack) :
            components' = Append(components, {stack[i] : i \in k .. Len(stack)})
      BY <2>2 DEF PopComponent
  <2>4. {stack[i] : i \in k .. Len(stack)} \in SUBSET V
      BY <2>1
  <2>5. QED
      BY <2>1, <2>3, <2>4, PushLemma
<1>2. QED
    BY <1>1, TarjanInvariant, PTL DEF TarjanSpec, ComponentsOnlyGrow

-----------------------------------------------------------------------------
(***************************************************************************)
(* The answer when vertices are discovered in the order of their numbers.  *)
(*                                                                         *)
(* Then the stack ascends: what a call pushes is above it, and greater.  A *)
(* call reaches all that is above it, all that is on the stack reaches     *)
(* some call, and the lowlink of a call is no greater than any vertex on   *)
(* the stack that an edge followed from above the call leads to.  A call   *)
(* that is its own lowlink when it returns is therefore the root of a      *)
(* component, and the top of the stack, down to it, is that component.     *)
(***************************************************************************)

Active(v) == InSeq(v, calls)
Reaches(a, b) == b \in ReachableFrom(a, graph)

\* An edge a call has followed leads to a visited vertex; the edges of a vertex
\* are left to follow before its call and followed after it.
FollowedOK ==
    /\ \A v \in V : todo[v] \subseteq graph[v]
    /\ \A v \in V : ~Visited(v) => todo[v] = graph[v]
    /\ \A v \in V : Visited(v) /\ ~Active(v) => todo[v] = {}
    /\ \A v \in V : \A w \in graph[v] \ todo[v] : Visited(w)

\* Later calls are on greater vertices, and higher vertices on the stack are
\* greater.
AscendingOK ==
    /\ \A i, j \in 1 .. Len(calls) : i < j => calls[i] < calls[j]
    /\ \A i, j \in 1 .. Len(stack) : i < j => stack[i] < stack[j]
    /\ \A a \in V : Active(a) => OnStack(a)

\* A call reaches all that is above it on the stack, and everything on the
\* stack reaches a call below it.
PathsOK ==
    /\ \A a, y \in V : Active(a) /\ OnStack(y) /\ a <= y => Reaches(a, y)
    /\ \A y \in V : OnStack(y) => \E a \in V : Active(a) /\ a <= y /\ Reaches(y, a)

\* a is the innermost call that vertex y belongs to.
Innermost(a, y) ==
    /\ Active(a) /\ a <= y
    /\ ~ \E b \in V : Active(b) /\ a < b /\ b <= y

\* The lowlink of a call is a vertex on the stack that it reaches, and no
\* followed edge of the vertices that belong to it leads lower on the stack.
LowestOK ==
    /\ \A a \in V : Active(a) => OnStack(lowlink[a]) /\ Reaches(a, lowlink[a])
    /\ \A a, y \in V : OnStack(y) /\ Innermost(a, y) =>
          \A w \in graph[y] \ todo[y] : OnStack(w) => lowlink[a] <= w

\* What has been output are strongly connected components, and their edges
\* lead to what was output with them or before.
OutputOK ==
    /\ \A i \in 1 .. Len(components) :
          components[i] \in StronglyConnectedComponents(graph)
    /\ \A i \in 1 .. Len(components) :
          \A a \in components[i] : \A b \in graph[a] :
              \E j \in 1 .. i : b \in components[j]

ExactInv == AscendingOK /\ PathsOK /\ LowestOK /\ OutputOK

-----------------------------------------------------------------------------

\* Entering w, as far as the order of discovery does not matter.
LEMMA EnterSets ==
    ASSUME TarjanInv, NEW w \in V, ~Visited(w), Enter(w),
           UNCHANGED <<graph, lowlink, components>>
    PROVE  /\ \A v : Visited(v)' <=> Visited(v) \/ v = w
           /\ \A v : OnStack(v)' <=> OnStack(v) \/ v = w
           /\ \A v : Active(v)' <=> Active(v) \/ v = w
           /\ \A v : Active(v) \/ OnStack(v) => Visited(v) /\ v \in V
<1>1. /\ Len(calls) \in Nat /\ Len(calls') = Len(calls) + 1
      /\ \A i \in 1 .. Len(calls) : calls'[i] = calls[i]
      /\ calls'[Len(calls) + 1] = w
      /\ Len(stack) \in Nat /\ Len(stack') = Len(stack) + 1
      /\ \A i \in 1 .. Len(stack) : stack'[i] = stack[i]
      /\ stack'[Len(stack) + 1] = w
      /\ \A v : Visited(v)' <=> Visited(v) \/ v = w
    BY EnterLemma
<1>2. \A v : OnStack(v)' <=> OnStack(v) \/ v = w
    BY <1>1 DEF OnStack, InSeq
<1>3. \A v : Active(v)' <=> Active(v) \/ v = w
    BY <1>1 DEF Active, InSeq
<1>4. \A v : Active(v) \/ OnStack(v) => Visited(v) /\ v \in V
  <2>1. calls \in Seq(V) /\ stack \in Seq(V)
      BY TypeLemma DEF TarjanInv
  <2>2. \A v : Active(v) => Visited(v) /\ v \in V
      BY <2>1 DEF Active, InSeq, TarjanInv, StackOK
  <2>3. \A v : OnStack(v) => v \in V
      BY <2>1 DEF OnStack, InSeq
  <2>4. \A v : OnStack(v) => Visited(v)
      BY <2>3 DEF TarjanInv, EachVertexInOnePlace, V
  <2>5. QED
      BY <2>2, <2>3, <2>4
<1>5. QED
    BY <1>1, <1>2, <1>3, <1>4

\* What is on the stack, and what is active, has been visited.
LEMMA PlacesLemma ==
    ASSUME TarjanInv
    PROVE  /\ \A v : Active(v) \/ OnStack(v) => Visited(v) /\ v \in V
           /\ \A v \in Emitted : v \in V /\ ~OnStack(v) /\ Visited(v)
           /\ \A v \in V : Visited(v) => OnStack(v) \/ v \in Emitted
<1>1. calls \in Seq(V) /\ stack \in Seq(V) /\ components \in Seq(SUBSET V)
    BY TypeLemma DEF TarjanInv
<1>2. \A v : Active(v) => Visited(v) /\ v \in V
    BY <1>1 DEF Active, InSeq, TarjanInv, StackOK
<1>3. \A v : OnStack(v) => v \in V
    BY <1>1 DEF OnStack, InSeq
<1>4. \A v \in V : Visited(v) <=> OnStack(v) \/ v \in Emitted
    BY DEF TarjanInv, EachVertexInOnePlace, V
<1>5. \A v \in Emitted : v \in V
    BY <1>1 DEF Emitted
<1>6. \A v \in Emitted : ~OnStack(v)
    BY DEF TarjanInv, EachVertexInOnePlace, Emitted, OnStack, InSeq
<1>7. QED
    BY <1>2, <1>3, <1>4, <1>5, <1>6

\* The innermost call is active, and no call is on a greater vertex.
LEMMA TopCall ==
    ASSUME TarjanInv, calls # << >>
    PROVE  /\ Current \in V /\ Active(Current)
           /\ AscendingOK => \A a : Active(a) => a <= Current
<1>1. calls \in Seq(V) /\ V \subseteq Nat
    BY TypeLemma DEF TarjanInv
<1>2. Len(calls) \in 1 .. Len(calls) /\ Len(calls) \in Nat /\ Current \in V /\ Current = calls[Len(calls)]
    BY <1>1, TopLemma DEF Current
<1>3. Active(Current)
    BY <1>2 DEF Active, InSeq
<1>4. ASSUME AscendingOK, NEW a, Active(a) PROVE a <= Current
  <2>1. PICK i \in 1 .. Len(calls) : calls[i] = a
      BY <1>4 DEF Active, InSeq
  <2>2. i < Len(calls) => a < Current
      BY <1>2, <1>4, <2>1 DEF AscendingOK
  <2>3. calls[i] \in V /\ a \in Nat /\ Current \in Nat
    <3>1. calls[i] \in V
        BY <1>1, <2>1
    <3>2. QED
        BY <1>1, <1>2, <2>1, <3>1
  <2>4. CASE i = Len(calls)
      BY <1>2, <2>1, <2>3, <2>4
  <2>5. CASE i # Len(calls)
      BY <1>2, <2>2, <2>3, <2>5
  <2>6. QED
      BY <2>4, <2>5
<1>5. QED
    BY <1>2, <1>3, <1>4

\* A call that returns is no longer active.
LEMMA ReturnActive ==
    ASSUME TarjanInv, Return
    PROVE  /\ \A v : Active(v)' <=> Active(v) /\ v # Current
           /\ \A v : Visited(v)' <=> Visited(v)
<1>1. /\ calls # << >> /\ calls' = SubSeq(calls, 1, Len(calls) - 1) /\ discovered' = discovered
      /\ calls \in Seq(V)
    BY TypeLemma DEF TarjanInv, Return
<1>2. /\ Len(calls) \in Nat \ {0} /\ Len(calls) \in 1 .. Len(calls)
      /\ Len(calls) - 1 \in 0 .. Len(calls) /\ Current = calls[Len(calls)]
    BY <1>1, TopLemma DEF Current
<1>3. /\ Len(calls') = Len(calls) - 1
      /\ \A i \in 1 .. Len(calls) - 1 : calls'[i] = calls[i]
    BY <1>1, <1>2, PrefixLemma
<1>4. \A i, j \in 1 .. Len(calls) : calls[i] = calls[j] => i = j
    BY DEF TarjanInv, StackOK
<1>5. \A v : Active(v)' <=> Active(v) /\ v # Current
  <2>1. \A i \in 1 .. Len(calls) - 1 : i \in 1 .. Len(calls) /\ calls[i] # Current
      BY <1>2, <1>4
  <2>2. \A i \in 1 .. Len(calls) : i \in 1 .. Len(calls) - 1 \/ calls[i] = Current
      BY <1>2
  <2>3. QED
      BY <1>3, <2>1, <2>2 DEF Active, InSeq
<1>6. QED
    BY <1>1, <1>5 DEF Visited, InSeq

-----------------------------------------------------------------------------

\* Every step keeps the account of the edges.
LEMMA StartRootFollowed ==
    ASSUME TarjanInv, FollowedOK, StartRoot
    PROVE  FollowedOK'
<1>1. PICK r \in V : ~Visited(r) /\ Enter(r) /\ UNCHANGED <<graph, lowlink, todo, components>>
    BY DEF StartRoot, V
<1>2. /\ \A v : Visited(v)' <=> Visited(v) \/ v = r
      /\ \A v : Active(v)' <=> Active(v) \/ v = r
    BY <1>1, EnterSets
<1>3. V' = V /\ graph' = graph /\ todo' = todo
    BY <1>1 DEF V
<1>4. QED
    BY <1>2, <1>3 DEF FollowedOK

LEMMA RecurseFollowed ==
    ASSUME TarjanInv, FollowedOK, Recurse
    PROVE  FollowedOK'
<1>1. /\ calls # << >> /\ Current \in V /\ Active(Current) /\ Visited(Current)
      /\ graph' = graph /\ V' = V /\ todo \in [V -> SUBSET V]
    BY TopCall, PlacesLemma, TypeLemma DEF Recurse, V, TarjanInv
<1>2. PICK w \in todo[Current] : ~Visited(w) /\ Enter(w) /\ todo' = [todo EXCEPT ![Current] = @ \ {w}]
    BY DEF Recurse
<1>3. w \in V
    BY <1>1, <1>2
<1>4. /\ \A v : Visited(v)' <=> Visited(v) \/ v = w
      /\ \A v : Active(v)' <=> Active(v) \/ v = w
    BY <1>2, <1>3, EnterSets DEF Recurse
<1>5. /\ todo'[Current] = todo[Current] \ {w}
      /\ \A v \in V : v # Current => todo'[v] = todo[v]
    BY <1>1, <1>2
<1>6. QED
    BY <1>1, <1>2, <1>4, <1>5 DEF FollowedOK

LEMMA SkipEdgeFollowed ==
    ASSUME TarjanInv, FollowedOK, SkipEdge
    PROVE  FollowedOK'
<1>1. /\ calls # << >> /\ Current \in V /\ Active(Current) /\ Visited(Current)
      /\ graph' = graph /\ V' = V /\ todo \in [V -> SUBSET V]
    BY TopCall, PlacesLemma, TypeLemma DEF SkipEdge, V, TarjanInv
<1>2. PICK w \in todo[Current] : Visited(w) /\ todo' = [todo EXCEPT ![Current] = @ \ {w}]
    BY DEF SkipEdge
<1>3. \A v : (Visited(v)' <=> Visited(v)) /\ (Active(v)' <=> Active(v))
    BY DEF SkipEdge, Visited, Active, InSeq
<1>4. /\ todo'[Current] = todo[Current] \ {w}
      /\ \A v \in V : v # Current => todo'[v] = todo[v]
    BY <1>1, <1>2
<1>5. QED
    BY <1>1, <1>2, <1>3, <1>4 DEF FollowedOK

LEMMA ReturnFollowed ==
    ASSUME TarjanInv, FollowedOK, Return
    PROVE  FollowedOK'
<1>1. graph' = graph /\ V' = V /\ todo' = todo /\ todo[Current] = {}
    BY DEF Return, V
<1>2. /\ \A v : Active(v)' <=> Active(v) /\ v # Current
      /\ \A v : Visited(v)' <=> Visited(v)
    BY ReturnActive
<1>3. QED
    BY <1>1, <1>2 DEF FollowedOK

-----------------------------------------------------------------------------

\* What is visited in order is less than what is visited next.
LEMMA NextIsGreatest ==
    ASSUME TarjanInv, NEW w \in V, discovered' = Append(discovered, w), DiscoveredInOrder'
    PROVE  DiscoveredInOrder /\ \A v : Visited(v) => v < w
<1>1. discovered \in Seq(V)
    BY TypeLemma DEF TarjanInv
<1>2. /\ Len(discovered) \in Nat /\ Len(discovered') = Len(discovered) + 1
      /\ \A i \in 1 .. Len(discovered) : discovered'[i] = discovered[i]
      /\ discovered'[Len(discovered) + 1] = w
    BY <1>1, PushLemma
<1>3. /\ Len(discovered) + 1 \in 1 .. Len(discovered')
      /\ \A i \in 1 .. Len(discovered) : i \in 1 .. Len(discovered') /\ i < Len(discovered) + 1
    BY <1>2
<1>4. DiscoveredInOrder
    BY <1>2, <1>3 DEF DiscoveredInOrder
<1>5. \A v : Visited(v) => v < w
    BY <1>2, <1>3 DEF DiscoveredInOrder, Visited, InSeq
<1>6. QED
    BY <1>4, <1>5

\* Entering a vertex greater than all visited ones, by an edge of the innermost
\* call if there is one, keeps the account of the paths.
LEMMA EnterExact ==
    ASSUME TarjanInv, FollowedOK, ExactInv, DiscoveredInOrder',
           NEW w \in V, ~Visited(w), Enter(w), UNCHANGED <<graph, lowlink, components>>,
           \/ calls = << >> /\ todo' = todo
           \/ /\ calls # << >> /\ w \in todo[Current]
              /\ todo' = [todo EXCEPT ![Current] = @ \ {w}]
    PROVE  ExactInv'
<1>1. /\ V \subseteq Nat /\ V' = V /\ graph' = graph /\ lowlink' = lowlink
      /\ graph \in [V -> SUBSET V] /\ todo \in [V -> SUBSET V] /\ lowlink \in [V -> Nat]
      /\ Vertices(graph) = V
    BY TypeLemma DEF TarjanInv, V
<1>2. /\ \A v : OnStack(v)' <=> OnStack(v) \/ v = w
      /\ \A v : Active(v)' <=> Active(v) \/ v = w
      /\ \A v : Active(v) \/ OnStack(v) => Visited(v) /\ v \in V
    BY EnterSets
<1>3. \A v : Visited(v) => v < w
    BY NextIsGreatest DEF Enter
<1>4. \A a, b : Reaches(a, b)' <=> Reaches(a, b)
    BY <1>1 DEF Reaches
<1>5. \A a : Active(a) => Reaches(a, w)
  <2> SUFFICES ASSUME NEW a, Active(a) PROVE Reaches(a, w)
      OBVIOUS
  <2>1. calls # << >> /\ w \in todo[Current]
      BY DEF Active, InSeq
  <2>2. /\ Active(Current) /\ Current \in V /\ OnStack(Current) /\ a <= Current /\ a \in V
      BY <1>2, <2>1, TopCall DEF ExactInv, AscendingOK
  <2>3. Reaches(a, Current)
      BY <2>2 DEF ExactInv, PathsOK
  <2>4. w \in graph[Current]
      BY <2>1, <2>2 DEF FollowedOK
  <2>5. QED
      BY <1>1, <2>2, <2>3, <2>4, ReachEdge, ReachTrans DEF Reaches
<1>6. Reaches(w, w)
    BY <1>1, ReachSelf DEF Reaches
<1>7. AscendingOK'
  <2>1. /\ Len(calls) \in Nat /\ Len(calls') = Len(calls) + 1
        /\ \A i \in 1 .. Len(calls) : calls'[i] = calls[i]
        /\ calls'[Len(calls) + 1] = w
        /\ Len(stack) \in Nat /\ Len(stack') = Len(stack) + 1
        /\ \A i \in 1 .. Len(stack) : stack'[i] = stack[i]
        /\ stack'[Len(stack) + 1] = w
      BY EnterLemma
  <2>2. /\ \A i \in 1 .. Len(calls) : calls[i] < w
        /\ \A i \in 1 .. Len(stack) : stack[i] < w
      BY <1>2, <1>3 DEF Active, OnStack, InSeq
  <2>3. \A i, j \in 1 .. Len(calls') : i < j =>
            i \in 1 .. Len(calls) /\ (j \in 1 .. Len(calls) \/ j = Len(calls) + 1)
      BY <2>1
  <2>4. \A i, j \in 1 .. Len(calls') : i < j => calls'[i] < calls'[j]
      BY <2>1, <2>2, <2>3 DEF ExactInv, AscendingOK
  <2>5. \A i, j \in 1 .. Len(stack') : i < j =>
            i \in 1 .. Len(stack) /\ (j \in 1 .. Len(stack) \/ j = Len(stack) + 1)
      BY <2>1
  <2>6. \A i, j \in 1 .. Len(stack') : i < j => stack'[i] < stack'[j]
      BY <2>1, <2>2, <2>5 DEF ExactInv, AscendingOK
  <2>7. \A a \in V : Active(a)' => OnStack(a)'
      BY <1>2 DEF ExactInv, AscendingOK
  <2>8. QED
      BY <1>1, <2>4, <2>6, <2>7 DEF AscendingOK
<1>8. PathsOK'
  <2>1. ASSUME NEW a \in V, NEW y \in V, Active(a)', OnStack(y)', a <= y
        PROVE  Reaches(a, y)
    <3>1. CASE y = w
        BY <1>2, <1>5, <1>6, <2>1, <3>1
    <3>2. CASE y # w
      <4>1. OnStack(y) /\ y < w /\ a \in Nat /\ y \in Nat /\ w \in Nat
          BY <1>1, <1>2, <1>3, <2>1, <3>2
      <4>2. a # w
          BY <2>1, <4>1
      <4>3. QED
          BY <1>2, <2>1, <4>1, <4>2 DEF ExactInv, PathsOK
    <3>3. QED
        BY <3>1, <3>2
  <2>2. ASSUME NEW y \in V, OnStack(y)'
        PROVE  \E a \in V : Active(a)' /\ a <= y /\ Reaches(y, a)
    <3>1. CASE y = w
      <4>1. w <= w
          BY <1>1
      <4>2. QED
          BY <1>2, <1>6, <3>1, <4>1
    <3>2. CASE y # w
        BY <1>2, <2>2, <3>2 DEF ExactInv, PathsOK
    <3>3. QED
        BY <3>1, <3>2
  <2>3. QED
      BY <1>1, <1>4, <2>1, <2>2 DEF PathsOK
<1>9. LowestOK'
  <2>1. lowlink[w] = w /\ \A v \in V : lowlink[v] <= v /\ lowlink[v] \in Nat
      BY <1>1 DEF TarjanInv, LowlinksOK
  <2>2. ASSUME NEW a \in V, Active(a)'
        PROVE  /\ (OnStack(lowlink[a]) \/ lowlink[a] = w)
               /\ Reaches(a, lowlink[a])
    <3>1. CASE a = w
        BY <1>6, <2>1, <3>1
    <3>2. CASE a # w
        BY <1>2, <2>2, <3>2 DEF ExactInv, LowestOK
    <3>3. QED
        BY <3>1, <3>2
  <2>3. \A a \in V : Active(a)' => OnStack(lowlink[a])' /\ Reaches(a, lowlink[a])'
    <3>1. \A x : OnStack(x) \/ x = w => InSeq(x, stack')
        BY <1>2 DEF OnStack, InSeq
    <3>2. \A a \in V : Active(a)' => InSeq(lowlink[a], stack')
        BY <2>2, <3>1
    <3>3. \A a \in V : Active(a)' => Reaches(a, lowlink[a])'
        BY <1>1, <2>2 DEF Reaches
    <3>4. QED
        BY <1>1, <3>2, <3>3 DEF OnStack, InSeq
  <2>4. ASSUME NEW a \in V, NEW y \in V, OnStack(y)', Innermost(a, y)',
               NEW x \in graph[y] \ todo'[y], OnStack(x)'
        PROVE  lowlink[a] <= x
    <3>1. x \in V
        BY <1>1
    <3>2. y # w
      <4>1. todo'[w] = graph[w]
        <5>1. todo[w] = graph[w]
            BY DEF FollowedOK
        <5>2. calls # << >> => Current # w
            BY <1>2, TopCall
        <5>3. QED
            BY <1>1, <5>1, <5>2
      <4>2. QED
          BY <2>4, <4>1
    <3>3. OnStack(y) /\ y < w
        BY <1>2, <1>3, <2>4, <3>2
    <3>4. a <= y /\ Active(a)' /\ ~ \E b \in V : Active(b)' /\ a < b /\ b <= y
        BY <1>1, <2>4 DEF Innermost
    <3>5. a # w /\ a \in Nat /\ y \in Nat /\ w \in Nat
        BY <1>1, <3>3, <3>4
    <3>6. Innermost(a, y)
        BY <1>2, <3>4, <3>5 DEF Innermost
    <3>7. CASE x = w
        BY <2>1, <3>3, <3>4, <3>5, <3>7
    <3>8. CASE x # w
      <4>1. OnStack(x)
          BY <1>2, <2>4, <3>8
      <4>2. x \notin todo[y]
          BY <1>1, <2>4, <3>8
      <4>3. QED
          BY <3>3, <3>6, <4>1, <4>2 DEF ExactInv, LowestOK
    <3>9. QED
        BY <3>7, <3>8
  <2>5. \A a, y \in V' : OnStack(y)' /\ Innermost(a, y)' =>
            \A x \in graph'[y] \ todo'[y] : OnStack(x)' => lowlink'[a] <= x
      BY <1>1, <2>4
  <2>6. QED
      BY <1>1, <2>3, <2>5 DEF LowestOK
<1>10. OutputOK'
    BY DEF ExactInv, OutputOK
<1>11. QED
    BY <1>7, <1>8, <1>9, <1>10 DEF ExactInv


\* Lowering the lowlink of one vertex lowers no other.
LEMMA LowerLowlink ==
    ASSUME lowlink \in [V -> Nat], NEW v \in V, NEW m \in Nat,
           lowlink' = [lowlink EXCEPT ![v] = Lesser(@, m)]
    PROVE  /\ lowlink' \in [V -> Nat]
           /\ \A u \in V : lowlink'[u] <= lowlink[u]
           /\ \A u \in V : lowlink'[u] = lowlink[u] \/ (u = v /\ lowlink'[u] = m)
           /\ lowlink'[v] <= m
<1>1. \A f \in [V -> Nat] : \A g :
         g = [f EXCEPT ![v] = Lesser(@, m)] =>
             /\ g \in [V -> Nat]
             /\ \A u \in V : g[u] <= f[u]
             /\ \A u \in V : g[u] = f[u] \/ (u = v /\ g[u] = m)
    BY LowerLemma
<1>2. lowlink'[v] = Lesser(lowlink[v], m) /\ lowlink[v] \in Nat
    OBVIOUS
<1>3. lowlink'[v] <= m
    BY <1>2 DEF Lesser
<1>4. QED
    BY <1>1, <1>3

\* The innermost call looks at one more edge.
LEMMA SkipEdgeExact ==
    ASSUME TarjanInv, FollowedOK, ExactInv, SkipEdge
    PROVE  ExactInv'
<1>1. /\ V \subseteq Nat /\ V' = V /\ graph' = graph
      /\ graph \in [V -> SUBSET V] /\ todo \in [V -> SUBSET V] /\ lowlink \in [V -> Nat]
      /\ Vertices(graph) = V
      /\ UNCHANGED <<discovered, stack, calls, components>>
    BY TypeLemma DEF TarjanInv, V, SkipEdge
<1>2. /\ \A v : OnStack(v)' <=> OnStack(v)
      /\ \A v : Active(v)' <=> Active(v)
      /\ \A a, b : Reaches(a, b)' <=> Reaches(a, b)
    BY <1>1 DEF OnStack, Active, InSeq, Reaches
<1>3. Current \in V /\ Active(Current) /\ \A a : Active(a) => a <= Current
    BY TopCall DEF SkipEdge, ExactInv
<1>4. PICK w \in todo[Current] :
          /\ lowlink' = IF OnStack(w)
                        THEN [lowlink EXCEPT ![Current] = Lesser(@, Index(w))]
                        ELSE lowlink
          /\ todo' = [todo EXCEPT ![Current] = @ \ {w}]
    BY DEF SkipEdge
<1>5. w \in V /\ w \in Nat /\ w \in graph[Current]
    BY <1>1, <1>3, <1>4 DEF FollowedOK
<1>6. /\ lowlink' \in [V -> Nat] /\ \A v \in V : lowlink'[v] <= lowlink[v]
      /\ \A v \in V : lowlink'[v] = lowlink[v] \/ (v = Current /\ lowlink'[v] = w /\ OnStack(w))
  <2>1. CASE OnStack(w)
    <3>1. lowlink' = [lowlink EXCEPT ![Current] = Lesser(@, w)]
        BY <1>4, <2>1 DEF Index
    <3>2. /\ lowlink' \in [V -> Nat]
          /\ \A v \in V : lowlink'[v] <= lowlink[v]
          /\ \A v \in V : lowlink'[v] = lowlink[v] \/ (v = Current /\ lowlink'[v] = w)
        BY <1>1, <1>3, <1>5, <3>1, LowerLowlink
    <3>3. QED
        BY <2>1, <3>2
  <2>2. CASE ~OnStack(w)
      BY <1>1, <1>4, <2>2
  <2>3. QED
      BY <2>1, <2>2
<1>7. OnStack(w) => lowlink'[Current] <= w
    BY <1>1, <1>3, <1>4, <1>5 DEF Lesser, Index
<1>8. AscendingOK'
    BY <1>1, <1>2 DEF ExactInv, AscendingOK
<1>9. PathsOK'
    BY <1>1, <1>2 DEF ExactInv, PathsOK
<1>10. LowestOK'
  <2>1. \A a \in V : Active(a) => OnStack(lowlink'[a]) /\ Reaches(a, lowlink'[a])
    <3>1. Reaches(Current, w)
        BY <1>1, <1>3, <1>5, ReachEdge DEF Reaches
    <3>2. QED
        BY <1>6, <3>1 DEF ExactInv, LowestOK
  <2>2. \A a \in V : Active(a)' => OnStack(lowlink[a])' /\ Reaches(a, lowlink[a])'
      BY <1>1, <1>2, <2>1 DEF OnStack, InSeq, Reaches
  <2>3. ASSUME NEW a \in V, NEW y \in V, OnStack(y), Innermost(a, y),
               NEW x \in graph[y] \ todo'[y], OnStack(x)
        PROVE  lowlink'[a] <= x
    <3>1. x \in Nat /\ lowlink[a] \in Nat /\ lowlink'[a] \in Nat /\ lowlink'[a] <= lowlink[a]
        BY <1>1, <1>6
    <3>2. CASE x \notin todo[y]
      <4>1. lowlink[a] <= x
          BY <2>3, <3>2 DEF ExactInv, LowestOK
      <4>2. QED
          BY <3>1, <4>1
    <3>3. CASE x \in todo[y]
      <4>1. y = Current /\ x = w
          BY <1>1, <1>4, <2>3, <3>3
      <4>2. a = Current
        <5>1. Active(a) /\ a <= Current /\ ~(a < Current) /\ a \in Nat /\ Current \in Nat
            BY <1>1, <1>3, <2>3, <4>1 DEF Innermost
        <5>2. QED
            BY <5>1
      <4>3. QED
          BY <1>7, <2>3, <4>1, <4>2
    <3>4. QED
        BY <3>2, <3>3
  <2>4. \A a, y \in V : Innermost(a, y)' <=> Innermost(a, y)
      BY <1>1, <1>2 DEF Innermost
  <2>5. \A a, y \in V' : OnStack(y)' /\ Innermost(a, y)' =>
            \A x \in graph'[y] \ todo'[y] : OnStack(x)' => lowlink'[a] <= x
      BY <1>1, <1>2, <2>3, <2>4
  <2>6. QED
      BY <1>1, <2>2, <2>5 DEF LowestOK
<1>11. OutputOK'
    BY <1>1 DEF ExactInv, OutputOK
<1>12. QED
    BY <1>8, <1>9, <1>10, <1>11 DEF ExactInv

-----------------------------------------------------------------------------

\* On an ascending stack a component is all that is not less than its root.
LEMMA PopAscending ==
    ASSUME TarjanInv, AscendingOK, NEW c \in V, PopComponent(c), lowlink[c] = c
    PROVE  /\ \A v : OnStack(v)' <=> OnStack(v) /\ v < c
           /\ components' = Append(components, {v \in V : OnStack(v) /\ c <= v})
           /\ \A i, j \in 1 .. Len(stack') : i < j => stack'[i] < stack'[j]
<1>1. stack \in Seq(V) /\ Len(stack) \in Nat /\ V \subseteq Nat
    BY TypeLemma DEF TarjanInv
<1>2. PICK k \in 1 .. Len(stack) :
          /\ stack[k] = c
          /\ stack' = SubSeq(stack, 1, k - 1)
          /\ components' = Append(components, {stack[i] : i \in k .. Len(stack)})
    BY DEF PopComponent, Index
<1>3. k - 1 \in 0 .. Len(stack)
    BY <1>1
<1>4. Len(stack') = k - 1 /\ \A i \in 1 .. k - 1 : stack'[i] = stack[i]
    BY <1>1, <1>2, <1>3, PrefixLemma
<1>5. \A i \in 1 .. Len(stack) : stack[i] \in V /\ stack[i] \in Nat
  <2>1. \A i \in 1 .. Len(stack) : stack[i] \in V
      BY <1>1
  <2>2. QED
      BY <1>1, <2>1
<1>6. \A i \in 1 .. Len(stack) : stack[i] < c <=> i < k
  <2>1. \A i \in 1 .. Len(stack) : /\ i < k => stack[i] < c
                                   /\ k < i => c < stack[i]
      BY <1>2 DEF AscendingOK
  <2>2. c \in Nat /\ \A i \in 1 .. Len(stack) : i < k \/ i = k \/ k < i
      BY <1>1
  <2>3. QED
      BY <1>2, <1>5, <2>1, <2>2
<1>7. \A v : OnStack(v)' <=> OnStack(v) /\ v < c
  <2>1. \A i : i \in 1 .. k - 1 <=> i \in 1 .. Len(stack) /\ i < k
      BY <1>1
  <2>2. QED
      BY <1>4, <1>6, <2>1 DEF OnStack, InSeq
<1>8. {stack[i] : i \in k .. Len(stack)} = {v \in V : OnStack(v) /\ c <= v}
  <2>1. \A i : i \in k .. Len(stack) <=> i \in 1 .. Len(stack) /\ ~(i < k)
      BY <1>1
  <2>2. \A i \in 1 .. Len(stack) : c <= stack[i] <=> ~(stack[i] < c)
      BY <1>1, <1>5
  <2>3. QED
      BY <1>5, <1>6, <2>1, <2>2 DEF OnStack, InSeq
<1>9. \A i, j \in 1 .. Len(stack') : i < j => stack'[i] < stack'[j]
  <2>1. \A i \in 1 .. k - 1 : i \in 1 .. Len(stack)
      BY <1>1
  <2>2. QED
      BY <1>4, <2>1 DEF AscendingOK
<1>10. QED
    BY <1>2, <1>7, <1>8, <1>9

\* What the innermost call pops, when it is its own lowlink, is the component
\* of its vertex.
LEMMA PoppedIsComponent ==
    ASSUME TarjanInv, FollowedOK, ExactInv, calls # << >>,
           todo[Current] = {}, lowlink[Current] = Current
    PROVE  LET C == {v \in V : OnStack(v) /\ Current <= v}
           IN  /\ C = ComponentOf(Current, graph)
               /\ \A a \in C : graph[a] \subseteq C \cup Emitted
<1> DEFINE c == Current
           C == {v \in V : OnStack(v) /\ c <= v}
<1>1. /\ V \subseteq Nat /\ graph \in [V -> SUBSET V] /\ todo \in [V -> SUBSET V]
      /\ components \in Seq(SUBSET V) /\ Vertices(graph) = V
    BY TypeLemma DEF TarjanInv, V
<1>2. c \in V /\ Active(c) /\ OnStack(c) /\ \A a : Active(a) => a <= c
    BY TopCall DEF ExactInv, AscendingOK
<1>3. /\ \A v : OnStack(v) => Visited(v) /\ v \in V
      /\ \A v \in Emitted : v \in V /\ ~OnStack(v)
      /\ \A v \in V : Visited(v) => OnStack(v) \/ v \in Emitted
    BY PlacesLemma
<1>4. \A a \in C : graph[a] \subseteq C \cup Emitted
  <2> SUFFICES ASSUME NEW a \in C, NEW b \in graph[a] PROVE b \in C \cup Emitted
      OBVIOUS
  <2>1. a \in V /\ b \in V /\ OnStack(a) /\ c <= a /\ a \in Nat /\ b \in Nat /\ c \in Nat
      BY <1>1, <1>2
  <2>2. todo[a] = {}
    <3>1. CASE Active(a)
      <4>1. a <= c
          BY <1>2, <3>1
      <4>2. QED
          BY <2>1, <4>1
    <3>2. CASE ~Active(a)
        BY <1>3, <2>1, <3>2 DEF FollowedOK
    <3>3. QED
        BY <3>1, <3>2
  <2>3. Visited(b)
      BY <2>1, <2>2 DEF FollowedOK
  <2>4. OnStack(b) => c <= b
    <3>1. Innermost(c, a)
      <4>1. ~ \E d \in V : Active(d) /\ c < d /\ d <= a
        <5>1. \A d \in V : Active(d) => d <= c /\ d \in Nat
            BY <1>1, <1>2
        <5>2. QED
            BY <2>1, <5>1
      <4>2. QED
          BY <1>2, <2>1, <4>1 DEF Innermost
    <3>2. QED
        BY <1>2, <2>1, <2>2, <3>1 DEF ExactInv, LowestOK
  <2>5. QED
      BY <1>3, <2>1, <2>3, <2>4
<1>5. \A a \in Emitted : graph[a] \subseteq Emitted
  <2>1. \A i \in 1 .. Len(components) : \A j \in 1 .. i : j \in 1 .. Len(components)
      BY <1>1
  <2>2. QED
      BY <2>1 DEF ExactInv, OutputOK, Emitted
<1>6. ASSUME NEW y \in C PROVE y \in ReachableFrom(c, graph) /\ c \in ReachableFrom(y, graph)
  <2>1. y \in V /\ OnStack(y) /\ c <= y
      OBVIOUS
  <2>2. Reaches(c, y)
      BY <1>2, <2>1 DEF ExactInv, PathsOK
  <2>3. PICK a \in V : Active(a) /\ a <= y /\ Reaches(y, a)
      BY <2>1 DEF ExactInv, PathsOK
  <2>4. Reaches(a, c)
      BY <1>2, <2>3 DEF ExactInv, PathsOK
  <2>5. QED
      BY <2>2, <2>3, <2>4, ReachTrans DEF Reaches
<1>7. IsClosed(C \cup Emitted, graph) /\ IsClosed(Emitted, graph)
    BY <1>4, <1>5 DEF IsClosed
<1>8. /\ C \cup Emitted \in SUBSET Vertices(graph) /\ Emitted \in SUBSET Vertices(graph)
      /\ c \in C /\ c \notin Emitted
    BY <1>1, <1>2, <1>3
<1>9. ASSUME NEW b \in ComponentOf(c, graph) PROVE b \in C
  <2>1. b \in ReachableFrom(c, graph) /\ c \in ReachableFrom(b, graph)
      BY DEF ComponentOf
  <2>2. b \in C \cup Emitted
      BY <1>7, <1>8, <2>1, ReachClosed
  <2>3. b \notin Emitted
      BY <1>7, <1>8, <2>1, ReachClosed
  <2>4. QED
      BY <2>2, <2>3
<1>10. C = ComponentOf(c, graph)
    BY <1>1, <1>6, <1>9 DEF ComponentOf
<1>11. QED
    BY <1>4, <1>10


\* When the innermost call returns, what belonged to it belongs to its caller.
LEMMA CallerTakesOver ==
    ASSUME TarjanInv, AscendingOK, Return, Len(calls) # 1
    PROVE  LET p == calls[Len(calls) - 1]
           IN  /\ p \in V /\ p < Current /\ Active(p)
               /\ \A a, y \in V : Innermost(a, y)' =>
                     \/ y < Current /\ Innermost(a, y)
                     \/ Current <= y /\ Innermost(Current, y) /\ a = p
<1> DEFINE p == calls[Len(calls) - 1]
<1>1. /\ calls # << >> /\ calls \in Seq(V) /\ V \subseteq Nat /\ V' = V
    BY TypeLemma DEF TarjanInv, Return, V
<1>2. /\ Len(calls) \in Nat \ {0} /\ Len(calls) - 1 \in 1 .. Len(calls)
      /\ Len(calls) \in 1 .. Len(calls) /\ Len(calls) - 1 < Len(calls)
  <2>1. Len(calls) \in Nat \ {0}
      BY <1>1, TopLemma
  <2>2. QED
      BY <2>1
<1>3. Current \in V /\ Active(Current) /\ \A a : Active(a) => a <= Current
    BY <1>1, TopCall
<1>4. p \in V /\ p < Current /\ Active(p)
    BY <1>1, <1>2 DEF AscendingOK, Current, Active, InSeq
<1>5. \A v : Active(v)' <=> Active(v) /\ v # Current
    BY ReturnActive
<1>6. \A a : Active(a) /\ a # Current => a <= p
  <2> SUFFICES ASSUME NEW a, Active(a), a # Current PROVE a <= p
      OBVIOUS
  <2>1. PICK i \in 1 .. Len(calls) : calls[i] = a
      BY DEF Active, InSeq
  <2>2. i # Len(calls)
      BY <2>1 DEF Current
  <2>3. i < Len(calls) - 1 => a < p
      BY <1>2, <2>1 DEF AscendingOK
  <2>4. calls[i] \in V /\ a \in Nat /\ p \in Nat
    <3>1. calls[i] \in V
        BY <1>1, <2>1
    <3>2. QED
        BY <1>1, <1>4, <2>1, <3>1
  <2>5. i < Len(calls) - 1 \/ i = Len(calls) - 1
      BY <1>2, <2>2
  <2>6. QED
      BY <2>1, <2>3, <2>4, <2>5
<1>7. ASSUME NEW a \in V, NEW y \in V, Innermost(a, y)'
      PROVE  \/ y < Current /\ Innermost(a, y)
             \/ Current <= y /\ Innermost(Current, y) /\ a = p
  <2>1. /\ Active(a) /\ a # Current /\ a <= y
        /\ \A b \in V : Active(b) /\ b # Current /\ a < b => ~(b <= y)
      BY <1>1, <1>5, <1>7 DEF Innermost
  <2>2. a \in Nat /\ y \in Nat /\ p \in Nat /\ Current \in Nat
      BY <1>1, <1>3, <1>4
  <2>3. CASE y < Current
    <3>1. \A b \in V : Active(b) /\ a < b => ~(b <= y)
        BY <2>1, <2>2, <2>3
    <3>2. QED
        BY <2>1, <2>3, <3>1 DEF Innermost
  <2>4. CASE ~(y < Current)
    <3>1. Current <= y
        BY <2>2, <2>4
    <3>2. ~ \E b \in V : Active(b) /\ Current < b /\ b <= y
      <4>1. \A b \in V : Active(b) => b <= Current /\ b \in Nat
          BY <1>1, <1>3
      <4>2. QED
          BY <2>2, <4>1
    <3>3. p <= y /\ p # Current
        BY <1>4, <2>2, <3>1
    <3>4. a <= p /\ ~(a < p)
        BY <1>4, <1>6, <2>1, <3>3
    <3>5. QED
        BY <1>3, <2>2, <3>1, <3>2, <3>4 DEF Innermost
  <2>5. QED
      BY <2>3, <2>4
<1>8. QED
    BY <1>4, <1>7

\* A call returns.
LEMMA ReturnExact ==
    ASSUME TarjanInv, FollowedOK, ExactInv, Return
    PROVE  ExactInv'
<1> DEFINE c == Current
           n == Len(calls)
           p == calls[n - 1]
           C == {v \in V : OnStack(v) /\ c <= v}
<1>1. /\ V \subseteq Nat /\ V' = V /\ graph' = graph /\ discovered' = discovered /\ todo' = todo
      /\ graph \in [V -> SUBSET V] /\ todo \in [V -> SUBSET V] /\ lowlink \in [V -> Nat]
      /\ components \in Seq(SUBSET V) /\ calls \in Seq(V)
      /\ Vertices(graph) = V
    BY TypeLemma DEF TarjanInv, V, Return
<1>2. /\ calls # << >> /\ todo[c] = {} /\ PopComponent(c)
      /\ calls' = SubSeq(calls, 1, n - 1)
      /\ lowlink' = IF n = 1 THEN lowlink
                    ELSE [lowlink EXCEPT ![p] = Lesser(@, lowlink[c])]
    BY DEF Return
<1>3. c \in V /\ Active(c) /\ OnStack(c) /\ \A a : Active(a) => a <= c
    BY <1>2, TopCall DEF ExactInv, AscendingOK
<1>4. \A v : Active(v)' <=> Active(v) /\ v # c
    BY ReturnActive
<1>5. \A a, b : Reaches(a, b)' <=> Reaches(a, b)
    BY <1>1 DEF Reaches
<1>6. \A v \in V : lowlink[v] \in Nat /\ lowlink[v] <= v
    BY <1>1 DEF TarjanInv, LowlinksOK
<1>7. n \in Nat \ {0} /\ n - 1 \in 0 .. n
    BY <1>1, <1>2, TopLemma
<1>8. /\ Len(calls') = n - 1
      /\ \A i \in 1 .. n - 1 : calls'[i] = calls[i] /\ i \in 1 .. n
  <2>1. calls \in Seq(V) /\ n - 1 \in 0 .. Len(calls) /\ calls' = SubSeq(calls, 1, n - 1)
      BY <1>1, <1>2, <1>7
  <2>2. Len(calls') = n - 1 /\ \A i \in 1 .. n - 1 : calls'[i] = calls[i]
      BY <2>1, PrefixLemma
  <2>3. QED
      BY <1>7, <2>2
<1>9. lowlink[c] # c => UNCHANGED <<stack, components>>
    BY <1>2 DEF PopComponent, Index
<1>10. lowlink[c] = c =>
          /\ \A v : OnStack(v)' <=> OnStack(v) /\ v < c
          /\ components' = Append(components, C)
          /\ \A i, j \in 1 .. Len(stack') : i < j => stack'[i] < stack'[j]
    BY <1>2, <1>3, PopAscending DEF ExactInv
<1>11. \A v : OnStack(v)' => OnStack(v)
    BY <1>9, <1>10 DEF OnStack, InSeq
<1>12. \A a : Active(a) /\ a # c => a < c
  <2>1. \A a : Active(a) => a \in V
      BY PlacesLemma
  <2>2. \A a : Active(a) => a \in Nat /\ c \in Nat /\ a <= c
      BY <1>1, <1>3, <2>1
  <2>3. QED
      BY <2>2
<1>13. AscendingOK'
  <2>1. \A i, j \in 1 .. Len(calls') : i < j => calls'[i] < calls'[j]
      BY <1>8 DEF ExactInv, AscendingOK
  <2>2. \A i, j \in 1 .. Len(stack') : i < j => stack'[i] < stack'[j]
      BY <1>9, <1>10 DEF ExactInv, AscendingOK
  <2>3. \A a \in V : Active(a)' => OnStack(a)'
      BY <1>4, <1>9, <1>10, <1>12 DEF ExactInv, AscendingOK, OnStack, InSeq
  <2>4. QED
      BY <1>1, <2>1, <2>2, <2>3 DEF AscendingOK
<1>14. PathsOK'
  <2>1. \A a, y \in V : Active(a)' /\ OnStack(y)' /\ a <= y => Reaches(a, y)
      BY <1>4, <1>11 DEF ExactInv, PathsOK
  <2>2. ASSUME NEW y \in V, OnStack(y)'
        PROVE  \E a \in V : Active(a)' /\ a <= y /\ Reaches(y, a)
    <3>1. PICK a \in V : Active(a) /\ a <= y /\ Reaches(y, a)
        BY <1>11, <2>2 DEF ExactInv, PathsOK
    <3>2. a \in Nat /\ y \in Nat /\ c \in Nat
        BY <1>1, <1>3
    <3>3. CASE lowlink[c] = c
      <4>1. y < c
          BY <1>10, <2>2, <3>3
      <4>2. a # c
          BY <3>1, <3>2, <4>1
      <4>3. QED
          BY <1>4, <3>1, <4>2
    <3>4. CASE lowlink[c] # c /\ a = c
      <4>1. lowlink[c] < c /\ OnStack(lowlink[c]) /\ Reaches(c, lowlink[c])
            /\ lowlink[c] \in Nat
          BY <1>3, <1>6, <3>2, <3>4 DEF ExactInv, LowestOK
      <4>2. lowlink[c] \in V
          BY <4>1, PlacesLemma
      <4>3. PICK b \in V : Active(b) /\ b <= lowlink[c] /\ Reaches(lowlink[c], b)
          BY <4>1, <4>2 DEF ExactInv, PathsOK
      <4>4. b \in Nat
          BY <1>1
      <4>5. b # c /\ b <= y
          BY <3>1, <3>2, <3>4, <4>1, <4>3, <4>4
      <4>6. Reaches(y, b)
          BY <3>1, <3>4, <4>1, <4>3, ReachTrans DEF Reaches
      <4>7. QED
          BY <1>4, <4>3, <4>5, <4>6
    <3>5. CASE a # c
        BY <1>4, <3>1, <3>5
    <3>6. QED
        BY <3>3, <3>4, <3>5
  <2>3. QED
      BY <1>1, <1>5, <2>1, <2>2 DEF PathsOK
<1>15. LowestOK'
  <2>1. CASE n = 1
    <3>1. Len(calls') = 0 /\ calls' = << >>
        BY <1>1, <1>2, <1>8, <2>1
    <3>2. ~ \E a : Active(a)'
        BY <3>1 DEF Active, InSeq
    <3>3. QED
        BY <3>2 DEF LowestOK, Innermost
  <2>2. CASE n # 1
    <3>1. /\ p \in V /\ p < c /\ Active(p)
          /\ \A a, y \in V : Innermost(a, y)' =>
                \/ y < c /\ Innermost(a, y)
                \/ c <= y /\ Innermost(c, y) /\ a = p
        BY <2>2, CallerTakesOver DEF ExactInv
    <3>2. /\ lowlink' \in [V -> Nat] /\ \A v \in V : lowlink'[v] <= lowlink[v]
          /\ \A v \in V : lowlink'[v] = lowlink[v] \/ (v = p /\ lowlink'[v] = lowlink[c])
          /\ lowlink'[p] <= lowlink[c]
      <4>1. lowlink' = [lowlink EXCEPT ![p] = Lesser(@, lowlink[c])] /\ lowlink[c] \in Nat
          BY <1>2, <1>3, <1>6, <2>2
      <4>2. QED
          BY <1>1, <3>1, <4>1, LowerLowlink
    <3>4. ASSUME NEW a \in V, Active(a)'
          PROVE  InSeq(lowlink'[a], stack') /\ Reaches(a, lowlink'[a])
      <4>1. Active(a) /\ a # c /\ a < c /\ a \in Nat /\ c \in Nat
          BY <1>1, <1>3, <1>4, <1>12, <3>4
      <4>2. OnStack(lowlink[a]) /\ Reaches(a, lowlink[a])
          BY <4>1 DEF ExactInv, LowestOK
      <4>3. CASE lowlink[c] = c
        <5>1. lowlink'[a] <= lowlink[a] /\ lowlink[a] <= a /\ lowlink[a] \in Nat /\ lowlink'[a] \in Nat
            BY <1>6, <3>2
        <5>2. lowlink'[a] < c
            BY <4>1, <5>1
        <5>3. lowlink'[a] = lowlink[a]
            BY <3>2, <4>1, <4>3, <5>2
        <5>4. \A v : OnStack(v) /\ v < c => InSeq(v, stack')
            BY <1>10, <4>3 DEF OnStack
        <5>5. QED
            BY <4>2, <5>2, <5>3, <5>4
      <4>4. CASE lowlink[c] # c
        <5>1. \A v : OnStack(v) => InSeq(v, stack')
            BY <1>9, <4>4 DEF OnStack
        <5>2. OnStack(lowlink[c]) /\ Reaches(c, lowlink[c])
            BY <1>3 DEF ExactInv, LowestOK
        <5>3. a <= c
            BY <4>1
        <5>4. Reaches(a, c)
            BY <1>3, <4>1, <5>3 DEF ExactInv, PathsOK
        <5>5. Reaches(a, lowlink[c])
            BY <5>2, <5>4, ReachTrans DEF Reaches
        <5>6. QED
            BY <3>2, <4>2, <5>1, <5>2, <5>5
      <4>5. QED
          BY <4>3, <4>4
    <3>5. ASSUME NEW a \in V, NEW y \in V, OnStack(y)', Innermost(a, y)',
                 NEW x \in graph[y] \ todo[y], OnStack(x)'
          PROVE  lowlink'[a] <= x
      <4>1. /\ OnStack(y) /\ OnStack(x) /\ x \in Nat /\ lowlink'[a] \in Nat /\ lowlink[a] \in Nat
            /\ lowlink'[a] <= lowlink[a] /\ lowlink[c] \in Nat /\ lowlink'[p] \in Nat
          BY <1>1, <1>3, <1>6, <1>11, <3>1, <3>2, <3>5
      <4>2. CASE Innermost(a, y)
        <5>1. lowlink[a] <= x
            BY <4>1, <4>2 DEF ExactInv, LowestOK
        <5>2. QED
            BY <4>1, <5>1
      <4>3. CASE Innermost(c, y) /\ a = p
        <5>1. lowlink[c] <= x
            BY <1>3, <4>1, <4>3 DEF ExactInv, LowestOK
        <5>2. QED
            BY <3>2, <4>1, <4>3, <5>1
      <4>4. QED
          BY <3>1, <3>5, <4>2, <4>3
    <3>6. \A a \in V' : Active(a)' => OnStack(lowlink[a])' /\ Reaches(a, lowlink[a])'
        BY <1>1, <3>4 DEF OnStack, Reaches
    <3>7. \A a, y \in V' : OnStack(y)' /\ Innermost(a, y)' =>
              \A x \in graph'[y] \ todo'[y] : OnStack(x)' => lowlink'[a] <= x
        BY <1>1, <3>5
    <3>8. QED
        BY <3>6, <3>7 DEF LowestOK
  <2>3. QED
      BY <2>1, <2>2
<1>16. OutputOK'
  <2>1. CASE lowlink[c] # c
      BY <1>1, <1>9, <2>1 DEF ExactInv, OutputOK
  <2>2. CASE lowlink[c] = c
    <3> DEFINE m == Len(components)
    <3>1. /\ C = ComponentOf(c, graph)
          /\ \A a \in C : graph[a] \subseteq C \cup Emitted
        BY <1>2, <2>2, PoppedIsComponent DEF ExactInv
    <3>2. /\ m \in Nat /\ Len(components') = m + 1
          /\ \A i \in 1 .. m : components'[i] = components[i]
          /\ components'[m + 1] = C
      <4>1. C \in SUBSET V
          OBVIOUS
      <4>2. QED
          BY <1>1, <1>10, <2>2, <4>1, PushLemma
    <3>3. \A i \in 1 .. m + 1 : i \in 1 .. m \/ i = m + 1
        BY <3>2
    <3>4. /\ \A i \in 1 .. m : \A j \in 1 .. i : j \in 1 .. m
          /\ \A j \in 1 .. m : j \in 1 .. m + 1
          /\ m + 1 \in 1 .. m + 1
        BY <3>2
    <3>5. C \in StronglyConnectedComponents(graph)
        BY <1>1, <1>3, <3>1 DEF StronglyConnectedComponents
    <3>6. \A i \in 1 .. m + 1 : components'[i] \in StronglyConnectedComponents(graph)
        BY <3>2, <3>3, <3>5 DEF ExactInv, OutputOK
    <3>7. ASSUME NEW i \in 1 .. m + 1, NEW a \in components'[i], NEW b \in graph[a]
          PROVE  \E j \in 1 .. i : b \in components'[j]
      <4>1. CASE i \in 1 .. m
          BY <3>2, <3>4, <3>7, <4>1 DEF ExactInv, OutputOK
      <4>2. CASE i = m + 1
        <5>1. a \in C
            BY <3>2, <4>2
        <5>2. b \in C \/ \E j \in 1 .. m : b \in components[j]
            BY <3>1, <5>1 DEF Emitted
        <5>3. QED
            BY <3>2, <3>4, <4>2, <5>2
      <4>3. QED
          BY <3>3, <4>1, <4>2
    <3>8. QED
        BY <1>1, <3>2, <3>6, <3>7 DEF OutputOK
  <2>3. QED
      BY <2>1, <2>2
<1>17. QED
    BY <1>13, <1>14, <1>15, <1>16 DEF ExactInv

-----------------------------------------------------------------------------

\* As long as vertices are discovered in order, the account of the paths holds.
OrderInv == FollowedOK /\ (DiscoveredInOrder => ExactInv)

\* Nothing has been followed in an initial state.
LEMMA OrderInvInit ==
    ASSUME TarjanTypeOK, discovered = << >>, stack = << >>, calls = << >>, todo = graph,
           components = << >>
    PROVE  OrderInv
<1>1. Len(discovered) = 0 /\ Len(stack) = 0 /\ Len(calls) = 0 /\ Len(components) = 0
    OBVIOUS
<1>2. \A v : ~Visited(v) /\ ~OnStack(v) /\ ~Active(v)
    BY <1>1 DEF Visited, OnStack, Active, InSeq
<1>3. FollowedOK
    BY <1>2 DEF FollowedOK
<1>4. ExactInv
    BY <1>1, <1>2 DEF ExactInv, AscendingOK, PathsOK, LowestOK, OutputOK
<1>5. QED
    BY <1>3, <1>4 DEF OrderInv

\* Nor has anything when a caller starts the algorithm on a graph.
LEMMA OrderInvStart ==
    ASSUME NEW g, IsDirectedGraph(g), StartOn(g)
    PROVE  OrderInv'
<1>1. TarjanTypeOK'
    BY TarjanInvStart DEF TarjanInv
<1>2. /\ discovered' = << >> /\ stack' = << >> /\ calls' = << >> /\ todo' = graph'
      /\ components' = << >>
    BY DEF StartOn
<1>3. Len(discovered') = 0 /\ Len(stack') = 0 /\ Len(calls') = 0 /\ Len(components') = 0
    BY <1>2
<1>4. \A v : ~Visited(v)' /\ ~OnStack(v)' /\ ~Active(v)'
    BY <1>3 DEF Visited, OnStack, Active, InSeq
<1>5. FollowedOK'
    BY <1>2, <1>4 DEF FollowedOK
<1>6. ExactInv'
    BY <1>3, <1>4 DEF ExactInv, AscendingOK, PathsOK, LowestOK, OutputOK, Innermost, Active, InSeq
<1>7. QED
    BY <1>5, <1>6 DEF OrderInv

\* Every step keeps the account.
LEMMA OrderInvStep ==
    ASSUME TarjanInv, OrderInv, TarjanStep
    PROVE  OrderInv'
<1>1. CASE StartRoot
  <2>1. PICK r \in V : ~Visited(r) /\ Enter(r) /\ UNCHANGED <<graph, lowlink, todo, components>>
      BY <1>1 DEF StartRoot, V
  <2>2. ASSUME DiscoveredInOrder' PROVE ExactInv'
    <3>1. calls = << >> /\ todo' = todo
        BY <1>1 DEF StartRoot
    <3>2. DiscoveredInOrder
        BY <2>1, <2>2, NextIsGreatest DEF Enter
    <3>3. QED
        BY <2>1, <2>2, <3>1, <3>2, EnterExact DEF OrderInv
  <2>3. QED
      BY <1>1, <2>2, StartRootFollowed DEF OrderInv
<1>2. CASE Recurse
  <2>1. calls # << >> /\ Current \in V /\ todo[Current] \subseteq V
      BY <1>2, TopCall, TypeLemma DEF Recurse, TarjanInv
  <2>2. PICK w \in todo[Current] :
            ~Visited(w) /\ Enter(w) /\ todo' = [todo EXCEPT ![Current] = @ \ {w}]
      BY <1>2 DEF Recurse
  <2>3. w \in V /\ UNCHANGED <<graph, lowlink, components>>
      BY <1>2, <2>1 DEF Recurse
  <2>4. ASSUME DiscoveredInOrder' PROVE ExactInv'
    <3>1. DiscoveredInOrder
        BY <2>2, <2>3, <2>4, NextIsGreatest DEF Enter
    <3>2. QED
        BY <2>1, <2>2, <2>3, <2>4, <3>1, EnterExact DEF OrderInv
  <2>5. QED
      BY <1>2, <2>4, RecurseFollowed DEF OrderInv
<1>3. CASE SkipEdge
  <2>1. DiscoveredInOrder' <=> DiscoveredInOrder
      BY <1>3 DEF SkipEdge, DiscoveredInOrder
  <2>2. QED
      BY <1>3, <2>1, SkipEdgeFollowed, SkipEdgeExact DEF OrderInv
<1>4. CASE Return
  <2>1. DiscoveredInOrder' <=> DiscoveredInOrder
      BY <1>4 DEF Return, DiscoveredInOrder
  <2>2. QED
      BY <1>4, <2>1, ReturnFollowed, ReturnExact DEF OrderInv
<1>5. QED
    BY <1>1, <1>2, <1>3, <1>4 DEF TarjanStep

\* A step that changes nothing.
LEMMA OrderInvStutter ==
    ASSUME OrderInv, UNCHANGED tarjanVars
    PROVE  OrderInv'
<1>1. UNCHANGED <<graph, discovered, lowlink, stack, calls, todo, components>> /\ V' = V
    BY DEF tarjanVars, V
<1>2. /\ \A v : Visited(v)' <=> Visited(v)
      /\ \A v : OnStack(v)' <=> OnStack(v)
      /\ \A v : Active(v)' <=> Active(v)
      /\ \A a, b : Reaches(a, b)' <=> Reaches(a, b)
    BY <1>1 DEF Visited, OnStack, Active, Reaches, InSeq
<1>3. \A a, y : Innermost(a, y)' <=> Innermost(a, y)
    BY <1>1, <1>2 DEF Innermost
<1>4. FollowedOK' <=> FollowedOK
    BY <1>1, <1>2 DEF FollowedOK
<1>5. (AscendingOK' <=> AscendingOK) /\ (PathsOK' <=> PathsOK) /\ (OutputOK' <=> OutputOK)
    BY <1>1, <1>2 DEF AscendingOK, PathsOK, OutputOK
<1>6. LowestOK' <=> LowestOK
  <2>1. \A a : OnStack(lowlink[a])' <=> OnStack(lowlink[a])
      BY <1>1 DEF OnStack, InSeq
  <2>2. \A a : Reaches(a, lowlink[a])' <=> Reaches(a, lowlink[a])
      BY <1>1 DEF Reaches
  <2>3. QED
      BY <1>1, <1>2, <1>3, <2>1, <2>2 DEF LowestOK
<1>7. DiscoveredInOrder' <=> DiscoveredInOrder
    BY <1>1 DEF DiscoveredInOrder
<1>8. QED
    BY <1>4, <1>5, <1>6, <1>7 DEF OrderInv, ExactInv

\* What the account says of the answer.
LEMMA ExactLemma ==
    ASSUME TarjanInv, OrderInv
    PROVE  ExactWhenDiscoveredInOrder
<1> SUFFICES ASSUME TarjanDone, DiscoveredInOrder
             PROVE  /\ {components[i] : i \in DOMAIN components}
                          = StronglyConnectedComponents(graph)
                    /\ LET cg == GraphOfDisjointSubgraphs(components, graph)
                       IN  \A i, j \in Vertices(cg) : j \in cg[i] => j < i
    BY DEF ExactWhenDiscoveredInOrder
<1>1. /\ components \in Seq(SUBSET V) /\ Len(components) \in Nat
      /\ DOMAIN components = 1 .. Len(components)
    BY TypeLemma DEF TarjanInv
<1>2. OutputOK
    BY DEF OrderInv, ExactInv
<1>3. \A v \in V : \E i \in 1 .. Len(components) : v \in components[i]
  <2>1. UNION {components[i] : i \in DOMAIN components} = V
      BY PartitionLemma DEF NothingLeftBehind, IsPartition, V
  <2>2. QED
      BY <1>1, <2>1
<1>4. {components[i] : i \in DOMAIN components} = StronglyConnectedComponents(graph)
  <2>1. ASSUME NEW a \in V
        PROVE  \E i \in DOMAIN components : components[i] = ComponentOf(a, graph)
    <3>1. PICK i \in 1 .. Len(components) : a \in components[i]
        BY <1>3
    <3>2. PICK b \in V : components[i] = ComponentOf(b, graph)
        BY <1>2 DEF OutputOK, StronglyConnectedComponents, V
    <3>3. ComponentOf(a, graph) = ComponentOf(b, graph)
        BY <3>1, <3>2, SameComponent
    <3>4. QED
        BY <1>1, <3>2, <3>3
  <2>2. QED
      BY <1>1, <1>2, <2>1 DEF OutputOK, StronglyConnectedComponents, V
<1>5. LET cg == GraphOfDisjointSubgraphs(components, graph)
      IN  \A i, j \in Vertices(cg) : j \in cg[i] => j < i
  <2> DEFINE cg == GraphOfDisjointSubgraphs(components, graph)
             m == Len(components)
  <2>1. /\ Vertices(cg) = 0 .. m - 1
        /\ \A i \in 0 .. m - 1 :
              cg[i] = {j \in (0 .. m - 1) \ {i} :
                          \E a \in components[i + 1], b \in components[j + 1] : b \in graph[a]}
      BY DEF GraphOfDisjointSubgraphs, Vertices
  <2> SUFFICES ASSUME NEW i \in 0 .. m - 1, NEW j \in 0 .. m - 1, j \in cg[i]
               PROVE  j < i
      BY <2>1
  <2>2. j # i
      BY <2>1
  <2>3. PICK a \in components[i + 1], b \in components[j + 1] : b \in graph[a]
      BY <2>1
  <2>4. i + 1 \in 1 .. m /\ j + 1 \in 1 .. m
      BY <1>1
  <2>5. PICK k \in 1 .. i + 1 : b \in components[k]
      BY <1>2, <2>3, <2>4 DEF OutputOK
  <2>6. k \in 1 .. m
      BY <2>4
  <2>7. k = j + 1
      BY <2>3, <2>4, <2>5, <2>6 DEF TarjanInv, EachVertexInOnePlace
  <2>8. QED
      BY <1>1, <2>2, <2>7
<1>6. QED
    BY <1>4, <1>5


\* In every reachable state of the component search.
LEMMA OrderInvariant == TarjanSpec => []OrderInv
<1>1. TarjanInit => OrderInv
  <2> SUFFICES ASSUME TarjanInit PROVE OrderInv
      OBVIOUS
  <2>1. TarjanTypeOK
      BY TarjanInvInit DEF TarjanInv
  <2>2. QED
      BY <2>1, OrderInvInit DEF TarjanInit
<1>2. TarjanInv /\ OrderInv /\ [TarjanNext]_tarjanVars => OrderInv'
    BY OrderInvStep, OrderInvStutter DEF TarjanNext, Finished
<1>3. QED
    BY <1>1, <1>2, TarjanInvariant, PTL DEF TarjanSpec

\* If the vertices happen to be discovered in the order of their numbers, the
\* answer is the strongly connected components, each after those that it leads
\* to: the one wrong thing about the search is that it compares numbers where
\* discovery times belong (graph.rs:119-166).
THEOREM ExactInOrder == TarjanSpec => []ExactWhenDiscoveredInOrder
    BY TarjanInvariant, OrderInvariant, ExactLemma, PTL

-----------------------------------------------------------------------------
(***************************************************************************)
(* The search ends: every step does one of finitely many things for the    *)
(* first time, and undoes none.                                            *)
(***************************************************************************)

\* Beginning a call, at a root or at the end of an edge.
LEMMA EnterAdvances ==
    ASSUME TarjanInv, NEW w \in V, ~Visited(w), Enter(w),
           UNCHANGED <<graph, lowlink, components>>
    PROVE  Called \subseteq Called' /\ Called' # Called /\ Returned \subseteq Returned'
<1>1. /\ \A v : Visited(v)' <=> Visited(v) \/ v = w
      /\ \A v : Active(v)' <=> Active(v) \/ v = w
    BY EnterSets
<1>2. w \in Called' /\ w \notin Called /\ Called \subseteq Called'
    BY <1>1 DEF Called, V
<1>3. Returned \subseteq Returned'
    BY <1>1, <1>2 DEF Returned, Called, Active
<1>4. QED
    BY <1>2, <1>3

\* Following an edge.
LEMMA FollowAdvances ==
    ASSUME TarjanInv, calls # << >>, NEW w \in todo[Current], graph' = graph,
           todo' = [todo EXCEPT ![Current] = @ \ {w}]
    PROVE  Followed \subseteq Followed' /\ Followed' # Followed
<1>1. todo \in [V -> SUBSET V] /\ Current \in V /\ w \in V /\ V' = V
    BY TypeLemma, TopCall DEF TarjanInv, V
<1>2. /\ todo'[Current] = todo[Current] \ {w}
      /\ \A v \in V : todo'[v] \subseteq todo[v]
    BY <1>1
<1>3. Followed = {e \in V \X V : e[2] \notin todo[e[1]]}
    BY DEF Followed, V
<1>4. Followed' = {e \in V \X V : e[2] \notin todo'[e[1]]}
    BY <1>1 DEF Followed, V
<1>5. \A e \in V \X V : e[1] \in V
    OBVIOUS
<1>6. Followed \subseteq Followed'
    BY <1>2, <1>3, <1>4, <1>5
<1>7. <<Current, w>> \in Followed' /\ <<Current, w>> \notin Followed
    BY <1>1, <1>2, <1>3, <1>4
<1>8. QED
    BY <1>6, <1>7

\* What a step has done that was not done before it.
LEMMA StepAdvances ==
    ASSUME TarjanInv, TarjanNext, tarjanVars' # tarjanVars
    PROVE  /\ Called \subseteq Called' /\ Followed \subseteq Followed'
           /\ Returned \subseteq Returned'
           /\ <<Called, Followed, Returned>>' # <<Called, Followed, Returned>>
<1>1. CASE StartRoot
  <2>1. PICK r \in V : ~Visited(r) /\ Enter(r)
      BY <1>1 DEF StartRoot, V
  <2>2. UNCHANGED <<graph, lowlink, todo, components>>
      BY <1>1 DEF StartRoot
  <2>3. Called \subseteq Called' /\ Called' # Called /\ Returned \subseteq Returned'
      BY <2>1, <2>2, EnterAdvances
  <2>4. Followed' = Followed
      BY <2>2 DEF Followed
  <2>5. QED
      BY <2>3, <2>4
<1>2. CASE Recurse
  <2>1. PICK w \in todo[Current] : /\ ~Visited(w) /\ Enter(w)
                                   /\ todo' = [todo EXCEPT ![Current] = @ \ {w}]
      BY <1>2 DEF Recurse
  <2>2. calls # << >> /\ UNCHANGED <<graph, lowlink, components>>
      BY <1>2 DEF Recurse
  <2>3. w \in V
      BY <2>1, <2>2, TopCall, TypeLemma DEF TarjanInv
  <2>4. Called \subseteq Called' /\ Called' # Called /\ Returned \subseteq Returned'
      BY <2>1, <2>2, <2>3, EnterAdvances
  <2>5. Followed \subseteq Followed'
      BY <2>1, <2>2, FollowAdvances
  <2>6. QED
      BY <2>4, <2>5
<1>3. CASE SkipEdge
  <2>1. PICK w \in todo[Current] : todo' = [todo EXCEPT ![Current] = @ \ {w}]
      BY <1>3 DEF SkipEdge
  <2>2. calls # << >> /\ UNCHANGED <<graph, discovered, calls>>
      BY <1>3 DEF SkipEdge
  <2>3. Followed \subseteq Followed' /\ Followed' # Followed
      BY <2>1, <2>2, FollowAdvances
  <2>4. Called' = Called /\ Returned' = Returned
      BY <2>2 DEF Called, Returned, Visited, InSeq
  <2>5. QED
      BY <2>3, <2>4
<1>4. CASE Return
  <2>1. calls # << >> /\ UNCHANGED <<graph, discovered, todo>>
      BY <1>4 DEF Return
  <2>2. Followed' = Followed /\ Called' = Called
      BY <2>1 DEF Followed, Called, Visited, InSeq
  <2>3. \A v : Active(v)' <=> Active(v) /\ v # Current
      BY <1>4, ReturnActive
  <2>4. Current \in Called /\ Active(Current)
      BY <2>1, TopCall, PlacesLemma DEF Called, V
  <2>5. Returned \subseteq Returned' /\ Current \in Returned' /\ Current \notin Returned
      BY <2>2, <2>3, <2>4 DEF Returned, Active
  <2>6. QED
      BY <2>2, <2>5
<1>5. QED
    BY <1>1, <1>2, <1>3, <1>4 DEF TarjanNext, TarjanStep, Finished

\* No step of the search is taken twice (graph.rs:119-166).
THEOREM SearchOnlyAdvances == TarjanSpec => SearchAdvances
<1>1. TarjanInv /\ [TarjanNext]_tarjanVars =>
        [/\ Called \subseteq Called' /\ Followed \subseteq Followed'
         /\ Returned \subseteq Returned'
         /\ <<Called, Followed, Returned>>' # <<Called, Followed, Returned>>]_tarjanVars
    BY StepAdvances
<1>2. QED
    BY <1>1, TarjanInvariant, PTL DEF TarjanSpec, SearchAdvances

\* There are finitely many to take: at most two for each vertex and one for each
\* edge are left, and each step leaves fewer, so that the recursion ends on every
\* graph (graph.rs:119-166).
THEOREM SearchEnds == TarjanSpec => SearchRunsOut
<1>1. TarjanInv /\ OrderInv =>
        SearchLeft \in 0 .. 2 * Cardinality(V) + Cardinality(Edges(graph))
  <2> SUFFICES ASSUME TarjanInv, OrderInv
               PROVE  SearchLeft \in 0 .. 2 * Cardinality(V) + Cardinality(Edges(graph))
      OBVIOUS
  <2>1. IsFiniteSet(V) /\ IsFiniteSet(V \X V)
      BY FS_Product DEF TarjanInv, TarjanTypeOK, IsDirectedGraph, V
  <2>2. /\ Cardinality(V) \in Nat
        /\ Cardinality(V \ Called) \in 0 .. Cardinality(V)
        /\ Cardinality(V \ Returned) \in 0 .. Cardinality(V)
    <3>1. V \ Called \in SUBSET V /\ V \ Returned \in SUBSET V
        OBVIOUS
    <3>2. QED
        BY <2>1, <3>1, FS_Subset, FS_CardinalityType
  <2>3. (V \X V) \ Followed \in SUBSET Edges(graph) /\ IsFiniteSet(Edges(graph))
    <3>1. Edges(graph) \in SUBSET (V \X V)
        BY DEF Edges, V
    <3>2. ASSUME NEW e \in V \X V, e \notin Followed PROVE e[2] \in graph[e[1]]
        BY <3>2 DEF Followed, OrderInv, FollowedOK, V
    <3>3. QED
        BY <2>1, <3>1, <3>2, FS_Subset DEF Edges, V
  <2>4. Cardinality((V \X V) \ Followed) \in 0 .. Cardinality(Edges(graph))
      BY <2>3, FS_Subset, FS_CardinalityType
  <2>5. QED
      BY <2>2, <2>3, <2>4, FS_CardinalityType DEF SearchLeft, V
<1>2. TarjanInv /\ TarjanInv' /\ [TarjanNext]_tarjanVars => [SearchLeft' < SearchLeft]_tarjanVars
  <2> SUFFICES ASSUME TarjanInv, TarjanInv', TarjanNext, tarjanVars' # tarjanVars
               PROVE  SearchLeft' < SearchLeft
      OBVIOUS
  <2>1. IsFiniteSet(V) /\ IsFiniteSet(V \X V)
      BY FS_Product DEF TarjanInv, TarjanTypeOK, IsDirectedGraph, V
  <2>2. graph' = graph
      BY DEF TarjanNext, TarjanStep, StartRoot, Recurse, SkipEdge, Return, Finished, tarjanVars
  <2>3. /\ Called \subseteq Called' /\ Followed \subseteq Followed'
        /\ Returned \subseteq Returned'
        /\ Called # Called' \/ Followed # Followed' \/ Returned # Returned'
      BY StepAdvances
  <2>4. Called' \subseteq V /\ Followed' \subseteq V \X V /\ Returned' \subseteq V
      BY <2>2 DEF Called, Followed, Returned, V
  <2> DEFINE c == Cardinality(V \ Called)              d == Cardinality(V \ Called')
             f == Cardinality((V \X V) \ Followed)      h == Cardinality((V \X V) \ Followed')
             r == Cardinality(V \ Returned)            s == Cardinality(V \ Returned')
  <2>5. c \in Nat /\ d \in Nat /\ d <= c /\ (Called # Called' => d < c)
      BY <2>1, <2>3, <2>4, LessLeft
  <2>6. f \in Nat /\ h \in Nat /\ h <= f /\ (Followed # Followed' => h < f)
      BY <2>1, <2>3, <2>4, LessLeft
  <2>7. r \in Nat /\ s \in Nat /\ s <= r /\ (Returned # Returned' => s < r)
      BY <2>1, <2>3, <2>4, LessLeft
  <2>8. SearchLeft = c + f + r /\ SearchLeft' = d + h + s
      BY <2>2 DEF SearchLeft, V
  <2> HIDE DEF c, d, f, h, r, s
  <2>9. QED
      BY <2>3, <2>5, <2>6, <2>7, <2>8
<1>3. QED
    BY <1>1, <1>2, TarjanInvariant, OrderInvariant, PTL DEF TarjanSpec, SearchRunsOut, V

=============================================================================
