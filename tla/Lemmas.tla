------------------------------- MODULE Lemmas -------------------------------
(***************************************************************************)
(* What pushing on and popping from a stack, and taking from a queue, kept  *)
(* as sequences, does; induction over the natural numbers; and what        *)
(* reachability in a graph is, and what makes a graph acyclic.             *)
(***************************************************************************)
EXTENDS UnitGraph, Integers, SequenceTheorems, FiniteSetTheorems,
        WellFoundedInduction, TLAPS

\* Push: one more element, the others where they were.
LEMMA PushLemma ==
    ASSUME NEW S, NEW s \in Seq(S), NEW e \in S
    PROVE  /\ Append(s, e) \in Seq(S)
           /\ Append(s, e) # << >>
           /\ Len(s) \in Nat
           /\ Len(Append(s, e)) = Len(s) + 1
           /\ \A i \in 1 .. Len(s) : Append(s, e)[i] = s[i]
           /\ Append(s, e)[Len(s) + 1] = e
    OBVIOUS

\* What of a finite set has not been done gets less, if what has been done grows.
LEMMA LessLeft ==
    ASSUME NEW S, IsFiniteSet(S), NEW A, NEW B, A \subseteq B
    PROVE  /\ Cardinality(S \ A) \in Nat /\ Cardinality(S \ B) \in Nat
           /\ Cardinality(S \ B) <= Cardinality(S \ A)
           /\ B \subseteq S /\ A # B => Cardinality(S \ B) < Cardinality(S \ A)
<1>1. IsFiniteSet(S \ A) /\ IsFiniteSet(S \ B)
    BY FS_Subset
<1>2. Cardinality(S \ A) \in Nat /\ Cardinality(S \ B) \in Nat
    BY <1>1, FS_CardinalityType
<1>3. /\ Cardinality(S \ B) <= Cardinality(S \ A)
      /\ Cardinality(S \ A) = Cardinality(S \ B) => S \ A = S \ B
    BY <1>1, S \ B \in SUBSET (S \ A), FS_Subset
<1>4. ASSUME B \subseteq S, A # B PROVE S \ A # S \ B
  <2>1. PICK x \in B : x \notin A
      BY <1>4
  <2>2. QED
      BY <1>4, <2>1
<1>5. QED
    BY <1>2, <1>3, <1>4

\* Cutting a stack keeps a prefix of it.
LEMMA PrefixLemma ==
    ASSUME NEW S, NEW s \in Seq(S), NEW n \in 0 .. Len(s)
    PROVE  /\ SubSeq(s, 1, n) \in Seq(S)
           /\ Len(SubSeq(s, 1, n)) = n
           /\ \A i \in 1 .. n : SubSeq(s, 1, n)[i] = s[i]
<1>1. \A i \in 1 .. n : s[i] \in S
    OBVIOUS
<1>2. QED
    BY <1>1, SubSeqProperties

\* A stack that is not empty has a top.
LEMMA TopLemma ==
    ASSUME NEW S, NEW s \in Seq(S), s # << >>
    PROVE  /\ Len(s) \in Nat \ {0}
           /\ Len(s) \in 1 .. Len(s)
           /\ Len(s) - 1 \in 0 .. Len(s)
           /\ s[Len(s)] \in S
    BY EmptySeq

\* What is left of a queue when its first element is taken.
LEMMA TailLemma ==
    ASSUME NEW S, NEW s \in Seq(S), s # << >>
    PROVE  /\ Head(s) \in S
           /\ Head(s) = s[1]
           /\ Tail(s) \in Seq(S)
           /\ Len(s) \in Nat \ {0}
           /\ Len(Tail(s)) = Len(s) - 1
           /\ \A i \in 1 .. Len(Tail(s)) : Tail(s)[i] = s[i + 1]
    BY HeadTailProperties, EmptySeq

-----------------------------------------------------------------------------
(***************************************************************************)
(* The induction theorems of the library take a predicate as a parameter.  *)
(* Stated for the elements of a set, induction needs none: it follows from *)
(* the strict subsets of finite sets being well founded.                   *)
(***************************************************************************)

\* A set of natural numbers that is not empty has a least element.
LEMMA LeastLemma ==
    ASSUME NEW S, S \subseteq Nat, S # {}
    PROVE  \E m \in S : \A n \in S : m <= n
<1> DEFINE Below == {0 .. n : n \in S}
           R == StrictSubsetOrdering(Nat)
<1>1. Below \subseteq FiniteSubsetsOf(Nat)
  <2>1. \A n \in S : 0 .. n \in SUBSET Nat /\ IsFiniteSet(0 .. n)
      BY FS_Interval
  <2>2. QED
      BY <2>1 DEF FiniteSubsetsOf
<1>2. Below # {}
    OBVIOUS
<1>3. IsWellFoundedOn(R, FiniteSubsetsOf(Nat))
    BY FS_StrictSubsetOrderingWellFounded
<1>4. PICK b \in Below : \A c \in Below : ~ (<<c, b>> \in R)
  <2> HIDE DEF Below, R
  <2>1. QED
      BY <1>1, <1>2, <1>3, WFMin
<1>5. PICK m \in S : b = 0 .. m
    OBVIOUS
<1>6. ASSUME NEW n \in S, n < m PROVE FALSE
  <2>1. 0 .. n \in Below /\ 0 .. n \in SUBSET Nat /\ b \in SUBSET Nat
      BY <1>5
  <2>2. 0 .. n \subseteq b /\ m \in b /\ m \notin 0 .. n
      BY <1>5, <1>6
  <2>3. <<0 .. n, b>> \in R
      BY <2>1, <2>2 DEF StrictSubsetOrdering
  <2>4. QED
      BY <1>4, <2>1, <2>3
<1>7. QED
    BY <1>6

\* Induction over the natural numbers, for the elements of a set.
LEMMA NatSetInduction ==
    ASSUME NEW S, 0 \in S, \A n \in Nat : n \in S => n + 1 \in S
    PROVE  Nat \subseteq S
<1> SUFFICES ASSUME Nat \ S # {} PROVE FALSE
    OBVIOUS
<1>1. PICK m \in Nat \ S : \A n \in Nat \ S : m <= n
    BY LeastLemma
<1>2. m # 0 /\ m - 1 \in Nat /\ m - 1 \notin Nat \ S
    BY <1>1
<1>3. QED
    BY <1>1, <1>2

-----------------------------------------------------------------------------
(***************************************************************************)
(* Reachability is reflexive and transitive, and contains the edges.       *)
(***************************************************************************)

LEMMA ReachSelf ==
    ASSUME NEW g, NEW a \in Vertices(g)
    PROVE  a \in ReachableFrom(a, g)
    BY DEF ReachableFrom

LEMMA ReachEdge ==
    ASSUME NEW g, g \in [Vertices(g) -> SUBSET Vertices(g)],
           NEW a \in Vertices(g), NEW b \in g[a]
    PROVE  b \in ReachableFrom(a, g)
    BY DEF ReachableFrom, IsClosed

LEMMA ReachTrans ==
    ASSUME NEW g, NEW a, NEW b \in ReachableFrom(a, g), NEW c \in ReachableFrom(b, g)
    PROVE  c \in ReachableFrom(a, g)
    BY DEF ReachableFrom

\* A vertex and those it reaches and is reached by have one component.
LEMMA SameComponent ==
    ASSUME NEW g, NEW b, NEW a \in ComponentOf(b, g)
    PROVE  ComponentOf(a, g) = ComponentOf(b, g)
<1>1. a \in ReachableFrom(b, g) /\ b \in ReachableFrom(a, g)
    BY DEF ComponentOf
<1>2. \A c : c \in ReachableFrom(a, g) <=> c \in ReachableFrom(b, g)
    BY <1>1, ReachTrans
<1>3. \A c : a \in ReachableFrom(c, g) <=> b \in ReachableFrom(c, g)
    BY <1>1, ReachTrans
<1>4. QED
    BY <1>2, <1>3 DEF ComponentOf

\* No path leads out of a closed set.
LEMMA ReachClosed ==
    ASSUME NEW g, NEW S \in SUBSET Vertices(g), IsClosed(S, g),
           NEW a \in S, NEW b \in ReachableFrom(a, g)
    PROVE  b \in S
    BY DEF ReachableFrom

\* Where every edge leads to a lesser vertex, no path leads back.
LEMMA DescendingIsAcyclic ==
    ASSUME NEW g, g \in [Vertices(g) -> SUBSET Vertices(g)], Vertices(g) \subseteq Nat,
           \A a \in Vertices(g) : \A b \in g[a] : b < a
    PROVE  IsAcyclic(g)
<1> SUFFICES ASSUME NEW a \in Vertices(g), NEW b \in g[a], a \in ReachableFrom(b, g)
             PROVE  FALSE
    BY DEF IsAcyclic
<1> DEFINE S == {c \in Vertices(g) : c <= b}
<1>1. a \in Nat /\ b \in Nat /\ b < a /\ b \in S /\ a \notin S
    OBVIOUS
<1>2. IsClosed(S, g)
  <2>1. ASSUME NEW c \in S, NEW d \in g[c] PROVE d \in S
    <3>1. c \in Vertices(g) /\ d \in Vertices(g) /\ c \in Nat /\ d \in Nat /\ d < c /\ c <= b
        OBVIOUS
    <3>2. QED
        BY <1>1, <3>1
  <2>2. QED
      BY <2>1 DEF IsClosed
<1>3. a \in S
    BY <1>1, <1>2, ReachClosed
<1>4. QED
    BY <1>1, <1>3

\* Where every vertex comes after those its edges lead to, no path leads back.
LEMMA TopologicalIsAcyclic ==
    ASSUME NEW g, g \in [Vertices(g) -> SUBSET Vertices(g)],
           NEW ordering \in Seq(Vertices(g)), IsTopological(ordering, g),
           \A v \in Vertices(g) : \E i \in 1 .. Len(ordering) : ordering[i] = v
    PROVE  IsAcyclic(g)
<1> SUFFICES ASSUME NEW a \in Vertices(g), NEW b \in g[a], a \in ReachableFrom(b, g)
             PROVE  FALSE
    BY DEF IsAcyclic
<1> DEFINE n == Len(ordering)
<1>1. /\ n \in Nat
      /\ \A i, j \in 1 .. n : ordering[j] \in g[ordering[i]] => j < i
  <2>1. n \in Nat /\ DOMAIN ordering = 1 .. n
      OBVIOUS
  <2>2. QED
      BY <2>1 DEF IsTopological
<1>2. PICK p \in 1 .. Len(ordering) : ordering[p] = b
    OBVIOUS
<1> DEFINE S == {ordering[i] : i \in 1 .. p}
<1>3. p \in Nat /\ p <= n /\ b \in S /\ S \subseteq Vertices(g)
  <2>1. p \in Nat /\ p <= n /\ p \in 1 .. p
      BY <1>1, <1>2
  <2>2. \A i \in 1 .. n : ordering[i] \in Vertices(g)
      OBVIOUS
  <2>3. 1 .. p \subseteq 1 .. n
      BY <1>1, <2>1
  <2>4. QED
      BY <1>2, <2>1, <2>2, <2>3
<1>4. IsClosed(S, g)
  <2>1. ASSUME NEW c \in S, NEW d \in g[c] PROVE d \in S
    <3>1. PICK i \in 1 .. p : c = ordering[i]
        OBVIOUS
    <3>2. PICK j \in 1 .. Len(ordering) : ordering[j] = d
        BY <1>3
    <3>3. i \in 1 .. n /\ j < i
      <4>1. i \in 1 .. n
          BY <1>1, <1>3, <3>1
      <4>2. ordering[j] \in g[ordering[i]]
          BY <3>1, <3>2
      <4>3. QED
          BY <1>1, <3>2, <4>1, <4>2
    <3>4. j \in 1 .. p
        BY <1>3, <3>2, <3>3
    <3>5. QED
        BY <3>2, <3>4
  <2>2. QED
      BY <2>1 DEF IsClosed
<1>5. a \in S
    BY <1>3, <1>4, ReachClosed
<1>6. PICK i \in 1 .. p : a = ordering[i]
    BY <1>5
<1>7. p < i
  <2>1. i \in 1 .. n /\ ordering[p] \in g[ordering[i]]
      BY <1>1, <1>2, <1>3, <1>6
  <2>2. QED
      BY <1>1, <1>2, <2>1
<1>8. QED
    BY <1>3, <1>6, <1>7

=============================================================================
