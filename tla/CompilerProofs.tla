--------------------------- MODULE CompilerProofs ---------------------------
(***************************************************************************)
(* Whatever the sources, however deep the loads nest, whichever stage      *)
(* fails and however modules are unloaded:                                 *)
(*   - the tables, the frames and the search for components stay well      *)
(*     typed;                                                              *)
(*   - the two tables of polymorphic instances describe the same instances;*)
(*   - the tables have of a unit what the stages its load has been through *)
(*     have to put there (ProgressInv).                                    *)
(***************************************************************************)
(* The last is what CompilerSafetyProofs begins with.  What a stage does   *)
(* to the tables and to the frame of its load is stated once, in a lemma   *)
(* <Stage>Effect.                                                          *)
(***************************************************************************)
EXTENDS Compiler, Lemmas

\* The theorems about the component search, for the run a load begins: which
\* graphs a search may start on by itself does not matter.
Search == INSTANCE TarjanProofs WITH Graphs <- {}

\* All loads but the innermost are running code.  The innermost one looks up
\* only units that have a TypeMapping, and while it searches for components
\* the graph is that of its new units.
FramesOK ==
    /\ \A i \in 1 .. Len(loads) : i # Len(loads) => loads[i].phase = "run"
    /\ loads # << >> /\ Top.phase = "instances" =>
          /\ Top.queue # << >>
          /\ \A i \in 1 .. Len(Top.queue) : Top.queue[i] \in DOMAIN mappings
    /\ loads # << >> /\ Top.phase = "components" =>
          /\ Search!TarjanInv
          /\ DOMAIN graph = 0 .. Len(Top.new) - 1

TypeInv == CompilerTypeOK /\ FramesOK

-----------------------------------------------------------------------------
(***************************************************************************)
(* Tables.                                                                 *)
(***************************************************************************)

\* insert of a hash map.
LEMMA ExtendLemma ==
    ASSUME NEW D, NEW T, NEW f, DOMAIN f \subseteq D, f \in [DOMAIN f -> T],
           NEW x \in D, NEW y \in T
    PROVE  /\ DOMAIN Extend(f, x, y) = DOMAIN f \cup {x}
           /\ DOMAIN Extend(f, x, y) \subseteq D
           /\ Extend(f, x, y) \in [DOMAIN Extend(f, x, y) -> T]
<1>1. DOMAIN Extend(f, x, y) = DOMAIN f \cup {x}
    BY DEF Extend
<1>2. Extend(f, x, y) \in [DOMAIN f \cup {x} -> T]
    BY DEF Extend
<1>3. QED
    BY <1>1, <1>2

\* remove of a hash map, for several keys.
LEMMA WithoutLemma ==
    ASSUME NEW D, NEW T, NEW f, DOMAIN f \subseteq D, f \in [DOMAIN f -> T], NEW S
    PROVE  /\ DOMAIN Without(f, S) = DOMAIN f \ S
           /\ DOMAIN Without(f, S) \subseteq D
           /\ Without(f, S) \in [DOMAIN Without(f, S) -> T]
<1>1. DOMAIN Without(f, S) = DOMAIN f \ S
    BY DEF Without
<1>2. Without(f, S) \in [DOMAIN f \ S -> T]
    BY DEF Without
<1>3. QED
    BY <1>1, <1>2

Mappings == [poly : SUBSET References, direct : SUBSET Nat]

\* remove_unit leaves well-typed tables.
LEMMA RemoveUnitsTypes ==
    ASSUME StoreTypeOK, NEW S, RemoveUnits(S)
    PROVE  StoreTypeOK'
<1>1. uids' \in Nat /\ code' \subseteq Nat /\ imports' \subseteq Nat \X Nat
    BY DEF StoreTypeOK, RemoveUnits
<1>2. /\ DOMAIN names' \subseteq 0 .. uids' /\ nodes' \subseteq Nat /\ vals' \subseteq Nat
      /\ llvmUnits' \subseteq SUBSET Nat
  <2>1. DOMAIN names' \subseteq DOMAIN names
      BY DEF RemoveUnits, Without
  <2>2. QED
      BY <2>1 DEF StoreTypeOK, RemoveUnits
<1>3. DOMAIN exprs' \subseteq Nat /\ exprs' \in [DOMAIN exprs' -> Sources]
  <2>1. exprs' = Without(exprs, S)
      BY DEF RemoveUnits
  <2>2. DOMAIN exprs \subseteq Nat /\ exprs \in [DOMAIN exprs -> Sources]
      BY DEF StoreTypeOK
  <2>3. QED
      BY <2>1, <2>2, WithoutLemma
<1>4. DOMAIN types' \subseteq Nat /\ types' \in [DOMAIN types' -> Infos]
  <2>1. types' = Without(types, S)
      BY DEF RemoveUnits
  <2>2. DOMAIN types \subseteq Nat /\ types \in [DOMAIN types -> Infos]
      BY DEF StoreTypeOK
  <2>3. QED
      BY <2>1, <2>2, WithoutLemma
<1>5. DOMAIN mappings' \subseteq Nat /\ mappings' \in [DOMAIN mappings' -> Mappings]
  <2>1. mappings' = Without(mappings, S)
      BY DEF RemoveUnits
  <2>2. DOMAIN mappings \subseteq Nat /\ mappings \in [DOMAIN mappings -> Mappings]
      BY DEF StoreTypeOK, Mappings
  <2>3. QED
      BY <2>1, <2>2, WithoutLemma
<1>6. /\ DOMAIN codegenMapping' \subseteq Nat
      /\ codegenMapping' \in [DOMAIN codegenMapping' -> SUBSET Nat]
  <2>1. codegenMapping' = Without(codegenMapping, S)
      BY DEF RemoveUnits
  <2>2. DOMAIN codegenMapping \subseteq Nat /\ codegenMapping \in [DOMAIN codegenMapping -> SUBSET Nat]
      BY DEF StoreTypeOK
  <2>3. QED
      BY <2>1, <2>2, WithoutLemma
<1>7. /\ DOMAIN polyParents' \subseteq Nat
      /\ polyParents' \in [DOMAIN polyParents' -> Nat \X Generics]
  <2>1. polyParents' = Without(polyParents, S)
      BY DEF RemoveUnits
  <2>2. DOMAIN polyParents \subseteq Nat /\ polyParents \in [DOMAIN polyParents -> Nat \X Generics]
      BY DEF StoreTypeOK
  <2>3. QED
      BY <2>1, <2>2, WithoutLemma
<1>8. /\ DOMAIN polyInstances' \subseteq References
      /\ polyInstances' \in [DOMAIN polyInstances' -> Nat]
  <2>1. PICK G : polyInstances' = Without(polyInstances, G)
      BY DEF RemoveUnits
  <2>2. QED
      BY <2>1, WithoutLemma DEF StoreTypeOK
<1>9. QED
    BY <1>1, <1>2, <1>3, <1>4, <1>5, <1>6, <1>7, <1>8 DEF StoreTypeOK, Mappings

\* New entries of the tables keyed by unit.
LEMMA NewExpr ==
    ASSUME StoreTypeOK, NEW u \in Nat, NEW source \in Sources,
           exprs' = Extend(exprs, u, source)
    PROVE  DOMAIN exprs' \subseteq Nat /\ exprs' \in [DOMAIN exprs' -> Sources]
<1>1. DOMAIN exprs \subseteq Nat /\ exprs \in [DOMAIN exprs -> Sources]
    BY DEF StoreTypeOK
<1>2. /\ DOMAIN Extend(exprs, u, source) \subseteq Nat
      /\ Extend(exprs, u, source) \in [DOMAIN Extend(exprs, u, source) -> Sources]
    BY <1>1, ExtendLemma
<1>3. QED
    BY <1>2

LEMMA NewTypeInfo ==
    ASSUME StoreTypeOK, NEW u \in Nat, NEW info \in Infos,
           types' = Extend(types, u, info)
    PROVE  DOMAIN types' \subseteq Nat /\ types' \in [DOMAIN types' -> Infos]
<1>1. DOMAIN types \subseteq Nat /\ types \in [DOMAIN types -> Infos]
    BY DEF StoreTypeOK
<1>2. /\ DOMAIN Extend(types, u, info) \subseteq Nat
      /\ Extend(types, u, info) \in [DOMAIN Extend(types, u, info) -> Infos]
    BY <1>1, ExtendLemma
<1>3. QED
    BY <1>2

LEMMA NewMapping ==
    ASSUME StoreTypeOK, NEW u \in Nat, NEW mapping \in Mappings,
           mappings' = Extend(mappings, u, mapping)
    PROVE  DOMAIN mappings' \subseteq Nat /\ mappings' \in [DOMAIN mappings' -> Mappings]
<1>1. DOMAIN mappings \subseteq Nat /\ mappings \in [DOMAIN mappings -> Mappings]
    BY DEF StoreTypeOK, Mappings
<1>2. /\ DOMAIN Extend(mappings, u, mapping) \subseteq Nat
      /\ Extend(mappings, u, mapping) \in [DOMAIN Extend(mappings, u, mapping) -> Mappings]
    BY <1>1, ExtendLemma
<1>3. QED
    BY <1>2

LEMMA NewParent ==
    ASSUME StoreTypeOK, NEW u \in Nat, NEW sym \in (Nat \X Generics),
           polyParents' = Extend(polyParents, u, sym)
    PROVE  DOMAIN polyParents' \subseteq Nat /\ polyParents' \in [DOMAIN polyParents' -> (Nat \X Generics)]
<1>1. DOMAIN polyParents \subseteq Nat /\ polyParents \in [DOMAIN polyParents -> (Nat \X Generics)]
    BY DEF StoreTypeOK
<1>2. /\ DOMAIN Extend(polyParents, u, sym) \subseteq Nat
      /\ Extend(polyParents, u, sym) \in [DOMAIN Extend(polyParents, u, sym) -> (Nat \X Generics)]
  <2>1. PICK T : T = Nat \X Generics
      OBVIOUS
  <2>2. polyParents \in [DOMAIN polyParents -> T] /\ sym \in T
      BY <1>1, <2>1
  <2>3. /\ Extend(polyParents, u, sym) \in [(DOMAIN polyParents \cup {u}) -> T]
        /\ DOMAIN Extend(polyParents, u, sym) = DOMAIN polyParents \cup {u}
      BY <2>2 DEF Extend
  <2>4. QED
      BY <1>1, <2>1, <2>3
<1>3. QED
    BY <1>2

-----------------------------------------------------------------------------
(***************************************************************************)
(* The stack of loads.                                                     *)
(***************************************************************************)

\* A step of the innermost load changes its frame and no other.
LEMMA SetTopLemma ==
    ASSUME loads \in Seq(Frames), loads # << >>, NEW frame \in Frames, SetTop(frame)
    PROVE  /\ loads' \in Seq(Frames) /\ loads' # << >>
           /\ Len(loads) \in Nat \ {0} /\ Len(loads') = Len(loads)
           /\ Top \in Frames /\ Top' = frame
           /\ \A i \in 1 .. Len(loads) : i # Len(loads) => loads'[i] = loads[i]
<1>1. Len(loads) \in Nat \ {0} /\ Len(loads) \in 1 .. Len(loads) /\ loads[Len(loads)] \in Frames
    BY TopLemma
<1>2. loads' = [loads EXCEPT ![Len(loads)] = frame]
    BY DEF SetTop
<1>3. loads' \in Seq(Frames) /\ Len(loads') = Len(loads)
    BY <1>1, <1>2
<1>4. loads'[Len(loads)] = frame
    BY <1>1, <1>2
<1>5. \A i \in 1 .. Len(loads) : i # Len(loads) => loads'[i] = loads[i]
    BY <1>1, <1>2
<1>6. loads' # << >>
    BY <1>1, <1>3
<1>7. QED
    BY <1>1, <1>3, <1>4, <1>5, <1>6 DEF Top

\* It may enter any phase in which it holds no queue and no graph.
LEMMA SetTopKeepsFrames ==
    ASSUME loads \in Seq(Frames), FramesOK, loads # << >>,
           NEW frame \in Frames, SetTop(frame),
           frame.phase \notin {"instances", "components"}
    PROVE  loads' \in Seq(Frames) /\ FramesOK'
    BY SetTopLemma DEF FramesOK

LEMMA GoToKeepsFrames ==
    ASSUME loads \in Seq(Frames), FramesOK, loads # << >>,
           NEW phase \in Phases, phase \notin {"instances", "components"}, GoTo(phase)
    PROVE  loads' \in Seq(Frames) /\ FramesOK'
<1>1. Top \in Frames
    BY TopLemma DEF Top
<1>2. /\ [Top EXCEPT !.phase = phase] \in Frames
      /\ [Top EXCEPT !.phase = phase].phase = phase
    BY <1>1 DEF Frames
<1>3. QED
    BY <1>2, SetTopKeepsFrames DEF GoTo

\* When a load returns, the one that asked for it goes on running.
LEMMA ReturnKeepsFrames ==
    ASSUME loads \in Seq(Frames), FramesOK, loads # << >>, Return
    PROVE  loads' \in Seq(Frames) /\ FramesOK'
<1>1. Len(loads) \in Nat \ {0} /\ Len(loads) - 1 \in 0 .. Len(loads)
    BY TopLemma
<1>2. /\ loads' \in Seq(Frames) /\ Len(loads') = Len(loads) - 1
      /\ \A i \in 1 .. Len(loads) - 1 : loads'[i] = loads[i]
    BY <1>1, PrefixLemma DEF Return
<1>3. \A i \in 1 .. Len(loads') : loads'[i].phase = "run"
  <2>1. \A i \in 1 .. Len(loads) - 1 : i \in 1 .. Len(loads) /\ i # Len(loads)
      BY <1>1
  <2>2. QED
      BY <1>2, <2>1 DEF FramesOK
<1>4. loads' # << >> => Top'.phase = "run"
    BY <1>2, <1>3, TopLemma DEF Top
<1>5. QED
    BY <1>2, <1>3, <1>4 DEF FramesOK

\* A panic changes no table.
LEMMA PanicKeepsTypes ==
    ASSUME TypeInv, NEW assertion \in Assertions, Panic(assertion)
    PROVE  TypeInv'
<1>1. UNCHANGED <<storeVars, loads, interpImports, sccVars>> /\ panic' \in Assertions
    BY DEF Panic
<1>2. CompilerTypeOK'
    BY <1>1 DEF TypeInv, CompilerTypeOK, StoreTypeOK, storeVars
<1>3. Search!TarjanInv => Search!TarjanInv'
    BY <1>1, Search!TarjanStutterKeepsInv DEF sccVars, Search!tarjanVars
<1>4. FramesOK'
    BY <1>1, <1>3 DEF TypeInv, FramesOK, Top, storeVars, sccVars
<1>5. QED
    BY <1>2, <1>4 DEF TypeInv

-----------------------------------------------------------------------------
(***************************************************************************)
(* Requests.                                                               *)
(***************************************************************************)

LEMMA FrameLemma ==
    ASSUME NEW u \in Nat, NEW s \in Sources, NEW imps \in SUBSET Nat,
           NEW phase \in Phases
    PROVE  Frame(u, s, imps, phase) \in Frames /\ Frame(u, s, imps, phase).phase = phase
<1>1. <<u>> \in Seq(Nat) /\ << >> \in Seq(Nat) /\ Intrinsics \in Nat
    BY DEF Intrinsics
<1>2. imps \cup {Intrinsics} \in SUBSET Nat
    BY <1>1
<1>3. QED
    BY <1>1, <1>2 DEF Frame, Frames

LEMMA CreateUnitTypes ==
    ASSUME StoreTypeOK, NEW name, CreateUnit(uids + 1, name)
    PROVE  uids' \in Nat /\ DOMAIN names' \subseteq 0 .. uids'
    BY DEF StoreTypeOK, CreateUnit, Extend

\* A load by the interpreter.
LEMMA LoadCodeTypes ==
    ASSUME TypeInv, NEW s \in Sources, LoadCode(s)
    PROVE  TypeInv'
<1> DEFINE u == uids + 1
<1>1. CASE Panic("tried to load two modules called")
    BY <1>1, PanicKeepsTypes DEF Assertions
<1>2. CASE ~Panic("tried to load two modules called")
  <2>1. /\ CreateUnit(u, NameFor(s, u))
        /\ code' = code \cup {u}
        /\ loads' = <<Frame(u, s, interpImports, "parse")>>
        /\ UNCHANGED <<imports, exprs, nodes, types, mappings, codegenMapping,
                       llvmUnits, vals, polyInstances, polyParents, hostVars, sccVars>>
      BY <1>2 DEF LoadCode
  <2>2. u \in Nat /\ interpImports \in SUBSET Nat
      BY DEF TypeInv, CompilerTypeOK, StoreTypeOK
  <2>3. uids' \in Nat /\ DOMAIN names' \subseteq 0 .. uids'
      BY <2>1, CreateUnitTypes DEF TypeInv, CompilerTypeOK
  <2>4. StoreTypeOK'
      BY <2>1, <2>2, <2>3 DEF TypeInv, CompilerTypeOK, StoreTypeOK
  <2>5. /\ Frame(u, s, interpImports, "parse") \in Frames
        /\ Frame(u, s, interpImports, "parse").phase = "parse"
      BY <2>2, FrameLemma DEF Phases
  <2>6. /\ loads' \in Seq(Frames) /\ Len(loads') = 1
        /\ loads'[1] = Frame(u, s, interpImports, "parse")
      BY <2>1, <2>5
  <2>7. FramesOK'
      BY <2>5, <2>6 DEF FramesOK, Top
  <2>8. QED
      BY <2>1, <2>4, <2>6, <2>7 DEF TypeInv, CompilerTypeOK, hostVars
<1>3. QED
    BY <1>1, <1>2

\* A load by running code, on top of the one it belongs to.
LEMMA LoadExprTypes ==
    ASSUME TypeInv, NEW s \in Sources, NEW imps \in SUBSET UsableModules,
           LoadExpr(s, imps)
    PROVE  TypeInv'
<1> DEFINE u == uids + 1
           frame == Frame(u, s, imps, "structure")
<1>1. CASE Panic("tried to load two modules called")
    BY <1>1, PanicKeepsTypes DEF Assertions
<1>2. CASE ~Panic("tried to load two modules called")
  <2>1. /\ CreateUnit(u, NameFor(s, u))
        /\ exprs' = Extend(exprs, u, s)
        /\ imports' = imports \cup ({u} \X (imps \cup {Intrinsics}))
        /\ loads' = Append(loads, frame)
        /\ UNCHANGED <<code, nodes, types, mappings, codegenMapping,
                       llvmUnits, vals, polyInstances, polyParents, hostVars, sccVars>>
      BY <1>2 DEF LoadExpr
  <2>2. u \in Nat /\ imps \in SUBSET Nat /\ Intrinsics \in Nat
      BY DEF TypeInv, CompilerTypeOK, StoreTypeOK, UsableModules, Intrinsics
  <2>3. uids' \in Nat /\ DOMAIN names' \subseteq 0 .. uids'
      BY <2>1, CreateUnitTypes DEF TypeInv, CompilerTypeOK
  <2>4. DOMAIN exprs' \subseteq Nat /\ exprs' \in [DOMAIN exprs' -> Sources]
    <3>1. StoreTypeOK
        BY DEF TypeInv, CompilerTypeOK
    <3>2. QED
        BY <2>1, <2>2, <3>1, NewExpr
  <2>5. imports' \subseteq Nat \X Nat
      BY <2>1, <2>2 DEF TypeInv, CompilerTypeOK, StoreTypeOK
  <2>6. StoreTypeOK'
      BY <2>1, <2>3, <2>4, <2>5 DEF TypeInv, CompilerTypeOK, StoreTypeOK
  <2>7. frame \in Frames /\ frame.phase = "structure"
      BY <2>2, FrameLemma DEF Phases
  <2>8. loads \in Seq(Frames) /\ loads # << >> /\ Top.phase = "run"
      BY DEF TypeInv, CompilerTypeOK, LoadExpr, UserCode, At
  <2>9. /\ loads' \in Seq(Frames) /\ Len(loads') = Len(loads) + 1 /\ Len(loads) \in Nat
        /\ \A i \in 1 .. Len(loads) : loads'[i] = loads[i]
        /\ loads'[Len(loads) + 1] = frame
      BY <2>1, <2>7, <2>8, PushLemma
  <2>10. \A i \in 1 .. Len(loads) : loads[i].phase = "run"
      BY <2>8 DEF TypeInv, FramesOK, Top
  <2>11. \A i \in 1 .. Len(loads') : i # Len(loads') => loads'[i].phase = "run"
      BY <2>9, <2>10
  <2>12. FramesOK'
      BY <2>7, <2>9, <2>11 DEF FramesOK, Top
  <2>13. QED
      BY <2>1, <2>6, <2>9, <2>12 DEF TypeInv, CompilerTypeOK, hostVars
<1>3. QED
    BY <1>1, <1>2

\* remove_unit while code is running: no frame is touched.
LEMMA UnloadTypes ==
    ASSUME TypeInv, UserCode, NEW S, RemoveUnits(S), UNCHANGED <<loads, hostVars, sccVars>>
    PROVE  TypeInv'
<1>1. StoreTypeOK'
    BY RemoveUnitsTypes DEF TypeInv, CompilerTypeOK
<1>2. FramesOK'
    BY DEF TypeInv, FramesOK, UserCode, At, Top
<1>3. QED
    BY <1>1, <1>2 DEF TypeInv, CompilerTypeOK, hostVars

-----------------------------------------------------------------------------
(***************************************************************************)
(* Stages.                                                                 *)
(***************************************************************************)

\* What every stage of a load relies on.
LEMMA StageLemma ==
    ASSUME TypeInv, loads # << >>
    PROVE  /\ StoreTypeOK /\ FramesOK /\ loads \in Seq(Frames)
           /\ interpImports \subseteq Nat /\ panic \in {Running} \cup Assertions
           /\ Top \in Frames
           /\ Top.unit \in Nat /\ Top.source \in Sources /\ Top.imports \in SUBSET Nat
           /\ Top.new \in Seq(Nat) /\ Top.queue \in Seq(Nat)
           /\ Top.refs \in SUBSET References /\ Top.groups \in SUBSET SUBSET Nat
<1>1. Top \in Frames
    BY TopLemma DEF TypeInv, CompilerTypeOK, Top
<1>2. QED
    BY <1>1 DEF TypeInv, CompilerTypeOK, Frames

LEMMA ParseTypes ==
    ASSUME TypeInv, Parse
    PROVE  TypeInv'
<1>1. /\ loads # << >> /\ GoTo("structure")
      /\ exprs' = Extend(exprs, Top.unit, Top.source)
      /\ imports' = imports \cup ({Top.unit} \X Top.imports)
      /\ UNCHANGED <<uids, names, code, nodes, types, mappings, codegenMapping,
                     llvmUnits, vals, polyInstances, polyParents, hostVars, sccVars>>
    BY DEF Parse, At
<1>2. /\ StoreTypeOK /\ FramesOK /\ loads \in Seq(Frames)
      /\ Top.unit \in Nat /\ Top.source \in Sources /\ Top.imports \in SUBSET Nat
    BY <1>1, StageLemma
<1>3. DOMAIN exprs' \subseteq Nat /\ exprs' \in [DOMAIN exprs' -> Sources]
    BY <1>1, <1>2, NewExpr
<1>4. StoreTypeOK'
    BY <1>1, <1>2, <1>3 DEF StoreTypeOK
<1>5. loads' \in Seq(Frames) /\ FramesOK'
    BY <1>1, <1>2, GoToKeepsFrames DEF Phases
<1>6. QED
    BY <1>1, <1>4, <1>5 DEF TypeInv, CompilerTypeOK, hostVars

LEMMA ParseErrorTypes ==
    ASSUME TypeInv, ParseError
    PROVE  TypeInv'
<1>1. loads # << >> /\ Return /\ UNCHANGED <<storeVars, hostVars, sccVars>>
    BY DEF ParseError, At
<1>2. StoreTypeOK /\ FramesOK /\ loads \in Seq(Frames)
    BY <1>1, StageLemma
<1>3. loads' \in Seq(Frames) /\ FramesOK'
    BY <1>1, <1>2, ReturnKeepsFrames
<1>4. StoreTypeOK'
    BY <1>1, <1>2 DEF StoreTypeOK, storeVars
<1>5. QED
    BY <1>1, <1>3, <1>4 DEF TypeInv, CompilerTypeOK, hostVars

LEMMA StructureTypes ==
    ASSUME TypeInv, Structure
    PROVE  TypeInv'
<1>1. /\ loads # << >> /\ GoTo("typecheck") /\ nodes' = nodes \cup {Top.unit}
      /\ UNCHANGED <<uids, names, code, imports, exprs, types, mappings, codegenMapping,
                     llvmUnits, vals, polyInstances, polyParents, hostVars, sccVars>>
    BY DEF Structure, At
<1>2. StoreTypeOK /\ FramesOK /\ loads \in Seq(Frames) /\ Top.unit \in Nat
    BY <1>1, StageLemma
<1>3. loads' \in Seq(Frames) /\ FramesOK'
    BY <1>1, <1>2, GoToKeepsFrames DEF Phases
<1>4. StoreTypeOK'
    BY <1>1, <1>2 DEF StoreTypeOK
<1>5. QED
    BY <1>1, <1>3, <1>4 DEF TypeInv, CompilerTypeOK, hostVars

\* The steps that only enter another phase.
LEMMA GoToTypes ==
    ASSUME TypeInv, loads # << >>, NEW phase \in Phases,
           phase \notin {"instances", "components"}, GoTo(phase),
           UNCHANGED <<storeVars, hostVars>>
    PROVE  TypeInv'
<1>1. StoreTypeOK /\ FramesOK /\ loads \in Seq(Frames)
    BY StageLemma
<1>2. loads' \in Seq(Frames) /\ FramesOK'
    BY <1>1, GoToKeepsFrames
<1>3. StoreTypeOK'
    BY <1>1 DEF StoreTypeOK, storeVars
<1>4. QED
    BY <1>2, <1>3 DEF TypeInv, CompilerTypeOK, hostVars

\* What a reference may resolve to is in scope.
LEMMA MappingLemma ==
    ASSUME NEW refs \in SUBSET (Generics \X Types), NEW table,
           NEW scope \in SUBSET Nat, NEW direct \in SUBSET Nat
    PROVE  MappingOf(refs, table, scope, direct) \in Mappings
<1>1. \A r \in refs : r[1] \in Generics /\ r[2] \in Types
    OBVIOUS
<1>2. \A r \in refs : \A m \in Matches(r[1], r[2], table, scope) : m.uid \in Nat
    BY DEF Matches
<1>3. MappingOf(refs, table, scope, direct).poly \in SUBSET References
    BY <1>1, <1>2 DEF MappingOf, References
<1>4. MappingOf(refs, table, scope, direct).direct \in SUBSET Nat
  <2>1. ASSUME NEW x \in MappingOf(refs, table, scope, direct).direct, x \notin direct
        PROVE  \E r \in refs : \E m \in Matches(r[1], r[2], table, scope) : x = m.uid
      BY <2>1 DEF MappingOf
  <2>2. QED
      BY <1>2, <2>1
<1>5. QED
    BY <1>3, <1>4 DEF MappingOf, Mappings

LEMMA FindTypeDefLemma ==
    ASSUME NEW name \in TypeNames, NEW u \in Nat, NEW structs, NEW imps \in SUBSET Nat
    PROVE  FindTypeDef(name, u, structs, imps) \subseteq Types
<1>1. I64 \in TypeNames /\ Intrinsics \in Nat
    BY DEF TypeNames, Intrinsics
<1>2. CASE name = I64
  <2>1. Prim \in Types
      BY <1>1 DEF Types, Prim
  <2>2. QED
      BY <1>2, <2>1 DEF FindTypeDef
<1>3. CASE name # I64
  <2>1. SUFFICES ASSUME NEW t \in FindTypeDef(name, u, structs, imps)
                 PROVE  \E w \in Nat : t = [name |-> name, uid |-> w]
      BY DEF Types
  <2>2. CASE name \in structs
      BY <1>3, <2>2 DEF FindTypeDef
  <2>3. CASE name \notin structs
      BY <1>3, <2>3 DEF FindTypeDef
  <2>4. QED
      BY <2>2, <2>3
<1>4. QED
    BY <1>2, <1>3

\* The tables after typecheck_module: the module's symbols and types, and what
\* its references resolve to.
LEMMA TypecheckModuleTypes ==
    ASSUME TypeInv, TypecheckModule
    PROVE  TypeInv'
<1> DEFINE u     == Top.unit
           info  == ModuleInfo(Top.source)
           table == Extend(types, u, info)
           scope == Top.imports \cup {u}
           uses  == Program[Top.source].uses
           at(n) == FindTypeDef(n, u, info.structs, Top.imports)
           refs  == UNION {{<<use[1], t>> : t \in at(use[2])} : use \in uses}
           mapping == MappingOf(refs, table, scope, Top.imports \ {Intrinsics})
           done  == [Top EXCEPT !.phase = "instances", !.queue = <<u>>,
                                !.refs = mapping.poly]
<1>1. /\ loads # << >>
      /\ \/ Panic("import gone")
         \/ /\ types' = table
            /\ \/ GoTo("failed") /\ UNCHANGED mappings
               \/ mappings' = Extend(mappings, u, mapping) /\ SetTop(done)
            /\ UNCHANGED <<sourceVars, imports, codegenMapping, llvmUnits,
                           polyInstances, polyParents, hostVars, sccVars>>
    BY DEF TypecheckModule, At
<1>2. /\ StoreTypeOK /\ FramesOK /\ loads \in Seq(Frames) /\ Top \in Frames
      /\ u \in Nat /\ Top.source \in Sources /\ Top.imports \in SUBSET Nat
    BY <1>1, StageLemma
<1>3. CASE Panic("import gone")
    BY <1>3, PanicKeepsTypes DEF Assertions
<1>4. CASE ~Panic("import gone")
  <2>1. info \in Infos /\ info.structs \subseteq TypeNames
      BY <1>2, ProgramAssumption DEF ModuleInfo, Infos, TypeNames
  <2>2. DOMAIN types' \subseteq Nat /\ types' \in [DOMAIN types' -> Infos]
      BY <1>1, <1>2, <1>4, <2>1, NewTypeInfo
  <2>3. \A use \in uses : use[1] \in Generics /\ use[2] \in TypeNames
      BY <1>2, ProgramAssumption
  <2>4. \A use \in uses : at(use[2]) \subseteq Types
      BY <1>2, <2>3, FindTypeDefLemma
  <2>5. refs \in SUBSET (Generics \X Types)
      BY <2>3, <2>4
  <2>6. scope \in SUBSET Nat /\ Top.imports \ {Intrinsics} \in SUBSET Nat
      BY <1>2
  <2> HIDE DEF refs, table, scope
  <2>7. mapping \in Mappings
      BY <2>5, <2>6, MappingLemma
  <2>8. /\ uids' \in Nat /\ DOMAIN names' \subseteq 0 .. uids'
        /\ code' \subseteq Nat /\ nodes' \subseteq Nat /\ vals' \subseteq Nat
        /\ exprs' = exprs
        /\ UNCHANGED <<imports, codegenMapping, llvmUnits, polyInstances,
                       polyParents, interpImports, panic>>
      BY <1>1, <1>2, <1>4 DEF sourceVars, hostVars, StoreTypeOK
  <2>9. CASE GoTo("failed") /\ UNCHANGED mappings
    <3>1. loads' \in Seq(Frames) /\ FramesOK'
        BY <1>1, <1>2, <2>9, GoToKeepsFrames DEF Phases
    <3>2. StoreTypeOK'
        BY <1>2, <2>2, <2>8, <2>9 DEF StoreTypeOK
    <3>3. QED
        BY <2>8, <3>1, <3>2 DEF TypeInv, CompilerTypeOK
  <2>10. CASE mappings' = Extend(mappings, u, mapping) /\ SetTop(done)
    <3> HIDE DEF u, mapping
    <3>1. DOMAIN mappings' \subseteq Nat /\ mappings' \in [DOMAIN mappings' -> Mappings]
        BY <1>2, <2>7, <2>10, NewMapping
    <3>2. u \in DOMAIN mappings'
        BY <2>10 DEF Extend
    <3>3. StoreTypeOK'
        BY <1>2, <2>2, <2>8, <3>1 DEF StoreTypeOK, Mappings
    <3>4. <<u>> \in Seq(Nat) /\ mapping.poly \in SUBSET References
        BY <1>2, <2>7 DEF Mappings
    <3>5. /\ done \in Frames /\ done.phase = "instances" /\ done.queue = <<u>>
        BY <1>2, <3>4 DEF Frames, Phases
    <3>6. /\ loads' \in Seq(Frames) /\ Len(loads') = Len(loads) /\ Top' = done
          /\ \A i \in 1 .. Len(loads) : i # Len(loads) => loads'[i] = loads[i]
        BY <1>1, <1>2, <2>10, <3>5, SetTopLemma
    <3>7. FramesOK'
      <4>1. \A i \in 1 .. Len(loads') : i # Len(loads') => loads'[i].phase = "run"
          BY <1>2, <3>6 DEF FramesOK
      <4>2. Top'.queue # << >> /\ \A i \in 1 .. Len(Top'.queue) : Top'.queue[i] = u
          BY <3>5, <3>6
      <4>3. Top'.phase = "instances"
          BY <3>5, <3>6
      <4>4. QED
          BY <3>2, <4>1, <4>2, <4>3 DEF FramesOK
    <3>8. QED
        BY <2>8, <3>3, <3>6, <3>7 DEF TypeInv, CompilerTypeOK
  <2>11. QED
      BY <1>1, <1>4, <2>9, <2>10
<1>5. QED
    BY <1>3, <1>4

\* A step within the phase `instances`: the queue may lose its head or gain a
\* unit with a TypeMapping.
LEMMA InstancesKeepFrames ==
    ASSUME loads \in Seq(Frames), FramesOK, loads # << >>,
           NEW frame \in Frames, SetTop(frame), frame.phase = "instances",
           frame.queue # << >>,
           \A i \in 1 .. Len(frame.queue) : frame.queue[i] \in DOMAIN mappings'
    PROVE  loads' \in Seq(Frames) /\ FramesOK'
<1>1. /\ loads' \in Seq(Frames) /\ Len(loads') = Len(loads) /\ Top' = frame
      /\ \A i \in 1 .. Len(loads) : i # Len(loads) => loads'[i] = loads[i]
    BY SetTopLemma
<1>2. \A i \in 1 .. Len(loads') : i # Len(loads') => loads'[i].phase = "run"
    BY <1>1 DEF FramesOK
<1>3. QED
    BY <1>1, <1>2 DEF FramesOK

\* Taking a unit off the front of the queue, or putting one at its end.
LEMMA QueueLemma ==
    ASSUME NEW q \in Seq(Nat), q # << >>, NEW D,
           \A i \in 1 .. Len(q) : q[i] \in D
    PROVE  /\ Head(q) \in Nat /\ Head(q) = q[1]
           /\ Len(q) > 1 => /\ q[2] \in D
                            /\ Tail(q) \in Seq(Nat) /\ Tail(q) # << >>
                            /\ \A i \in 1 .. Len(Tail(q)) : Tail(q)[i] \in D
           /\ \A v \in Nat : /\ Append(q, v) \in Seq(Nat) /\ Append(q, v) # << >>
                             /\ \A i \in 1 .. Len(Append(q, v)) :
                                   Append(q, v)[i] \in D \cup {v}
<1>1. Len(q) \in Nat \ {0} /\ 1 \in 1 .. Len(q)
    BY TopLemma
<1>2. Head(q) \in Nat /\ Head(q) = q[1]
    BY <1>1
<1>3. ASSUME Len(q) > 1
      PROVE  /\ q[2] \in D
             /\ Tail(q) \in Seq(Nat) /\ Tail(q) # << >>
             /\ \A i \in 1 .. Len(Tail(q)) : Tail(q)[i] \in D
  <2>1. 2 \in 1 .. Len(q)
      BY <1>1, <1>3
  <2>2. /\ Tail(q) \in Seq(Nat) /\ Len(Tail(q)) = Len(q) - 1
        /\ \A i \in 1 .. Len(q) - 1 : Tail(q)[i] = q[i + 1]
      BY <1>1, HeadTailProperties
  <2>3. \A i \in 1 .. Len(q) - 1 : i + 1 \in 1 .. Len(q)
      BY <1>1
  <2>4. Tail(q) # << >>
    <3>1. Len(Tail(q)) # 0
        BY <1>1, <1>3, <2>2
    <3>2. Len(<< >>) = 0
        OBVIOUS
    <3>3. QED
        BY <3>1, <3>2
  <2>5. QED
      BY <2>1, <2>2, <2>3, <2>4
<1>4. ASSUME NEW v \in Nat
      PROVE  /\ Append(q, v) \in Seq(Nat) /\ Append(q, v) # << >>
             /\ \A i \in 1 .. Len(Append(q, v)) : Append(q, v)[i] \in D \cup {v}
  <2>1. /\ Append(q, v) \in Seq(Nat) /\ Append(q, v) # << >>
        /\ Len(Append(q, v)) = Len(q) + 1
        /\ \A i \in 1 .. Len(q) : Append(q, v)[i] = q[i]
        /\ Append(q, v)[Len(q) + 1] = v
      BY PushLemma
  <2>2. \A i \in 1 .. Len(q) + 1 : i \in 1 .. Len(q) \/ i = Len(q) + 1
      BY <1>1
  <2>3. QED
      BY <2>1, <2>2
<1>5. QED
    BY <1>2, <1>3, <1>4

\* A reference is the pair of a symbol and a type.
LEMMA ReferenceLemma ==
    ASSUME NEW ref \in References
    PROVE  /\ ref = <<ref[1], ref[2]>> /\ ref[1] = <<ref[1][1], ref[1][2]>>
           /\ ref[1] \in Nat \X Generics /\ ref[1][1] \in Nat /\ ref[1][2] \in Generics
           /\ ref[2] \in Types
    BY DEF References

LEMMA ReuseInstanceTypes ==
    ASSUME TypeInv, ReuseInstance
    PROVE  TypeInv'
<1>1. PICK ref \in Top.refs :
          /\ HasInstance(ref[1], ref[2])
          /\ imports' = imports \cup {<<Head(Top.queue), polyInstances[ref]>>}
          /\ SetTop([Top EXCEPT !.refs = @ \ {ref}])
    BY DEF ReuseInstance
<1>2. /\ loads # << >> /\ Top.phase = "instances"
      /\ UNCHANGED <<sourceVars, types, mappings, codegenMapping, llvmUnits,
                     polyInstances, polyParents, hostVars, sccVars>>
    BY DEF ReuseInstance, At
<1>3. /\ StoreTypeOK /\ FramesOK /\ loads \in Seq(Frames) /\ Top \in Frames
      /\ Top.queue \in Seq(Nat) /\ Top.refs \in SUBSET References
    BY <1>2, StageLemma
<1>4. /\ Top.queue # << >>
      /\ \A i \in 1 .. Len(Top.queue) : Top.queue[i] \in DOMAIN mappings
    BY <1>2, <1>3 DEF FramesOK
<1>5. ref \in DOMAIN polyInstances
    BY <1>1, <1>3, ReferenceLemma DEF HasInstance
<1>6. polyInstances[ref] \in Nat
    BY <1>3, <1>5 DEF StoreTypeOK
<1>7. Head(Top.queue) \in Nat
    BY <1>3, <1>4, QueueLemma
<1>8. StoreTypeOK'
  <2>1. imports' \subseteq Nat \X Nat
      BY <1>1, <1>3, <1>6, <1>7 DEF StoreTypeOK
  <2>2. QED
      BY <1>2, <1>3, <2>1 DEF StoreTypeOK, sourceVars
<1> DEFINE frame == [Top EXCEPT !.refs = @ \ {ref}]
<1>9. frame \in Frames /\ frame.phase = "instances" /\ frame.queue = Top.queue
    BY <1>2, <1>3 DEF Frames
<1>10. loads' \in Seq(Frames) /\ FramesOK'
    BY <1>1, <1>2, <1>3, <1>4, <1>9, InstancesKeepFrames
<1>11. QED
    BY <1>2, <1>8, <1>10 DEF TypeInv, CompilerTypeOK, hostVars

LEMMA NextInQueueTypes ==
    ASSUME TypeInv, NextInQueue
    PROVE  TypeInv'
<1> DEFINE frame == [Top EXCEPT !.queue = Tail(@), !.refs = mappings[Top.queue[2]].poly]
<1>1. /\ loads # << >> /\ Top.phase = "instances" /\ Len(Top.queue) > 1
      /\ SetTop(frame)
      /\ UNCHANGED <<storeVars, hostVars, sccVars>>
    BY DEF NextInQueue, At
<1>2. /\ StoreTypeOK /\ FramesOK /\ loads \in Seq(Frames) /\ Top \in Frames
      /\ Top.queue \in Seq(Nat)
    BY <1>1, StageLemma
<1>3. /\ Top.queue # << >>
      /\ \A i \in 1 .. Len(Top.queue) : Top.queue[i] \in DOMAIN mappings
    BY <1>1, <1>2 DEF FramesOK
<1>4. /\ Top.queue[2] \in DOMAIN mappings
      /\ Tail(Top.queue) \in Seq(Nat) /\ Tail(Top.queue) # << >>
      /\ \A i \in 1 .. Len(Tail(Top.queue)) : Tail(Top.queue)[i] \in DOMAIN mappings
    BY <1>1, <1>2, <1>3, QueueLemma
<1>5. mappings[Top.queue[2]].poly \in SUBSET References
    BY <1>2, <1>4 DEF StoreTypeOK
<1>6. frame \in Frames /\ frame.phase = "instances" /\ frame.queue = Tail(Top.queue)
    BY <1>1, <1>2, <1>4, <1>5 DEF Frames
<1>7. StoreTypeOK' /\ mappings' = mappings
    BY <1>1, <1>2 DEF StoreTypeOK, storeVars
<1>8. loads' \in Seq(Frames) /\ FramesOK'
    BY <1>1, <1>2, <1>4, <1>6, <1>7, InstancesKeepFrames
<1>9. QED
    BY <1>1, <1>7, <1>8 DEF TypeInv, CompilerTypeOK, hostVars

\* The tables after an instance has been made, typechecked or not.
LEMMA MakeInstanceTypes ==
    ASSUME TypeInv, MakeInstance
    PROVE  TypeInv'
<1>1. loads # << >> /\ Top.phase = "instances"
    BY DEF MakeInstance, At
<1>2. /\ StoreTypeOK /\ FramesOK /\ loads \in Seq(Frames) /\ Top \in Frames
      /\ Top.queue \in Seq(Nat) /\ Top.new \in Seq(Nat)
      /\ Top.refs \in SUBSET References
    BY <1>1, StageLemma
<1>3. /\ Top.queue # << >>
      /\ \A i \in 1 .. Len(Top.queue) : Top.queue[i] \in DOMAIN mappings
    BY <1>1, <1>2 DEF FramesOK
<1> DEFINE v == uids + 1
           deps(ref)  == InstanceDependencies(ref)
           info(ref)  == InstanceInfo(ref[1][2], ref[2])
           table(ref) == Extend(types, v, info(ref))
           refs(ref)  == {<<g, ref[2]>> : g \in Calls[ref[1][2]]}
           edges(ref) == imports \cup ({v} \X deps(ref))
           mapping(ref) == MappingOf(refs(ref), table(ref), deps(ref) \cup {v}, {ref[1][1]})
           failed    == [Top EXCEPT !.new = Append(@, v), !.phase = "failed"]
           made(ref) == [Top EXCEPT !.new = Append(@, v), !.queue = Append(@, v),
                                    !.refs = @ \ {ref}]
<1>4. PICK ref \in Top.refs :
          \/ Panic("tried to load two modules called")
          \/ Panic("import gone")
          \/ /\ CreateUnit(v, PolyUnitName(ref))
             /\ types' = table(ref)
             /\ \/ /\ imports' = edges(ref)
                   /\ SetTop(failed)
                   /\ UNCHANGED <<mappings, polyInstances, polyParents>>
                \/ /\ mappings' = Extend(mappings, v, mapping(ref))
                   /\ RegisterInstance(ref[1], ref[2], v)
                   /\ imports' = edges(ref) \cup {<<Head(Top.queue), v>>}
                   /\ SetTop(made(ref))
             /\ UNCHANGED <<code, exprs, nodes, vals, codegenMapping, llvmUnits,
                            hostVars, sccVars>>
    BY DEF MakeInstance
<1>5. CASE Panic("tried to load two modules called") \/ Panic("import gone")
    BY <1>5, PanicKeepsTypes DEF Assertions
<1>6. CASE /\ CreateUnit(v, PolyUnitName(ref))
           /\ types' = table(ref)
           /\ \/ /\ imports' = edges(ref)
                 /\ SetTop(failed)
                 /\ UNCHANGED <<mappings, polyInstances, polyParents>>
              \/ /\ mappings' = Extend(mappings, v, mapping(ref))
                 /\ RegisterInstance(ref[1], ref[2], v)
                 /\ imports' = edges(ref) \cup {<<Head(Top.queue), v>>}
                 /\ SetTop(made(ref))
           /\ UNCHANGED <<code, exprs, nodes, vals, codegenMapping, llvmUnits,
                          hostVars, sccVars>>
  <2>1. /\ ref \in References /\ ref[1] \in Nat \X Generics /\ ref[1][1] \in Nat
        /\ ref[1][2] \in Generics /\ ref[2] \in Types /\ ref = <<ref[1], ref[2]>>
      BY <1>2, ReferenceLemma
  <2>2. v \in Nat /\ uids' \in Nat /\ DOMAIN names' \subseteq 0 .. uids'
      BY <1>2, <1>6, CreateUnitTypes DEF StoreTypeOK
  <2>3. deps(ref) \in SUBSET Nat
    <3>1. GetImports(ref[1][1]) \in SUBSET Nat
        BY <1>2 DEF StoreTypeOK, GetImports
    <3>2. UnitsReferenced(ref[2]) \in SUBSET Nat
        BY <2>1 DEF UnitsReferenced, Types
    <3>3. QED
        BY <2>1, <3>1, <3>2 DEF InstanceDependencies
  <2>4. info(ref) \in Infos
      BY <2>1 DEF InstanceInfo, Infos
  <2>5. DOMAIN types' \subseteq Nat /\ types' \in [DOMAIN types' -> Infos]
      BY <1>2, <1>6, <2>2, <2>4, NewTypeInfo
  <2>6. edges(ref) \subseteq Nat \X Nat
      BY <1>2, <2>2, <2>3 DEF StoreTypeOK
  <2>7. Append(Top.new, v) \in Seq(Nat)
      BY <1>2, <2>2, PushLemma
  <2>8. /\ UNCHANGED <<code, exprs, nodes, vals, codegenMapping, llvmUnits,
                       interpImports, panic>>
      BY <1>6 DEF hostVars
  <2>9. CASE /\ imports' = edges(ref)
             /\ SetTop(failed)
             /\ UNCHANGED <<mappings, polyInstances, polyParents>>
    <3>1. StoreTypeOK'
        BY <1>2, <2>2, <2>5, <2>6, <2>8, <2>9 DEF StoreTypeOK
    <3>2. failed \in Frames /\ failed.phase = "failed"
        BY <1>2, <2>7 DEF Frames, Phases
    <3>3. loads' \in Seq(Frames) /\ FramesOK'
        BY <1>1, <1>2, <2>9, <3>2, SetTopKeepsFrames
    <3>4. QED
        BY <2>8, <3>1, <3>3 DEF TypeInv, CompilerTypeOK
  <2>10. CASE /\ mappings' = Extend(mappings, v, mapping(ref))
              /\ RegisterInstance(ref[1], ref[2], v)
              /\ imports' = edges(ref) \cup {<<Head(Top.queue), v>>}
              /\ SetTop(made(ref))
    <3>1. refs(ref) \in SUBSET (Generics \X Types)
        BY <2>1, ProgramAssumption
    <3>2. deps(ref) \cup {v} \in SUBSET Nat /\ {ref[1][1]} \in SUBSET Nat
        BY <2>1, <2>2, <2>3
    <3> HIDE DEF refs, table, deps, edges
    <3>3. mapping(ref) \in Mappings
        BY <3>1, <3>2, MappingLemma
    <3> HIDE DEF v, mapping
    <3>4. DOMAIN mappings' \subseteq Nat /\ mappings' \in [DOMAIN mappings' -> Mappings]
        BY <1>2, <2>2, <2>10, <3>3, NewMapping
    <3>5. DOMAIN mappings' = DOMAIN mappings \cup {v}
        BY <2>10 DEF Extend
    <3>6. DOMAIN polyParents' \subseteq Nat /\ polyParents' \in [DOMAIN polyParents' -> Nat \X Generics]
        BY <1>2, <2>1, <2>2, <2>10, NewParent DEF RegisterInstance
    <3>7. DOMAIN polyInstances' \subseteq References /\ polyInstances' \in [DOMAIN polyInstances' -> Nat]
      <4>1. DOMAIN polyInstances \subseteq References /\ polyInstances \in [DOMAIN polyInstances -> Nat]
          BY <1>2 DEF StoreTypeOK
      <4>2. polyInstances' = Extend(polyInstances, ref, v)
          BY <2>1, <2>10 DEF RegisterInstance
      <4>3. /\ DOMAIN Extend(polyInstances, ref, v) \subseteq References
            /\ Extend(polyInstances, ref, v) \in [DOMAIN Extend(polyInstances, ref, v) -> Nat]
          BY <2>1, <2>2, <4>1, ExtendLemma
      <4>4. QED
          BY <4>2, <4>3
    <3>8. Head(Top.queue) \in Nat
        BY <1>2, <1>3, QueueLemma
    <3>9. imports' \subseteq Nat \X Nat
        BY <2>2, <2>6, <2>10, <3>8
    <3>10. StoreTypeOK'
        BY <1>2, <2>2, <2>5, <2>8, <3>4, <3>6, <3>7, <3>9 DEF StoreTypeOK, Mappings
    <3>11. /\ Append(Top.queue, v) \in Seq(Nat) /\ Append(Top.queue, v) # << >>
           /\ \A i \in 1 .. Len(Append(Top.queue, v)) :
                 Append(Top.queue, v)[i] \in DOMAIN mappings \cup {v}
        BY <1>2, <1>3, <2>2, QueueLemma
    <3>12. /\ made(ref) \in Frames /\ made(ref).phase = "instances"
           /\ made(ref).queue = Append(Top.queue, v)
        BY <1>1, <1>2, <2>7, <3>11 DEF Frames
    <3>13. loads' \in Seq(Frames) /\ FramesOK'
        BY <1>1, <1>2, <2>10, <3>5, <3>11, <3>12, InstancesKeepFrames
    <3>14. QED
        BY <2>8, <3>10, <3>13 DEF TypeInv, CompilerTypeOK
  <2>11. QED
      BY <1>6, <2>9, <2>10
<1>7. QED
    BY <1>4, <1>5, <1>6

-----------------------------------------------------------------------------
(***************************************************************************)
(* Groups.                                                                 *)
(***************************************************************************)

\* The graph of the new units is one the component search takes.
LEMMA UnitGraphLemma ==
    ASSUME NEW new \in Seq(Nat)
    PROVE  /\ Search!IsDirectedGraph(UnitGraphOf(new))
           /\ DOMAIN UnitGraphOf(new) = 0 .. Len(new) - 1
<1> DEFINE W == 0 .. Len(new) - 1
<1>1. Len(new) \in Nat
    OBVIOUS
<1>2. Search!IsFiniteSet(W) /\ Search!Cardinality(W) = Len(new)
  <2>1. 0 \in Int /\ Len(new) - 1 \in Int
      BY <1>1
  <2>2. /\ Search!IsFiniteSet(0 .. Len(new) - 1)
        /\ Search!Cardinality(0 .. Len(new) - 1)
              = IF 0 > Len(new) - 1 THEN 0 ELSE (Len(new) - 1) - 0 + 1
      BY <2>1, Search!FS_Interval
  <2>3. QED
      BY <1>1, <2>2
<1>3. Search!Vertices(UnitGraphOf(new)) = W /\ UnitGraphOf(new) \in [W -> SUBSET W]
    BY DEF UnitGraphOf, Search!Vertices
<1>4. QED
    BY <1>2, <1>3 DEF Search!IsDirectedGraph, Search!Vertices

\* The search that Compiler performs is the one the theorems are about.
LEMMA SameSearch ==
    /\ Scc!TarjanStep => Search!TarjanStep
    /\ \A g : Scc!StartOn(g) => Search!StartOn(g)
<1>1. Scc!TarjanStep => Search!TarjanStep
    BY DEF Scc!TarjanStep, Search!TarjanStep, Scc!StartRoot, Search!StartRoot,
           Scc!Recurse, Search!Recurse, Scc!SkipEdge, Search!SkipEdge,
           Scc!Return, Search!Return, Scc!PopComponent, Search!PopComponent,
           Scc!Enter, Search!Enter, Scc!Visited, Search!Visited,
           Scc!OnStack, Search!OnStack, Scc!InSeq, Search!InSeq,
           Scc!Lesser, Search!Lesser, Scc!Index, Search!Index,
           Scc!Current, Search!Current, Scc!Vertices, Search!Vertices
<1>2. \A g : Scc!StartOn(g) => Search!StartOn(g)
    BY DEF Scc!StartOn, Search!StartOn, Scc!Index, Search!Index,
           Scc!Vertices, Search!Vertices
<1>3. QED
    BY <1>1, <1>2

LEMMA StartComponentsTypes ==
    ASSUME TypeInv, StartComponents
    PROVE  TypeInv'
<1> DEFINE frame == [Top EXCEPT !.queue = << >>, !.phase = "components"]
           g == UnitGraphOf(Top.new)
<1>1. /\ loads # << >> /\ SetTop(frame) /\ Scc!StartOn(g)
      /\ UNCHANGED <<storeVars, hostVars>>
    BY DEF StartComponents, At
<1>2. /\ StoreTypeOK /\ FramesOK /\ loads \in Seq(Frames) /\ Top \in Frames
      /\ Top.new \in Seq(Nat)
    BY <1>1, StageLemma
<1>3. Search!IsDirectedGraph(g) /\ DOMAIN g = 0 .. Len(Top.new) - 1
    BY <1>2, UnitGraphLemma
<1>4. Search!StartOn(g)
    BY <1>1, SameSearch
<1>5. Search!TarjanInv'
    BY <1>3, <1>4, Search!TarjanInvStart
<1>6. graph' = g
    BY <1>4 DEF Search!StartOn
<1>7. << >> \in Seq(Nat)
    OBVIOUS
<1>8. frame \in Frames /\ frame.phase = "components" /\ frame.new = Top.new
    BY <1>2, <1>7 DEF Frames, Phases
<1>9. /\ loads' \in Seq(Frames) /\ Len(loads') = Len(loads) /\ Top' = frame
      /\ \A i \in 1 .. Len(loads) : i # Len(loads) => loads'[i] = loads[i]
    BY <1>1, <1>2, <1>8, SetTopLemma
<1>10. \A i \in 1 .. Len(loads') : i # Len(loads') => loads'[i].phase = "run"
    BY <1>2, <1>9 DEF FramesOK
<1>11. DOMAIN graph' = 0 .. Len(Top'.new) - 1
    BY <1>3, <1>6, <1>8, <1>9
<1>12. FramesOK'
    BY <1>5, <1>8, <1>9, <1>10, <1>11 DEF FramesOK
<1>13. StoreTypeOK'
    BY <1>1, <1>2 DEF StoreTypeOK, storeVars
<1>14. QED
    BY <1>1, <1>9, <1>12, <1>13 DEF TypeInv, CompilerTypeOK, hostVars

LEMMA FindComponentsTypes ==
    ASSUME TypeInv, FindComponents
    PROVE  TypeInv'
<1>1. /\ loads # << >> /\ Top.phase = "components" /\ Search!TarjanStep
      /\ UNCHANGED <<storeVars, loads, hostVars>>
    BY SameSearch DEF FindComponents, At
<1>2. Search!TarjanInv /\ DOMAIN graph = 0 .. Len(Top.new) - 1
    BY <1>1 DEF TypeInv, FramesOK
<1>3. Search!TarjanInv'
    BY <1>1, <1>2, Search!StartRootKeepsInv, Search!RecurseKeepsInv,
       Search!SkipEdgeKeepsInv, Search!ReturnKeepsInv DEF Search!TarjanStep
<1>4. graph' = graph
    BY <1>1 DEF Search!TarjanStep, Search!StartRoot, Search!Recurse, Search!SkipEdge,
                Search!Return
<1>5. UNCHANGED Top
    BY <1>1 DEF Top
<1>6. FramesOK'
    BY <1>1, <1>2, <1>3, <1>4, <1>5 DEF TypeInv, FramesOK
<1>7. StoreTypeOK'
    BY <1>1 DEF TypeInv, CompilerTypeOK, StoreTypeOK, storeVars
<1>8. QED
    BY <1>1, <1>6, <1>7 DEF TypeInv, CompilerTypeOK, hostVars

LEMMA OrderComponentsTypes ==
    ASSUME TypeInv, OrderComponents
    PROVE  TypeInv'
<1> DEFINE groups == {UnitsOf(components[i]) : i \in DOMAIN components}
           frame  == [Top EXCEPT !.groups = groups, !.phase = "generate"]
<1>1. /\ loads # << >> /\ Top.phase = "components"
      /\ \/ Panic("graph contained cycles!")
         \/ SetTop(frame) /\ UNCHANGED <<storeVars, hostVars>>
    BY DEF OrderComponents, At
<1>2. CASE Panic("graph contained cycles!")
    BY <1>2, PanicKeepsTypes DEF Assertions
<1>3. CASE SetTop(frame) /\ UNCHANGED <<storeVars, hostVars>>
  <2>1. /\ StoreTypeOK /\ FramesOK /\ loads \in Seq(Frames) /\ Top \in Frames
        /\ Top.new \in Seq(Nat)
      BY <1>1, StageLemma
  <2>2. Search!TarjanInv /\ DOMAIN graph = 0 .. Len(Top.new) - 1
      BY <1>1, <2>1 DEF FramesOK
  <2>3. components \in Seq(SUBSET (0 .. Len(Top.new) - 1))
      BY <2>2 DEF Search!TarjanInv, Search!TarjanTypeOK, Search!Vertices
  <2>4. \A v \in 0 .. Len(Top.new) - 1 : Top.new[v + 1] \in Nat
    <3>1. \A v \in 0 .. Len(Top.new) - 1 : v + 1 \in 1 .. Len(Top.new)
        BY <2>1
    <3>2. QED
        BY <2>1, <3>1
  <2>5. \A i \in DOMAIN components : components[i] \subseteq 0 .. Len(Top.new) - 1
      BY <2>3
  <2>6. groups \in SUBSET SUBSET Nat
      BY <2>4, <2>5 DEF UnitsOf
  <2>7. frame \in Frames /\ frame.phase = "generate"
      BY <2>1, <2>6 DEF Frames, Phases
  <2>8. loads' \in Seq(Frames) /\ FramesOK'
      BY <1>1, <1>3, <2>1, <2>7, SetTopKeepsFrames
  <2>9. StoreTypeOK'
      BY <1>3, <2>1 DEF StoreTypeOK, storeVars
  <2>10. QED
      BY <1>3, <2>8, <2>9 DEF TypeInv, CompilerTypeOK, hostVars
<1>4. QED
    BY <1>1, <1>2, <1>3

LEMMA GenerateTypes ==
    ASSUME TypeInv, Generate
    PROVE  TypeInv'
<1>1. loads # << >> /\ Top.phase = "generate"
    BY DEF Generate, At
<1>2. /\ StoreTypeOK /\ FramesOK /\ loads \in Seq(Frames) /\ Top \in Frames
      /\ Top.groups \in SUBSET SUBSET Nat
    BY <1>1, StageLemma
<1>3. PICK group \in Top.groups :
          \/ Panic("code gone")
          \/ /\ codegenMapping' = [u \in DOMAIN codegenMapping \cup group |->
                                      IF u \in group THEN group ELSE codegenMapping[u]]
             /\ llvmUnits' = llvmUnits \cup {group}
             /\ SetTop([Top EXCEPT !.groups = @ \ {group}])
             /\ UNCHANGED <<sourceVars, imports, types, mappings,
                            polyInstances, polyParents, hostVars, sccVars>>
    BY DEF Generate
<1>4. CASE Panic("code gone")
    BY <1>4, PanicKeepsTypes DEF Assertions
<1>5. CASE ~Panic("code gone")
  <2> DEFINE frame == [Top EXCEPT !.groups = @ \ {group}]
  <2>1. group \in SUBSET Nat
      BY <1>2
  <2>2. /\ DOMAIN codegenMapping' \subseteq Nat
        /\ codegenMapping' \in [DOMAIN codegenMapping' -> SUBSET Nat]
    <3>1. /\ DOMAIN codegenMapping \subseteq Nat
          /\ codegenMapping \in [DOMAIN codegenMapping -> SUBSET Nat]
        BY <1>2 DEF StoreTypeOK
    <3>2. DOMAIN codegenMapping' = DOMAIN codegenMapping \cup group
        BY <1>3, <1>5
    <3>3. codegenMapping' \in [DOMAIN codegenMapping \cup group -> SUBSET Nat]
        BY <1>3, <1>5, <2>1, <3>1
    <3>4. QED
        BY <2>1, <3>1, <3>2, <3>3
  <2>3. StoreTypeOK'
      BY <1>2, <1>3, <1>5, <2>1, <2>2 DEF StoreTypeOK, sourceVars
  <2>4. frame \in Frames /\ frame.phase = "generate"
      BY <1>1, <1>2 DEF Frames
  <2>5. loads' \in Seq(Frames) /\ FramesOK'
      BY <1>1, <1>2, <1>3, <1>5, <2>4, SetTopKeepsFrames
  <2>6. QED
      BY <1>3, <1>5, <2>3, <2>5 DEF TypeInv, CompilerTypeOK, hostVars
<1>6. QED
    BY <1>4, <1>5

LEMMA CompleteTypes ==
    ASSUME TypeInv, Complete
    PROVE  TypeInv'
<1>1. /\ loads # << >> /\ Return /\ vals' = vals \cup {Top.unit}
      /\ interpImports' \subseteq interpImports \cup {Top.unit}
      /\ UNCHANGED <<uids, names, code, imports, exprs, nodes, types, mappings,
                     codegenMapping, llvmUnits, polyInstances, polyParents, panic>>
    BY DEF Complete, UserCode, At
<1>2. /\ StoreTypeOK /\ FramesOK /\ loads \in Seq(Frames)
      /\ Top.unit \in Nat /\ interpImports \subseteq Nat
    BY <1>1, StageLemma
<1>3. loads' \in Seq(Frames) /\ FramesOK'
    BY <1>1, <1>2, ReturnKeepsFrames
<1>4. StoreTypeOK'
    BY <1>1, <1>2 DEF StoreTypeOK
<1>5. QED
    BY <1>1, <1>2, <1>3, <1>4 DEF TypeInv, CompilerTypeOK

LEMMA CleanUpTypes ==
    ASSUME TypeInv, CleanUp
    PROVE  TypeInv'
<1>1. /\ loads # << >> /\ Return /\ RemoveUnits(Elements(Top.new))
      /\ UNCHANGED <<hostVars, sccVars>>
    BY DEF CleanUp, At
<1>2. StoreTypeOK /\ FramesOK /\ loads \in Seq(Frames)
    BY <1>1, StageLemma
<1>3. loads' \in Seq(Frames) /\ FramesOK'
    BY <1>1, <1>2, ReturnKeepsFrames
<1>4. StoreTypeOK'
    BY <1>1, <1>2, RemoveUnitsTypes
<1>5. QED
    BY <1>1, <1>3, <1>4 DEF TypeInv, CompilerTypeOK, hostVars

LEMMA RestTypes ==
    ASSUME TypeInv, UNCHANGED compilerVars
    PROVE  TypeInv'
<1>1. UNCHANGED <<storeVars, loads, interpImports, panic, sccVars>>
    BY DEF compilerVars
<1>2. CompilerTypeOK'
    BY <1>1 DEF TypeInv, CompilerTypeOK, StoreTypeOK, storeVars
<1>3. Search!TarjanInv => Search!TarjanInv'
    BY <1>1, Search!TarjanStutterKeepsInv DEF sccVars, Search!tarjanVars
<1>4. FramesOK'
    BY <1>1, <1>3 DEF TypeInv, FramesOK, Top, storeVars, sccVars
<1>5. QED
    BY <1>2, <1>4 DEF TypeInv

LEMMA InitTypes ==
    ASSUME CompilerInit
    PROVE  TypeInv
<1>1. /\ uids = 0 /\ loads = << >> /\ interpImports = {} /\ panic = Running
      /\ code = {} /\ imports = {} /\ nodes = {} /\ vals = {} /\ llvmUnits = {}
      /\ DOMAIN names = {0} /\ DOMAIN types = {0}
      /\ types = [u \in {0} |-> IntrinsicsInfo]
      /\ exprs = EmptyMap /\ mappings = EmptyMap /\ codegenMapping = EmptyMap
      /\ polyInstances = EmptyMap /\ polyParents = EmptyMap
    BY DEF CompilerInit, Intrinsics
<1>2. IntrinsicsInfo \in Infos
    BY DEF IntrinsicsInfo, Infos
<1>3. DOMAIN EmptyMap = {} /\ \A T : EmptyMap \in [{} -> T]
    BY DEF EmptyMap
<1>4. StoreTypeOK
    BY <1>1, <1>2, <1>3 DEF StoreTypeOK
<1>5. loads \in Seq(Frames) /\ Len(loads) = 0
    BY <1>1
<1>6. FramesOK
    BY <1>1, <1>5 DEF FramesOK
<1>7. QED
    BY <1>1, <1>4, <1>5, <1>6 DEF TypeInv, CompilerTypeOK

\* The tables, the frames and the search stay well typed, and the frames of the
\* loads in progress keep their order.
THEOREM TypeInvariant == CompilerSpec => []TypeInv
<1>1. CompilerInit => TypeInv
    BY InitTypes
<1>2. TypeInv /\ [CompilerNext]_compilerVars => TypeInv'
  <2> SUFFICES ASSUME TypeInv, [CompilerNext]_compilerVars PROVE TypeInv'
      OBVIOUS
  <2>1. ASSUME NEW s \in Sources, LoadCode(s) PROVE TypeInv'
      BY <2>1, LoadCodeTypes
  <2>2. ASSUME NEW s \in Sources, NEW imps \in SUBSET UsableModules, LoadExpr(s, imps)
        PROVE  TypeInv'
      BY <2>2, LoadExprTypes
  <2>3. ASSUME NEW u \in UsableModules, Unload(u) PROVE TypeInv'
      BY <2>3, UnloadTypes DEF Unload
  <2>4. ASSUME NEW u \in UsableModules, UnloadDependents(u) PROVE TypeInv'
      BY <2>4, UnloadTypes DEF UnloadDependents
  <2>5. CASE Parse
      BY <2>5, ParseTypes
  <2>6. CASE ParseError
      BY <2>6, ParseErrorTypes
  <2>7. CASE Structure
      BY <2>7, StructureTypes
  <2>8. CASE StageError
      BY <2>8, GoToTypes DEF StageError, At, Phases
  <2>9. CASE TypecheckModule
      BY <2>9, TypecheckModuleTypes
  <2>10. CASE ReuseInstance
      BY <2>10, ReuseInstanceTypes
  <2>11. CASE MakeInstance
      BY <2>11, MakeInstanceTypes
  <2>12. CASE NextInQueue
      BY <2>12, NextInQueueTypes
  <2>13. CASE StartComponents
      BY <2>13, StartComponentsTypes
  <2>14. CASE FindComponents
      BY <2>14, FindComponentsTypes
  <2>15. CASE OrderComponents
      BY <2>15, OrderComponentsTypes
  <2>16. CASE Generate
      BY <2>16, GenerateTypes
  <2>17. CASE Execute
      BY <2>17, GoToTypes DEF Execute, At, Phases
  <2>18. CASE CleanUp
      BY <2>18, CleanUpTypes
  <2>19. CASE Complete
      BY <2>19, CompleteTypes
  <2>20. CASE UNCHANGED compilerVars
      BY <2>20, RestTypes
  <2>21. QED
      BY <2>1, <2>2, <2>3, <2>4, <2>5, <2>6, <2>7, <2>8, <2>9, <2>10, <2>11, <2>12,
         <2>13, <2>14, <2>15, <2>16, <2>17, <2>18, <2>19, <2>20
      DEF CompilerNext, Request, CompilerStep, Rest
<1>3. QED
    BY <1>1, <1>2, PTL DEF CompilerSpec

\* Every table and every frame keeps its type (code_store.rs:25-49).
THEOREM CompilerTypes == CompilerSpec => []CompilerTypeOK
<1>1. TypeInv => CompilerTypeOK
    BY DEF TypeInv
<1>2. QED
    BY <1>1, TypeInvariant, PTL

-----------------------------------------------------------------------------
(*****************************************************************************)
(* The two tables of polymorphic instances describe the same instances,      *)
(* after any sequence of loads, failures and removals.                       *)
(*                                                                           *)
(* The argument: an id is handed out once, so a new instance is no value     *)
(* of poly_instances yet and no key of poly_parents; a module's unit never   *)
(* is, so that typechecking a module leaves the TypeInfo of every instance   *)
(* alone; and remove_unit finds the entry of the unit it removes, because    *)
(* the parent of the unit is the symbol of the entry's key.  No fact about   *)
(* unloading with dependents is used: the theorem holds of running code      *)
(* that unloads modules singly, too.                                         *)
(*****************************************************************************)

\* Instances have ids handed out before, and no load is of an instance.
IdsOK ==
    /\ DOMAIN polyParents \subseteq 0 .. uids
    /\ \A i \in 1 .. Len(loads) : loads[i].unit \in (0 .. uids) \ DOMAIN polyParents

PolyInv == PolyTablesAgree /\ IdsOK

\* UIDGenerator::next.
LEMMA NextIdLemma ==
    ASSUME NEW n \in Nat
    PROVE  /\ n + 1 \in Nat /\ (0 .. n) \subseteq 0 .. n + 1
           /\ n + 1 \in 0 .. n + 1 /\ n + 1 \notin 0 .. n
    OBVIOUS

\* Every frame is one of the frames before the step, in another phase at most.
UnitsKept ==
    \A i \in 1 .. Len(loads') : \E j \in 1 .. Len(loads) :
        loads'[i].unit = loads[j].unit

-----------------------------------------------------------------------------

LEMMA SetTopUnit ==
    ASSUME loads \in Seq(Frames), loads # << >>, NEW frame, SetTop(frame),
           frame.unit = Top.unit
    PROVE  UnitsKept
<1>1. Len(loads) \in Nat \ {0} /\ Len(loads) \in 1 .. Len(loads)
    BY TopLemma
<1>2. /\ Len(loads') = Len(loads)
      /\ loads'[Len(loads)] = frame
      /\ \A i \in 1 .. Len(loads) : i # Len(loads) => loads'[i] = loads[i]
  <2>1. loads' = [loads EXCEPT ![Len(loads)] = frame]
      BY DEF SetTop
  <2>2. DOMAIN loads' = DOMAIN loads
      BY <2>1
  <2>3. QED
      BY <1>1, <2>1, <2>2
<1>3. QED
    BY <1>1, <1>2 DEF UnitsKept, Top

LEMMA GoToKeepsUnits ==
    ASSUME loads \in Seq(Frames), loads # << >>, NEW phase \in Phases, GoTo(phase)
    PROVE  UnitsKept
<1>1. Top \in Frames
    BY TopLemma DEF Top
<1>2. [Top EXCEPT !.phase = phase] \in Frames /\ [Top EXCEPT !.phase = phase].unit = Top.unit
    BY <1>1 DEF Frames
<1>3. QED
    BY <1>2, SetTopUnit DEF GoTo

LEMMA ReturnKeepsUnits ==
    ASSUME loads \in Seq(Frames), loads # << >>, Return
    PROVE  UnitsKept
<1>1. Len(loads) \in Nat \ {0} /\ Len(loads) - 1 \in 0 .. Len(loads)
    BY TopLemma
<1>2. /\ Len(loads') = Len(loads) - 1
      /\ \A i \in 1 .. Len(loads) - 1 : loads'[i] = loads[i]
    BY <1>1, PrefixLemma DEF Return
<1>3. \A i \in 1 .. Len(loads) - 1 : i \in 1 .. Len(loads)
    BY <1>1
<1>4. QED
    BY <1>2, <1>3 DEF UnitsKept

\* Steps that touch neither the names, the TypeInfos nor the two tables.
LEMMA QuietKeepsPoly ==
    ASSUME PolyInv, UnitsKept,
           UNCHANGED <<uids, names, types, polyInstances, polyParents>>
    PROVE  PolyInv'
<1>1. PolyTablesAgree'
    BY DEF PolyInv, PolyTablesAgree
<1>2. IdsOK'
    BY DEF PolyInv, IdsOK, UnitsKept
<1>3. QED
    BY <1>1, <1>2 DEF PolyInv

\* remove_unit forgets an instance in both tables or in neither.
LEMMA RemoveUnitsKeepsPoly ==
    ASSUME PolyInv, UnitsKept, NEW S, RemoveUnits(S)
    PROVE  PolyInv'
<1> DEFINE G == {k \in DOMAIN polyInstances :
                    \E u \in S \cap DOMAIN polyParents :
                        polyParents[u] = k[1] /\ polyInstances[k] = u}
<1>1. /\ polyInstances' = Without(polyInstances, G)
      /\ polyParents' = Without(polyParents, S)
      /\ names' = Without(names, S) /\ types' = Without(types, S)
      /\ uids' = uids
    BY DEF RemoveUnits
<1>2. /\ DOMAIN polyInstances' = DOMAIN polyInstances \ G
      /\ \A k \in DOMAIN polyInstances' : polyInstances'[k] = polyInstances[k]
    BY <1>1 DEF Without
<1>3. /\ DOMAIN polyParents' = DOMAIN polyParents \ S
      /\ \A v \in DOMAIN polyParents' : polyParents'[v] = polyParents[v]
    BY <1>1 DEF Without
<1>4. /\ DOMAIN names' = DOMAIN names \ S /\ DOMAIN types' = DOMAIN types \ S
      /\ \A v \in DOMAIN types' : types'[v] = types[v]
    BY <1>1 DEF Without
<1>5. \A k \in DOMAIN polyInstances : k \in G <=> polyInstances[k] \in S
    BY DEF PolyInv, PolyTablesAgree
<1>6. ASSUME NEW k \in DOMAIN polyInstances'
      PROVE  LET v == polyInstances'[k]
             IN  /\ v \in DOMAIN names' /\ v \in DOMAIN types'
                 /\ v \in DOMAIN polyParents' /\ polyParents'[v] = k[1]
                 /\ types'[v].instances = {<<k[1][2], k[2]>>}
  <2>1. /\ k \in DOMAIN polyInstances /\ polyInstances'[k] = polyInstances[k]
        /\ polyInstances[k] \notin S
      BY <1>2, <1>5
  <2> HIDE DEF G
  <2>2. QED
      BY <1>3, <1>4, <2>1 DEF PolyInv, PolyTablesAgree
<1>7. ASSUME NEW v \in DOMAIN polyParents'
      PROVE  \E k \in DOMAIN polyInstances' : polyInstances'[k] = v
  <2>1. PICK k \in DOMAIN polyInstances : polyInstances[k] = v
      BY <1>3 DEF PolyInv, PolyTablesAgree
  <2>2. k \notin G
      BY <1>3, <1>5, <2>1
  <2> HIDE DEF G
  <2>3. QED
      BY <1>2, <2>1, <2>2
<1>8. PolyTablesAgree'
    BY <1>6, <1>7 DEF PolyTablesAgree
<1>9. IdsOK'
    BY <1>1, <1>3 DEF PolyInv, IdsOK, UnitsKept
<1>10. QED
    BY <1>8, <1>9 DEF PolyInv

\* A module's own TypeInfo is that of no instance.
LEMMA TypecheckModuleKeepsPoly ==
    ASSUME TypeInv, PolyInv, TypecheckModule
    PROVE  PolyInv'
<1> DEFINE u    == Top.unit
           info == ModuleInfo(Top.source)
<1>1. loads # << >>
    BY DEF TypecheckModule, At
<1>2. loads \in Seq(Frames) /\ Top \in Frames /\ u \in Nat
    BY <1>1, StageLemma
<1>3. u \notin DOMAIN polyParents
    BY <1>1, <1>2, TopLemma DEF PolyInv, IdsOK, Top
<1>4. CASE Panic("import gone")
  <2>1. UNCHANGED <<uids, names, types, polyInstances, polyParents, loads>>
      BY <1>4 DEF Panic, storeVars
  <2>2. UnitsKept
      BY <2>1 DEF UnitsKept
  <2>3. QED
      BY <2>1, <2>2, QuietKeepsPoly
<1>5. CASE ~Panic("import gone")
  <2>1. /\ types' = Extend(types, u, info)
        /\ UNCHANGED <<uids, names, polyInstances, polyParents>>
      BY <1>5 DEF TypecheckModule, sourceVars
  <2>2. \A v \in DOMAIN types \ {u} : v \in DOMAIN types' /\ types'[v] = types[v]
      BY <2>1 DEF Extend
  <2>3. PolyTablesAgree'
      BY <1>3, <2>1, <2>2 DEF PolyInv, PolyTablesAgree
  <2>4. UnitsKept
    <3>1. CASE GoTo("failed")
        BY <1>1, <1>2, <3>1, GoToKeepsUnits DEF Phases
    <3>2. CASE ~GoTo("failed")
      <4>1. PICK poly : SetTop([Top EXCEPT !.phase = "instances", !.queue = <<u>>,
                                           !.refs = poly])
          BY <1>5, <3>2 DEF TypecheckModule
      <4>2. [Top EXCEPT !.phase = "instances", !.queue = <<u>>, !.refs = poly].unit = u
          BY <1>2 DEF Frames
      <4>3. QED
          BY <1>1, <1>2, <4>1, <4>2, SetTopUnit
    <3>3. QED
        BY <3>1, <3>2
  <2>5. IdsOK'
      BY <2>1, <2>4 DEF PolyInv, IdsOK, UnitsKept
  <2>6. QED
      BY <2>3, <2>5 DEF PolyInv
<1>6. QED
    BY <1>4, <1>5

\* A new instance has an id that neither table has seen.
LEMMA MakeInstanceKeepsPoly ==
    ASSUME TypeInv, PolyInv, MakeInstance
    PROVE  PolyInv'
<1> DEFINE v == uids + 1
<1>1. loads # << >>
    BY DEF MakeInstance, At
<1>2. /\ loads \in Seq(Frames) /\ Top \in Frames /\ uids \in Nat
      /\ Top.refs \in SUBSET References
    BY <1>1, StageLemma DEF StoreTypeOK
<1>3. v \notin DOMAIN polyParents
    BY <1>2 DEF PolyInv, IdsOK
<1>4. PICK ref \in Top.refs :
          /\ ~HasInstance(ref[1], ref[2])
          /\ \/ Panic("tried to load two modules called")
             \/ Panic("import gone")
             \/ /\ CreateUnit(v, PolyUnitName(ref))
                /\ types' = Extend(types, v, InstanceInfo(ref[1][2], ref[2]))
                /\ \/ /\ SetTop([Top EXCEPT !.new = Append(@, v), !.phase = "failed"])
                      /\ UNCHANGED <<polyInstances, polyParents>>
                   \/ /\ RegisterInstance(ref[1], ref[2], v)
                      /\ SetTop([Top EXCEPT !.new = Append(@, v),
                                            !.queue = Append(@, v),
                                            !.refs = @ \ {ref}])
    BY DEF MakeInstance
<1>5. CASE Panic("tried to load two modules called") \/ Panic("import gone")
  <2>1. UNCHANGED <<uids, names, types, polyInstances, polyParents, loads>>
      BY <1>5 DEF Panic, storeVars
  <2>2. UnitsKept
      BY <2>1 DEF UnitsKept
  <2>3. QED
      BY <2>1, <2>2, QuietKeepsPoly
<1>6. CASE ~(Panic("tried to load two modules called") \/ Panic("import gone"))
  <2>1. /\ uids' = v /\ names' = Extend(names, v, PolyUnitName(ref))
        /\ types' = Extend(types, v, InstanceInfo(ref[1][2], ref[2]))
      BY <1>4, <1>6 DEF CreateUnit
  <2>2. /\ DOMAIN names' = DOMAIN names \cup {v} /\ DOMAIN types' = DOMAIN types \cup {v}
        /\ types'[v].instances = {<<ref[1][2], ref[2]>>}
        /\ \A w \in DOMAIN types : w # v => types'[w] = types[w]
      BY <2>1 DEF Extend, InstanceInfo
  <2>3. UnitsKept
    <3> DEFINE failed == [Top EXCEPT !.new = Append(@, v), !.phase = "failed"]
               made == [Top EXCEPT !.new = Append(@, v), !.queue = Append(@, v),
                                   !.refs = @ \ {ref}]
    <3>1. SetTop(failed) \/ SetTop(made)
        BY <1>4, <1>6
    <3>2. failed.unit = Top.unit /\ made.unit = Top.unit
        BY <1>2 DEF Frames
    <3> HIDE DEF failed, made
    <3>3. QED
        BY <1>1, <1>2, <3>1, <3>2, SetTopUnit
  <2>4. \A k \in DOMAIN polyInstances : polyInstances[k] # v
      BY <1>3 DEF PolyInv, PolyTablesAgree
  <2>5. CASE UNCHANGED <<polyInstances, polyParents>>
    <3>1. PolyTablesAgree'
        BY <2>2, <2>4, <2>5 DEF PolyInv, PolyTablesAgree
    <3>2. IdsOK'
      <4>1. v \in Nat /\ uids' = v /\ (0 .. uids) \subseteq 0 .. v
          BY <1>2, <2>1, NextIdLemma
      <4>2. \A i \in 1 .. Len(loads') :
               loads'[i].unit \in (0 .. uids) \ DOMAIN polyParents
          BY <2>3 DEF PolyInv, IdsOK, UnitsKept
      <4> HIDE DEF v
      <4>3. QED
          BY <2>5, <4>1, <4>2 DEF PolyInv, IdsOK
    <3>3. QED
        BY <3>1, <3>2 DEF PolyInv
  <2>6. CASE RegisterInstance(ref[1], ref[2], v)
    <3>1. ref = <<ref[1], ref[2]>>
        BY <1>2, ReferenceLemma
    <3>2. /\ polyInstances' = Extend(polyInstances, ref, v)
          /\ polyParents' = Extend(polyParents, v, ref[1])
        BY <2>6, <3>1 DEF RegisterInstance
    <3> HIDE DEF v
    <3>3. /\ DOMAIN polyInstances' = DOMAIN polyInstances \cup {ref}
          /\ polyInstances'[ref] = v
          /\ \A k \in DOMAIN polyInstances : k # ref => polyInstances'[k] = polyInstances[k]
        BY <3>2 DEF Extend
    <3>4. /\ DOMAIN polyParents' = DOMAIN polyParents \cup {v}
          /\ polyParents'[v] = ref[1]
          /\ \A w \in DOMAIN polyParents : w # v => polyParents'[w] = polyParents[w]
        BY <3>2 DEF Extend
    <3>5. ref \notin DOMAIN polyInstances
        BY <1>4, <3>1 DEF HasInstance
    <3>6. ASSUME NEW k \in DOMAIN polyInstances'
          PROVE  LET w == polyInstances'[k]
                 IN  /\ w \in DOMAIN names' /\ w \in DOMAIN types'
                     /\ w \in DOMAIN polyParents' /\ polyParents'[w] = k[1]
                     /\ types'[w].instances = {<<k[1][2], k[2]>>}
      <4>1. CASE k = ref
          BY <2>2, <3>3, <3>4, <4>1
      <4>2. CASE k # ref
        <5>1. /\ k \in DOMAIN polyInstances /\ polyInstances'[k] = polyInstances[k]
              /\ polyInstances[k] # v
            BY <2>4, <3>3, <4>2
        <5>2. QED
            BY <2>2, <3>4, <5>1 DEF PolyInv, PolyTablesAgree
      <4>3. QED
          BY <4>1, <4>2
    <3>7. ASSUME NEW w \in DOMAIN polyParents'
          PROVE  \E k \in DOMAIN polyInstances' : polyInstances'[k] = w
      <4>1. CASE w = v
          BY <3>3, <4>1
      <4>2. CASE w # v
        <5>1. PICK k \in DOMAIN polyInstances : polyInstances[k] = w
            BY <3>4, <4>2 DEF PolyInv, PolyTablesAgree
        <5>2. QED
            BY <3>3, <3>5, <5>1
      <4>3. QED
          BY <4>1, <4>2
    <3>8. PolyTablesAgree'
        BY <3>6, <3>7 DEF PolyTablesAgree
    <3>9. IdsOK'
      <4>1. /\ uids' = v /\ (0 .. uids) \subseteq 0 .. v
            /\ v \in 0 .. v /\ v \notin 0 .. uids
          BY <1>2, <2>1, NextIdLemma DEF v
      <4>2. \A i \in 1 .. Len(loads') :
               loads'[i].unit \in (0 .. uids) \ DOMAIN polyParents
          BY <2>3 DEF PolyInv, IdsOK, UnitsKept
      <4>3. QED
          BY <3>4, <4>1, <4>2 DEF PolyInv, IdsOK
    <3>10. QED
        BY <3>8, <3>9 DEF PolyInv
  <2>7. QED
      BY <1>4, <1>6, <2>5, <2>6
<1>7. QED
    BY <1>5, <1>6

\* A new module has a new id, which is that of no instance.
LEMMA CreateModuleKeepsPoly ==
    ASSUME TypeInv, PolyInv, NEW name, CreateUnit(uids + 1, name),
           UNCHANGED <<types, polyInstances, polyParents>>,
           \A i \in 1 .. Len(loads') :
              \/ loads'[i].unit = uids + 1
              \/ \E j \in 1 .. Len(loads) : loads'[i].unit = loads[j].unit
    PROVE  PolyInv'
<1>1. /\ uids \in Nat /\ uids' = uids + 1
      /\ DOMAIN names' = DOMAIN names \cup {uids + 1}
    BY DEF CreateUnit, Extend, TypeInv, CompilerTypeOK, StoreTypeOK
<1>2. PolyTablesAgree'
    BY <1>1 DEF PolyInv, PolyTablesAgree
<1>3. IdsOK'
    BY <1>1 DEF PolyInv, IdsOK
<1>4. QED
    BY <1>2, <1>3 DEF PolyInv

LEMMA LoadCodeKeepsPoly ==
    ASSUME TypeInv, PolyInv, NEW s \in Sources, LoadCode(s)
    PROVE  PolyInv'
<1>1. CASE Panic("tried to load two modules called")
  <2>1. UNCHANGED <<uids, names, types, polyInstances, polyParents, loads>>
      BY <1>1 DEF Panic, storeVars
  <2>2. UnitsKept
      BY <2>1 DEF UnitsKept
  <2>3. QED
      BY <2>1, <2>2, QuietKeepsPoly
<1>2. CASE ~Panic("tried to load two modules called")
  <2>1. /\ CreateUnit(uids + 1, NameFor(s, uids + 1))
        /\ loads' = <<Frame(uids + 1, s, interpImports, "parse")>>
        /\ UNCHANGED <<types, polyInstances, polyParents>>
      BY <1>2 DEF LoadCode
  <2>2. \A i \in 1 .. Len(loads') : loads'[i].unit = uids + 1
      BY <2>1 DEF Frame
  <2>3. QED
      BY <2>1, <2>2, CreateModuleKeepsPoly
<1>3. QED
    BY <1>1, <1>2

LEMMA LoadExprKeepsPoly ==
    ASSUME TypeInv, PolyInv, NEW s \in Sources, NEW imps \in SUBSET UsableModules,
           LoadExpr(s, imps)
    PROVE  PolyInv'
<1>1. CASE Panic("tried to load two modules called")
  <2>1. UNCHANGED <<uids, names, types, polyInstances, polyParents, loads>>
      BY <1>1 DEF Panic, storeVars
  <2>2. UnitsKept
      BY <2>1 DEF UnitsKept
  <2>3. QED
      BY <2>1, <2>2, QuietKeepsPoly
<1>2. CASE ~Panic("tried to load two modules called")
  <2> DEFINE frame == Frame(uids + 1, s, imps, "structure")
  <2>1. /\ CreateUnit(uids + 1, NameFor(s, uids + 1))
        /\ loads' = Append(loads, frame)
        /\ UNCHANGED <<types, polyInstances, polyParents>>
      BY <1>2 DEF LoadExpr
  <2>2. loads \in Seq(Frames) /\ uids + 1 \in Nat /\ imps \in SUBSET Nat
      BY DEF TypeInv, CompilerTypeOK, StoreTypeOK, UsableModules
  <2>3. frame \in Frames
      BY <2>2, FrameLemma DEF Phases
  <2>4. frame.unit = uids + 1
      BY DEF Frame
  <2> HIDE DEF frame
  <2>5. /\ Len(loads) \in Nat /\ Len(loads') = Len(loads) + 1
        /\ \A i \in 1 .. Len(loads) : loads'[i] = loads[i]
        /\ loads'[Len(loads) + 1] = frame
      BY <2>1, <2>2, <2>3, PushLemma
  <2>6. \A i \in 1 .. Len(loads') :
           \/ loads'[i].unit = uids + 1
           \/ \E j \in 1 .. Len(loads) : loads'[i].unit = loads[j].unit
    <3>1. \A i \in 1 .. Len(loads') : i \in 1 .. Len(loads) \/ i = Len(loads) + 1
        BY <2>5
    <3>2. QED
        BY <2>4, <2>5, <3>1
  <2>7. QED
      BY <2>1, <2>6, CreateModuleKeepsPoly
<1>3. QED
    BY <1>1, <1>2

-----------------------------------------------------------------------------

\* The stages that leave names, TypeInfos and the two tables alone.
LEMMA StageKeepsPoly ==
    ASSUME TypeInv, PolyInv,
           \/ Parse \/ ParseError \/ Structure \/ StageError
           \/ ReuseInstance \/ NextInQueue \/ StartComponents \/ FindComponents
           \/ OrderComponents \/ Generate \/ Execute \/ Complete
    PROVE  PolyInv'
<1>1. loads # << >>
    BY DEF Parse, ParseError, Structure, StageError, ReuseInstance, NextInQueue,
           StartComponents, FindComponents, OrderComponents, Generate, Execute,
           Complete, UserCode, At
<1>2. loads \in Seq(Frames) /\ Top \in Frames
    BY <1>1, StageLemma
<1>3. UNCHANGED <<uids, names, types, polyInstances, polyParents>>
  <2>1. CASE Parse
      BY <2>1 DEF Parse
  <2>2. CASE ParseError
      BY <2>2 DEF ParseError, storeVars
  <2>3. CASE Structure
      BY <2>3 DEF Structure
  <2>4. CASE StageError
      BY <2>4 DEF StageError, storeVars
  <2>5. CASE ReuseInstance
      BY <2>5 DEF ReuseInstance, sourceVars
  <2>6. CASE NextInQueue
      BY <2>6 DEF NextInQueue, storeVars
  <2>7. CASE StartComponents
      BY <2>7 DEF StartComponents, storeVars
  <2>8. CASE FindComponents
      BY <2>8 DEF FindComponents, storeVars
  <2>9. CASE OrderComponents
      BY <2>9 DEF OrderComponents, Panic, storeVars
  <2>10. CASE Generate
      BY <2>10 DEF Generate, Panic, storeVars, sourceVars
  <2>11. CASE Execute
      BY <2>11 DEF Execute, storeVars
  <2>12. CASE Complete
      BY <2>12 DEF Complete
  <2>13. QED
      BY <2>1, <2>2, <2>3, <2>4, <2>5, <2>6, <2>7, <2>8, <2>9, <2>10, <2>11, <2>12
<1>4. UnitsKept
  <2>1. CASE Parse \/ Structure \/ StageError \/ Execute
    <3>1. PICK phase \in Phases : GoTo(phase)
        BY <2>1 DEF Parse, Structure, StageError, Execute, Phases
    <3>2. QED
        BY <1>1, <1>2, <3>1, GoToKeepsUnits
  <2>2. CASE ParseError \/ Complete
      BY <1>1, <1>2, <2>2, ReturnKeepsUnits DEF ParseError, Complete
  <2>3. CASE UNCHANGED loads
      BY <2>3 DEF UnitsKept
  <2>4. CASE ReuseInstance
    <3>1. PICK ref : SetTop([Top EXCEPT !.refs = @ \ {ref}])
        BY <2>4 DEF ReuseInstance
    <3>2. [Top EXCEPT !.refs = @ \ {ref}].unit = Top.unit
        BY <1>2 DEF Frames
    <3>3. QED
        BY <1>1, <1>2, <3>1, <3>2, SetTopUnit
  <2>5. CASE NextInQueue
    <3>1. PICK q, refs : SetTop([Top EXCEPT !.queue = q, !.refs = refs])
        BY <2>5 DEF NextInQueue
    <3>2. [Top EXCEPT !.queue = q, !.refs = refs].unit = Top.unit
        BY <1>2 DEF Frames
    <3>3. QED
        BY <1>1, <1>2, <3>1, <3>2, SetTopUnit
  <2>6. CASE StartComponents
    <3>1. SetTop([Top EXCEPT !.queue = << >>, !.phase = "components"])
        BY <2>6 DEF StartComponents
    <3>2. [Top EXCEPT !.queue = << >>, !.phase = "components"].unit = Top.unit
        BY <1>2 DEF Frames
    <3>3. QED
        BY <1>1, <1>2, <3>1, <3>2, SetTopUnit
  <2>7. CASE OrderComponents /\ ~UNCHANGED loads
    <3>1. PICK groups : SetTop([Top EXCEPT !.groups = groups, !.phase = "generate"])
        BY <2>7 DEF OrderComponents, Panic
    <3>2. [Top EXCEPT !.groups = groups, !.phase = "generate"].unit = Top.unit
        BY <1>2 DEF Frames
    <3>3. QED
        BY <1>1, <1>2, <3>1, <3>2, SetTopUnit
  <2>8. CASE Generate /\ ~UNCHANGED loads
    <3>1. PICK group : SetTop([Top EXCEPT !.groups = @ \ {group}])
        BY <2>8 DEF Generate, Panic
    <3>2. [Top EXCEPT !.groups = @ \ {group}].unit = Top.unit
        BY <1>2 DEF Frames
    <3>3. QED
        BY <1>1, <1>2, <3>1, <3>2, SetTopUnit
  <2>9. CASE FindComponents
      BY <2>3, <2>9 DEF FindComponents
  <2>10. QED
      BY <2>1, <2>2, <2>3, <2>4, <2>5, <2>6, <2>7, <2>8, <2>9
<1>5. QED
    BY <1>3, <1>4, QuietKeepsPoly

\* Removal, by a failed load or by running code.
LEMMA RemovalKeepsPoly ==
    ASSUME TypeInv, PolyInv,
           \/ CleanUp
           \/ \E u \in UsableModules : Unload(u) \/ UnloadDependents(u)
    PROVE  PolyInv'
<1>1. loads \in Seq(Frames) /\ loads # << >>
    BY DEF TypeInv, CompilerTypeOK, CleanUp, Unload, UnloadDependents, UserCode, At
<1>2. CASE CleanUp
  <2>1. UnitsKept
      BY <1>1, <1>2, ReturnKeepsUnits DEF CleanUp
  <2>2. QED
      BY <1>2, <2>1, RemoveUnitsKeepsPoly DEF CleanUp
<1>3. CASE \E u \in UsableModules : Unload(u) \/ UnloadDependents(u)
  <2>1. UnitsKept
      BY <1>3 DEF Unload, UnloadDependents, UnitsKept
  <2>2. QED
      BY <1>3, <2>1, RemoveUnitsKeepsPoly DEF Unload, UnloadDependents
<1>4. QED
    BY <1>2, <1>3

\* Before the first load there is no instance.
LEMMA PolyInvInit == CompilerInit => PolyInv
<1> SUFFICES ASSUME CompilerInit PROVE PolyInv
    OBVIOUS
<1>1. DOMAIN polyInstances = {} /\ DOMAIN polyParents = {} /\ Len(loads) = 0
    BY DEF CompilerInit, EmptyMap
<1>2. QED
    BY <1>1 DEF PolyInv, PolyTablesAgree, IdsOK

\* The inductive invariant: the tables agree, and ids are handed out once
\* (common.rs:29-42, compiler.rs:171-190).
THEOREM PolyInvariant == CompilerSpec => []PolyInv
<1>1. CompilerInit => PolyInv
    BY PolyInvInit
<1>2. TypeInv /\ PolyInv /\ [CompilerNext]_compilerVars => PolyInv'
  <2> SUFFICES ASSUME TypeInv, PolyInv, [CompilerNext]_compilerVars PROVE PolyInv'
      OBVIOUS
  <2>1. ASSUME NEW s \in Sources, LoadCode(s) PROVE PolyInv'
      BY <2>1, LoadCodeKeepsPoly
  <2>2. ASSUME NEW s \in Sources, NEW imps \in SUBSET UsableModules, LoadExpr(s, imps)
        PROVE  PolyInv'
      BY <2>2, LoadExprKeepsPoly
  <2>3. ASSUME NEW u \in UsableModules, Unload(u) \/ UnloadDependents(u) PROVE PolyInv'
      BY <2>3, RemovalKeepsPoly
  <2>4. CASE TypecheckModule
      BY <2>4, TypecheckModuleKeepsPoly
  <2>5. CASE MakeInstance
      BY <2>5, MakeInstanceKeepsPoly
  <2>6. CASE CleanUp
      BY <2>6, RemovalKeepsPoly
  <2>7. CASE \/ Parse \/ ParseError \/ Structure \/ StageError
             \/ ReuseInstance \/ NextInQueue \/ StartComponents \/ FindComponents
             \/ OrderComponents \/ Generate \/ Execute \/ Complete
      BY <2>7, StageKeepsPoly
  <2>8. CASE UNCHANGED compilerVars
    <3>1. UNCHANGED <<uids, names, types, polyInstances, polyParents, loads>>
        BY <2>8 DEF compilerVars, storeVars
    <3>2. UnitsKept
        BY <3>1 DEF UnitsKept
    <3>3. QED
        BY <3>1, <3>2, QuietKeepsPoly
  <2>9. QED
      BY <2>1, <2>2, <2>3, <2>4, <2>5, <2>6, <2>7, <2>8
      DEF CompilerNext, Request, CompilerStep, Rest
<1>3. QED
    BY <1>1, <1>2, TypeInvariant, PTL DEF CompilerSpec

\* poly_instances and poly_parents describe the same live instances, whatever
\* was loaded, failed or unloaded, and whichever way it was unloaded
\* (compiler.rs:186-189, code_store.rs:75-79).
THEOREM PolyTables == CompilerSpec => []PolyTablesAgree
<1>1. PolyInv => PolyTablesAgree
    BY DEF PolyInv
<1>2. QED
    BY <1>1, PolyInvariant, PTL

-----------------------------------------------------------------------------
(*****************************************************************************)
(* The search for dependents.  Layer[k] of FindAllDependents is a recursive  *)
(* function: it exists (LayersExist), each layer is in every set closed      *)
(* under importers (FindsOnlyDependents), and, as there are no more units    *)
(* than ids, the last layer is itself such a set (FindsAllDependents).       *)
(*****************************************************************************)

Nearer(S) == S \cup {e[1] : e \in {e \in imports : e[2] \in S}}
Layers(f, u, D) == f = [k \in D |-> IF k = 0 THEN {u} ELSE Nearer(f[k - 1])]

LEMMA LayersExist ==
    ASSUME NEW u
    PROVE  \E f : Layers(f, u, Nat)
<1> DEFINE Built == {k \in Nat : \E f : Layers(f, u, 0 .. k)}
           Only(g, f, k) == \A i \in 0 .. k : g[i] = f[i]
<1>1. ASSUME NEW k \in Nat, NEW f, Layers(f, u, 0 .. k), NEW l \in Nat, l <= k,
             NEW g, Layers(g, u, 0 .. l)
      PROVE  \A i \in 0 .. l : g[i] = f[i]
  <2> DEFINE Same == {i \in Nat : i <= l => g[i] = f[i]}
  <2>1. 0 \in Same
      BY <1>1 DEF Layers
  <2>2. ASSUME NEW i \in Nat, i \in Same PROVE i + 1 \in Same
    <3>1. CASE i + 1 <= l
      <4>1. i \in 0 .. l /\ i + 1 \in 0 .. l /\ i + 1 \in 0 .. k /\ i + 1 # 0 /\ (i + 1) - 1 = i
          BY <1>1, <3>1
      <4>2. g[i + 1] = Nearer(g[(i + 1) - 1])
          BY <1>1, <4>1 DEF Layers
      <4>3. f[i + 1] = Nearer(f[(i + 1) - 1])
          BY <1>1, <4>1 DEF Layers
      <4>4. g[i] = f[i]
          BY <2>2, <4>1
      <4>5. QED
          BY <4>1, <4>2, <4>3, <4>4
    <3>2. QED
        BY <3>1
  <2>3. Nat \subseteq Same
    <3> HIDE DEF Same
    <3>1. QED
        BY <2>1, <2>2, NatSetInduction
  <2>4. QED
      BY <2>3
<1>2. 0 \in Built
  <2>1. Layers([k \in 0 .. 0 |-> {u}], u, 0 .. 0)
      BY DEF Layers
  <2>2. QED
      BY <2>1
<1>3. ASSUME NEW k \in Nat, k \in Built PROVE k + 1 \in Built
  <2>1. PICK f : Layers(f, u, 0 .. k)
      BY <1>3
  <2> DEFINE g == [i \in 0 .. k + 1 |-> IF i = k + 1 THEN Nearer(f[k]) ELSE f[i]]
  <2>2. \A i \in 0 .. k : f[i] = IF i = 0 THEN {u} ELSE Nearer(f[i - 1])
      BY <2>1 DEF Layers
  <2>3. \A i \in 0 .. k + 1 : g[i] = IF i = 0 THEN {u} ELSE Nearer(g[i - 1])
    <3>1. TAKE i \in 0 .. k + 1
    <3>2. CASE i = k + 1
        BY <3>2
    <3>3. CASE i # k + 1
      <4>1. i \in 0 .. k /\ g[i] = f[i]
          BY <3>3
      <4>2. i # 0 => i - 1 \in 0 .. k + 1 /\ i - 1 # k + 1 /\ g[i - 1] = f[i - 1]
          BY <4>1
      <4>3. QED
          BY <2>2, <4>1, <4>2
    <3>4. QED
        BY <3>2, <3>3
  <2>4. Layers(g, u, 0 .. k + 1)
      BY <2>3 DEF Layers
  <2>5. QED
      BY <2>4
<1>4. \A k \in Nat : \E f : Layers(f, u, 0 .. k)
  <2>1. Nat \subseteq Built
    <3> HIDE DEF Built
    <3>1. QED
        BY <1>2, <1>3, NatSetInduction
  <2>2. QED
      BY <2>1
<1> DEFINE F(k) == CHOOSE f : Layers(f, u, 0 .. k)
           L == [k \in Nat |-> F(k)[k]]
<1>5. \A k \in Nat : Layers(F(k), u, 0 .. k)
    BY <1>4, Zenon
<1>6. ASSUME NEW k \in Nat PROVE L[k] = IF k = 0 THEN {u} ELSE Nearer(L[k - 1])
  <2>1. L[k] = F(k)[k]
      OBVIOUS
  <2>2. Layers(F(k), u, 0 .. k)
      BY <1>5
  <2> HIDE DEF F
  <2>3. CASE k = 0
      BY <2>1, <2>2, <2>3 DEF Layers
  <2>4. CASE k # 0
    <3>1. k - 1 \in Nat /\ k - 1 <= k /\ L[k - 1] = F(k - 1)[k - 1]
        BY <2>4
    <3>2. Layers(F(k - 1), u, 0 .. k - 1)
        BY <1>5, <3>1
    <3>3. F(k - 1)[k - 1] = F(k)[k - 1]
        BY <1>1, <2>2, <3>1, <3>2
    <3>4. F(k)[k] = Nearer(F(k)[k - 1])
        BY <2>2, <2>4 DEF Layers
    <3>5. QED
        BY <2>1, <2>4, <3>1, <3>3, <3>4
  <2>5. QED
      BY <2>3, <2>4
<1>7. Layers(L, u, Nat)
  <2> HIDE DEF F
  <2> QED BY <1>6 DEF Layers
<1>8. QED
    BY <1>7

LEMMA Search1 ==
  ASSUME NEW u
  PROVE \E f : Layers(f, u, Nat) /\ FindAllDependents(u) = f[uids]
<1> DEFINE L == CHOOSE f : f = [k \in Nat |-> IF k = 0 THEN {u} ELSE Nearer(f[k-1])]
<1>1. FindAllDependents(u) = L[uids]
  BY Zenon DEF FindAllDependents, Nearer
<1>2. \E f : f = [k \in Nat |-> IF k = 0 THEN {u} ELSE Nearer(f[k-1])]
  BY LayersExist DEF Layers
<1>3. L = [k \in Nat |-> IF k = 0 THEN {u} ELSE Nearer(L[k-1])]
  BY <1>2, Zenon
<1>4. Layers(L, u, Nat)
  BY <1>3 DEF Layers
<1> QED BY <1>1, <1>4

\* What the search finds, and nothing is missed when it stops: a layer that
\* adds nothing is the last, and each that does adds a unit.
LEMMA FindsFirst ==
    ASSUME uids \in Nat, NEW u
    PROVE  u \in FindAllDependents(u)
<1>1. PICK f : Layers(f, u, Nat) /\ FindAllDependents(u) = f[uids]
    BY Search1
<1> DEFINE S == {k \in Nat : u \in f[k]}
<1>2. 0 \in S
    BY <1>1 DEF Layers
<1>3. ASSUME NEW k \in Nat, k \in S PROVE k + 1 \in S
  <2>1. k + 1 # 0 /\ k + 1 \in Nat /\ (k + 1) - 1 = k
      OBVIOUS
  <2>2. f[k + 1] = Nearer(f[k])
      BY <1>1, <2>1 DEF Layers
  <2>3. QED
      BY <1>3, <2>1, <2>2 DEF Nearer
<1>4. Nat \subseteq S
  <2> HIDE DEF S
  <2>1. QED
      BY <1>2, <1>3, NatSetInduction
<1>5. QED
    BY <1>1, <1>4

LEMMA FindsOnlyDependents ==
    ASSUME uids \in Nat, NEW u, NEW C, u \in C,
           \A e \in imports : e[2] \in C => e[1] \in C
    PROVE  FindAllDependents(u) \subseteq C
<1>1. PICK f : Layers(f, u, Nat) /\ FindAllDependents(u) = f[uids]
    BY Search1
<1> DEFINE S == {k \in Nat : f[k] \subseteq C}
<1>2. 0 \in S
    BY <1>1 DEF Layers
<1>3. ASSUME NEW k \in Nat, k \in S PROVE k + 1 \in S
  <2>1. k + 1 # 0 /\ k + 1 \in Nat /\ (k + 1) - 1 = k
      OBVIOUS
  <2>2. f[k + 1] = Nearer(f[k])
      BY <1>1, <2>1 DEF Layers
  <2>3. QED
      BY <1>3, <2>1, <2>2 DEF Nearer
<1>4. Nat \subseteq S
  <2> HIDE DEF S
  <2>1. QED
      BY <1>2, <1>3, NatSetInduction
<1>5. QED
    BY <1>1, <1>4

LEMMA FindsAllDependents ==
    ASSUME uids \in Nat, imports \subseteq (1 .. uids) \X (0 .. uids), NEW u \in 0 .. uids
    PROVE  \A e \in imports : e[2] \in FindAllDependents(u) => e[1] \in FindAllDependents(u)
<1>1. PICK f : Layers(f, u, Nat) /\ FindAllDependents(u) = f[uids]
    BY Search1
<1> SUFFICES ASSUME NEW e \in imports, e[2] \in f[uids], e[1] \notin f[uids] PROVE FALSE
    BY <1>1
<1>2. f[0] = {u} /\ \A k \in Nat : f[k + 1] = Nearer(f[k])
  <2>1. \A k \in Nat : k + 1 # 0 /\ k + 1 \in Nat /\ (k + 1) - 1 = k
      OBVIOUS
  <2>2. QED
      BY <1>1, <2>1 DEF Layers
<1>3. ASSUME NEW k \in Nat, k <= uids PROVE Nearer(f[k]) # f[k]
  <2>1. SUFFICES ASSUME Nearer(f[k]) = f[k] PROVE FALSE
      OBVIOUS
  <2> DEFINE S == {j \in Nat : f[k + j] = f[k]}
  <2>2. 0 \in S
      OBVIOUS
  <2>3. ASSUME NEW j \in Nat, j \in S PROVE j + 1 \in S
    <3>1. k + j \in Nat /\ k + (j + 1) = (k + j) + 1
        OBVIOUS
    <3>2. QED
        BY <1>2, <2>1, <2>3, <3>1
  <2>4. Nat \subseteq S
    <3> HIDE DEF S
    <3>1. QED
        BY <2>2, <2>3, NatSetInduction
  <2>5. uids - k \in Nat /\ k + (uids - k) = uids
      BY <1>3
  <2>6. f[uids] = f[k]
      BY <2>4, <2>5
  <2>7. QED
      BY <2>1, <2>6 DEF Nearer
<1> DEFINE S == {k \in Nat : f[k] \subseteq 0 .. uids /\ (k <= uids => Cardinality(f[k]) >= k + 1)}
<1>4. \A T \in SUBSET (0 .. uids) : IsFiniteSet(T) /\ Cardinality(T) \in Nat /\ Cardinality(T) <= uids + 1
  <2>1. IsFiniteSet(0 .. uids) /\ Cardinality(0 .. uids) = uids + 1
      BY FS_Interval
  <2>2. ASSUME NEW T \in SUBSET (0 .. uids)
        PROVE  IsFiniteSet(T) /\ Cardinality(T) <= uids + 1
    <3>1. IsFiniteSet(T) /\ Cardinality(T) <= Cardinality(0 .. uids)
        BY <2>1, FS_Subset, Zenon
    <3>2. QED
        BY <2>1, <3>1
  <2>3. QED
      BY <2>2, FS_CardinalityType
<1>5. 0 \in S
  <2>1. Cardinality({u}) = 1
      BY FS_Singleton
  <2>2. f[0] = {u} /\ {u} \subseteq 0 .. uids
      BY <1>2
  <2>3. 0 \in Nat /\ (0 <= uids => Cardinality(f[0]) >= 0 + 1)
      BY <2>1, <2>2
  <2>4. QED
      BY <2>2, <2>3
<1>6. ASSUME NEW k \in Nat, k \in S PROVE k + 1 \in S
  <2>1. f[k + 1] = Nearer(f[k]) /\ k + 1 \in Nat
      BY <1>2
  <2>2. f[k] \subseteq f[k + 1] /\ f[k + 1] \subseteq 0 .. uids
      BY <1>6, <2>1 DEF Nearer
  <2>3. CASE k + 1 <= uids
    <3>1. f[k] # f[k + 1] /\ Cardinality(f[k]) >= k + 1
        BY <1>3, <1>6, <2>1, <2>3
    <3>2. PICK x : x \in f[k + 1] /\ x \notin f[k]
        BY <2>2, <3>1
    <3>3. IsFiniteSet(f[k]) /\ IsFiniteSet(f[k + 1]) /\ Cardinality(f[k]) \in Nat /\ Cardinality(f[k + 1]) \in Nat
        BY <1>4, <1>6, <2>2
    <3>4. Cardinality(f[k]) < Cardinality(f[k + 1])
        BY <2>2, <3>1, <3>3, FS_Subset
    <3>5. QED
        BY <2>1, <2>2, <3>1, <3>3, <3>4
  <2>4. QED
      BY <2>1, <2>2, <2>3
<1>7. Nat \subseteq S
  <2> HIDE DEF S
  <2>1. QED
      BY <1>5, <1>6, NatSetInduction
<1>8. f[uids] \subseteq 0 .. uids /\ Cardinality(f[uids]) >= uids + 1
    BY <1>7
<1>9. e[1] \in 0 .. uids /\ f[uids] \in SUBSET (0 .. uids)
    BY <1>8
<1>10. Cardinality(0 .. uids) = uids + 1 /\ IsFiniteSet(0 .. uids)
    BY FS_Interval
<1>11. Cardinality(f[uids]) \in Nat /\ Cardinality(f[uids]) <= uids + 1
    BY <1>4, <1>9
<1>12. Cardinality(0 .. uids) = Cardinality(f[uids])
    BY <1>8, <1>10, <1>11
<1>13. 0 .. uids = f[uids]
    BY <1>9, <1>10, <1>12, FS_Subset, Zenon
<1>14. QED
    BY <1>9, <1>13

-----------------------------------------------------------------------------
(*****************************************************************************)
(* What the tables have of a unit, by the phase of the load that makes it.   *)
(*****************************************************************************)

\* A load has not come to running its module yet.
Making == loads # << >> /\ Top.phase # "run"

\* Tables have entries for named units only, edges join ids handed out, a unit
\* whose text did not parse has no edges, and the unit of the intrinsics stays
\* as it is.
EntriesOK ==
    /\ DOMAIN exprs \subseteq DOMAIN names /\ nodes \subseteq DOMAIN names
    /\ DOMAIN types \subseteq DOMAIN names /\ DOMAIN mappings \subseteq DOMAIN names
    /\ DOMAIN codegenMapping \subseteq DOMAIN types
    /\ imports \subseteq (1 .. uids) \X (0 .. uids)
    /\ code \subseteq 1 .. uids
    /\ DOMAIN types \cap code \subseteq DOMAIN exprs
    /\ \A e \in imports : e[1] \in Unparsed => e[1] \notin DOMAIN names
    /\ Intrinsics \in DOMAIN types /\ types[Intrinsics] = IntrinsicsInfo
    /\ Intrinsics \notin DOMAIN exprs /\ Intrinsics \notin DOMAIN codegenMapping
    /\ interpImports \subseteq DOMAIN types

\* The phases in which every unit of a load has been typechecked.
Checked == {"instances", "components", "generate", "run"}

\* What the tables have of the units of a load, by its phase.
FrameOK(fr) ==
    /\ fr.new # << >> /\ fr.new[1] = fr.unit
    /\ \A i, j \in 1 .. Len(fr.new) : i < j => fr.new[i] < fr.new[j]
    /\ Elements(fr.new) \subseteq DOMAIN names \ {Intrinsics}
    /\ fr.phase = "parse" => fr.unit \in code \ DOMAIN exprs
    /\ fr.phase \notin {"parse", "failed"} => fr.unit \in DOMAIN exprs
    /\ fr.phase \in {"parse", "structure", "typecheck"} =>
          Len(fr.new) = 1 /\ fr.unit \notin DOMAIN types
    /\ fr.phase \in Checked \cup {"typecheck"} => fr.unit \in nodes
    /\ fr.phase \in Checked =>
          /\ Elements(fr.new) \subseteq DOMAIN types \cap DOMAIN mappings
          /\ Elements(fr.new) \ {fr.unit} \subseteq DOMAIN polyParents
    /\ fr.phase = "instances" => Elements(fr.queue) \subseteq Elements(fr.new)
    /\ fr.phase = "generate" =>
          /\ UNION fr.groups \subseteq Elements(fr.new)
          /\ Elements(fr.new) \subseteq (UNION fr.groups) \cup DOMAIN codegenMapping
    /\ fr.phase = "run" => Elements(fr.new) \subseteq DOMAIN codegenMapping
    /\ fr.phase # "run" => fr.imports \subseteq DOMAIN types

\* The units of a load are younger than those of the loads around it.
LoadsOK ==
    /\ \A i \in 1 .. Len(loads) : FrameOK(loads[i])
    /\ \A i, j \in 1 .. Len(loads) :
          i < j => \A u \in Elements(loads[i].new) : u < loads[j].unit

ProgressInv == EntriesOK /\ LoadsOK

\* No table loses an entry.
Grows ==
    /\ DOMAIN names \subseteq DOMAIN names' /\ DOMAIN exprs \subseteq DOMAIN exprs'
    /\ nodes \subseteq nodes' /\ DOMAIN types \subseteq DOMAIN types'
    /\ DOMAIN mappings \subseteq DOMAIN mappings'
    /\ DOMAIN polyParents \subseteq DOMAIN polyParents'
    /\ DOMAIN codegenMapping \subseteq DOMAIN codegenMapping'

-----------------------------------------------------------------------------

LEMMA ElementsLemma ==
    ASSUME NEW s \in Seq(Nat)
    PROVE  /\ Elements(s) \subseteq Nat
           /\ Elements(s) = {s[i] : i \in 1 .. Len(s)}
           /\ \A x \in Nat : Elements(Append(s, x)) = Elements(s) \cup {x}
           /\ s # << >> => /\ Elements(s) = {s[1]} \cup Elements(Tail(s))
                           /\ s[1] \in Elements(s) /\ Head(s) = s[1]
<1>1. Elements(s) = {s[i] : i \in 1 .. Len(s)} /\ Elements(s) \subseteq Nat
    BY DEF Elements, Image
<1>2. ASSUME NEW x \in Nat PROVE Elements(Append(s, x)) = Elements(s) \cup {x}
  <2> DEFINE t == Append(s, x)
  <2>1. /\ Len(t) = Len(s) + 1 /\ t[Len(s) + 1] = x /\ Len(s) \in Nat
        /\ \A i \in 1 .. Len(s) : t[i] = s[i]
        /\ DOMAIN t = 1 .. Len(s) + 1
      OBVIOUS
  <2>2. 1 .. Len(s) + 1 = (1 .. Len(s)) \cup {Len(s) + 1}
      BY <2>1
  <2> HIDE DEF t
  <2>3. {t[i] : i \in (1 .. Len(s)) \cup {Len(s) + 1}} = {s[i] : i \in 1 .. Len(s)} \cup {x}
      BY <2>1
  <2>4. QED
      BY <1>1, <2>1, <2>2, <2>3 DEF Elements, Image, t
<1>3. ASSUME s # << >>
      PROVE  Elements(s) = {s[1]} \cup Elements(Tail(s)) /\ s[1] \in Elements(s) /\ Head(s) = s[1]
  <2> DEFINE t == Tail(s)
  <2>1. /\ t \in Seq(Nat) /\ Len(s) \in Nat \ {0} /\ Len(t) = Len(s) - 1 /\ Head(s) = s[1]
        /\ \A i \in 1 .. Len(t) : t[i] = s[i + 1]
      BY <1>3, TailLemma
  <2> HIDE DEF t
  <2>2. Elements(t) = {t[i] : i \in 1 .. Len(t)}
      BY <2>1 DEF Elements, Image
  <2>3. ASSUME NEW i \in 1 .. Len(s) PROVE s[i] \in {s[1]} \cup {t[j] : j \in 1 .. Len(t)}
    <3>1. CASE i = 1
        BY <3>1
    <3>2. CASE i # 1
      <4>1. i - 1 \in 1 .. Len(t) /\ (i - 1) + 1 = i
          BY <2>1, <3>2
      <4>2. t[i - 1] = s[i]
          BY <2>1, <4>1
      <4>3. QED
          BY <4>1, <4>2
    <3>3. QED
        BY <3>1, <3>2
  <2>4. ASSUME NEW j \in 1 .. Len(t) PROVE t[j] \in {s[i] : i \in 1 .. Len(s)}
    <3>1. j + 1 \in 1 .. Len(s) /\ t[j] = s[j + 1]
        BY <2>1
    <3>2. QED
        BY <3>1
  <2>5. 1 \in 1 .. Len(s)
      BY <2>1
  <2>6. QED
      BY <1>1, <2>1, <2>2, <2>3, <2>4, <2>5 DEF t
<1>4. QED
    BY <1>1, <1>2, <1>3

\* A step of the innermost load, and its end.
LEMMA SetTopEffect ==
    ASSUME loads \in Seq(Frames), loads # << >>, NEW frame, SetTop(frame)
    PROVE  /\ Len(loads) \in Nat \ {0} /\ Len(loads') = Len(loads) /\ loads' # << >>
           /\ Top' = frame /\ Top' = loads'[Len(loads)]
           /\ \A i \in 1 .. Len(loads) : i # Len(loads) => loads'[i] = loads[i]
<1>1. Len(loads) \in Nat \ {0} /\ Len(loads) \in 1 .. Len(loads)
    BY TopLemma
<1>2. loads' = [loads EXCEPT ![Len(loads)] = frame]
    BY DEF SetTop
<1>3. Len(loads') = Len(loads)
    BY <1>1, <1>2
<1>4. loads'[Len(loads)] = frame
    BY <1>1, <1>2
<1>5. \A i \in 1 .. Len(loads) : i # Len(loads) => loads'[i] = loads[i]
    BY <1>1, <1>2
<1>6. loads' # << >>
    BY <1>1, <1>3
<1>7. QED
    BY <1>1, <1>3, <1>4, <1>5, <1>6 DEF Top

LEMMA ReturnEffect ==
    ASSUME loads \in Seq(Frames), loads # << >>, Return
    PROVE  /\ Len(loads) \in Nat \ {0} /\ Len(loads') = Len(loads) - 1
           /\ \A i \in 1 .. Len(loads') :
                 i \in 1 .. Len(loads) /\ i # Len(loads) /\ loads'[i] = loads[i]
<1>1. Len(loads) \in Nat \ {0} /\ Len(loads) - 1 \in 0 .. Len(loads)
    BY TopLemma
<1>2. /\ Len(loads') = Len(loads) - 1
      /\ \A i \in 1 .. Len(loads) - 1 : loads'[i] = loads[i]
    BY <1>1, PrefixLemma DEF Return
<1>3. QED
    BY <1>1, <1>2

\* What running code has loaded stays as complete as it is.
LEMMA GrowthKeepsFrame ==
    ASSUME Grows, NEW fr, FrameOK(fr), fr.phase = "run"
    PROVE  FrameOK(fr)'
    BY DEF Grows, FrameOK, Checked

LEMMA RemovalKeepsFrame ==
    ASSUME NEW S, RemoveUnits(S), NEW fr, FrameOK(fr), fr.phase = "run",
           fr.new \in Seq(Nat), S \cap Elements(fr.new) = {}
    PROVE  FrameOK(fr)'
<1>1. /\ DOMAIN names' = DOMAIN names \ S /\ DOMAIN exprs' = DOMAIN exprs \ S
      /\ nodes' = nodes \ S /\ DOMAIN types' = DOMAIN types \ S
      /\ DOMAIN mappings' = DOMAIN mappings \ S
      /\ DOMAIN polyParents' = DOMAIN polyParents \ S
      /\ DOMAIN codegenMapping' = DOMAIN codegenMapping \ S
    BY DEF RemoveUnits, Without
<1>2. fr.unit \in Elements(fr.new)
    BY ElementsLemma DEF FrameOK
<1>3. QED
    BY <1>1, <1>2 DEF FrameOK, Checked

LEMMA StepKeepsLoads ==
    ASSUME TypeInv, LoadsOK, loads # << >>, NEW frame, SetTop(frame), frame.unit = Top.unit,
           Grows, FrameOK(Top)'
    PROVE  LoadsOK'
<1>1. loads \in Seq(Frames) /\ FramesOK
    BY DEF TypeInv, CompilerTypeOK
<1>2. /\ Len(loads') = Len(loads) /\ Top' = loads'[Len(loads)] /\ Len(loads) \in Nat
      /\ Top' = frame
      /\ \A i \in 1 .. Len(loads) : i # Len(loads) => loads'[i] = loads[i]
    BY <1>1, SetTopEffect
<1>3. ASSUME NEW i \in 1 .. Len(loads) PROVE FrameOK(loads[i])'
  <2>1. CASE i = Len(loads)
      BY <1>2, <2>1 DEF FrameOK
  <2>2. CASE i # Len(loads)
    <3>1. loads'[i] = loads[i] /\ FrameOK(loads[i]) /\ loads[i].phase = "run"
        BY <1>1, <1>2, <2>2 DEF LoadsOK, FramesOK
    <3>2. QED
        BY <3>1, GrowthKeepsFrame DEF FrameOK
  <2>3. QED
      BY <2>1, <2>2
<1>4. ASSUME NEW i \in 1 .. Len(loads), NEW j \in 1 .. Len(loads), i < j,
             NEW u \in Elements(loads'[i].new)
      PROVE  u < loads'[j].unit
  <2>1. i # Len(loads) /\ loads'[i] = loads[i] /\ loads'[j].unit = loads[j].unit
      BY <1>2, <1>4 DEF Top
  <2>2. QED
      BY <1>4, <2>1 DEF LoadsOK
<1>5. QED
    BY <1>2, <1>3, <1>4 DEF LoadsOK

LEMMA ReturnKeepsLoads ==
    ASSUME TypeInv, LoadsOK, loads # << >>, Return,
           Grows
    PROVE  LoadsOK'
<1>1. loads \in Seq(Frames) /\ FramesOK
    BY DEF TypeInv, CompilerTypeOK
<1>2. \A i \in 1 .. Len(loads') :
         i \in 1 .. Len(loads) /\ i # Len(loads) /\ loads'[i] = loads[i]
    BY <1>1, ReturnEffect
<1>3. ASSUME NEW i \in 1 .. Len(loads') PROVE FrameOK(loads[i])'
  <2>1. loads'[i] = loads[i] /\ FrameOK(loads[i]) /\ loads[i].phase = "run"
      BY <1>1, <1>2 DEF LoadsOK, FramesOK
  <2>2. QED
      BY <2>1, GrowthKeepsFrame DEF FrameOK
<1>4. QED
    BY <1>2, <1>3 DEF LoadsOK

\* A new load, when what the others have loaded is running.
LEMMA PushKeepsLoads ==
    ASSUME TypeInv, LoadsOK, \A i \in 1 .. Len(loads) : loads[i].phase = "run",
           NEW frame \in Frames, loads' = Append(loads, frame), Grows, FrameOK(Top)',
           \A i \in 1 .. Len(loads) : \A u \in Elements(loads[i].new) : u < frame.unit
    PROVE  LoadsOK'
<1>1. loads \in Seq(Frames)
    BY DEF TypeInv, CompilerTypeOK
<1>2. /\ Len(loads') = Len(loads) + 1 /\ Top' = loads'[Len(loads) + 1] /\ Len(loads) \in Nat
      /\ Top' = frame
      /\ \A i \in 1 .. Len(loads) : loads'[i] = loads[i]
    BY <1>1, PushLemma DEF Top
<1>3. ASSUME NEW i \in 1 .. Len(loads) + 1 PROVE FrameOK(loads[i])'
  <2>1. CASE i = Len(loads) + 1
      BY <1>2, <2>1 DEF FrameOK
  <2>2. CASE i # Len(loads) + 1
    <3>1. i \in 1 .. Len(loads)
        BY <1>2, <2>2
    <3>2. loads'[i] = loads[i] /\ FrameOK(loads[i]) /\ loads[i].phase = "run"
        BY <1>2, <3>1 DEF LoadsOK
    <3>3. QED
        BY <3>2, GrowthKeepsFrame DEF FrameOK
  <2>3. QED
      BY <2>1, <2>2
<1>4. ASSUME NEW i \in 1 .. Len(loads) + 1, NEW j \in 1 .. Len(loads) + 1, i < j,
             NEW u \in Elements(loads'[i].new)
      PROVE  u < loads'[j].unit
  <2>1. i \in 1 .. Len(loads) /\ loads'[i] = loads[i]
      BY <1>2, <1>4
  <2>2. CASE j = Len(loads) + 1
      BY <1>2, <1>4, <2>1, <2>2
  <2>3. CASE j # Len(loads) + 1
    <3>1. j \in 1 .. Len(loads) /\ loads'[j] = loads[j]
        BY <1>2, <2>3
    <3>2. QED
        BY <1>4, <2>1, <3>1 DEF LoadsOK
  <2>4. QED
      BY <2>2, <2>3
<1>5. QED
    BY <1>2, <1>3, <1>4 DEF LoadsOK

\* Removal of units that are of no load but the one that ends.
LEMMA RemovalKeepsLoads ==
    ASSUME TypeInv, LoadsOK, NEW S, RemoveUnits(S), loads' \in Seq(Frames),
           \A i \in 1 .. Len(loads') :
              /\ i \in 1 .. Len(loads) /\ loads'[i] = loads[i] /\ loads[i].phase = "run"
              /\ S \cap Elements(loads[i].new) = {}
    PROVE  LoadsOK'
<1>1. loads \in Seq(Frames)
    BY DEF TypeInv, CompilerTypeOK
<1>2. ASSUME NEW i \in 1 .. Len(loads') PROVE FrameOK(loads[i])'
  <2>1. /\ loads'[i] = loads[i] /\ FrameOK(loads[i]) /\ loads[i].phase = "run"
        /\ S \cap Elements(loads[i].new) = {} /\ loads[i] \in Frames
      BY <1>1 DEF LoadsOK
  <2>2. loads[i].new \in Seq(Nat)
      BY <2>1 DEF Frames
  <2>3. QED
      BY <2>1, <2>2, RemovalKeepsFrame DEF FrameOK
<1>3. QED
    BY <1>1, <1>2 DEF LoadsOK

-----------------------------------------------------------------------------

\* What every stage knows of the load it works on.
LEMMA TopLemmas ==
    ASSUME TypeInv, LoadsOK, loads # << >>
    PROVE  /\ Top \in Frames /\ FrameOK(Top) /\ loads \in Seq(Frames)
           /\ Top.unit \in Nat \ {0} /\ Top.unit \in DOMAIN names
           /\ Top.unit \in Elements(Top.new) /\ Elements(Top.new) \subseteq Nat \ {0}
           /\ Elements(Top.new) \subseteq DOMAIN names
           /\ \A u \in Elements(Top.new) : Top.unit <= u
           /\ DOMAIN names \subseteq 0 .. uids /\ uids \in Nat
<1>1. /\ Top \in Frames /\ loads \in Seq(Frames) /\ Top.new \in Seq(Nat) /\ Top.unit \in Nat
      /\ DOMAIN names \subseteq 0 .. uids /\ uids \in Nat
    BY StageLemma DEF StoreTypeOK
<1>2. FrameOK(Top)
  <2>1. Len(loads) \in 1 .. Len(loads)
      BY <1>1, TopLemma
  <2>2. FrameOK(loads[Len(loads)])
      BY <2>1 DEF LoadsOK
  <2>3. QED
      BY <2>2 DEF FrameOK, Top
<1>3. /\ Top.unit \in Elements(Top.new) /\ Elements(Top.new) \subseteq Nat \ {0}
      /\ Elements(Top.new) \subseteq DOMAIN names
    BY <1>1, <1>2, ElementsLemma DEF FrameOK, Intrinsics
<1>4. ASSUME NEW u \in Elements(Top.new) PROVE Top.unit <= u
  <2>1. PICK i \in 1 .. Len(Top.new) : u = Top.new[i]
      BY <1>1, ElementsLemma
  <2>2. Top.new[1] = Top.unit /\ (1 < i => Top.new[1] < Top.new[i]) /\ 1 \in 1 .. Len(Top.new)
    <3>1. 1 \in 1 .. Len(Top.new)
        BY <1>1, <2>1
    <3>2. QED
        BY <1>2, <3>1 DEF FrameOK
  <2>3. QED
      BY <1>1, <2>1, <2>2
<1>5. QED
    BY <1>1, <1>2, <1>3, <1>4

LEMMA GoToEffect ==
    ASSUME loads \in Seq(Frames), loads # << >>, NEW phase \in Phases, GoTo(phase)
    PROVE  /\ SetTop([Top EXCEPT !.phase = phase])
           /\ [Top EXCEPT !.phase = phase].unit = Top.unit
           /\ Top'.unit = Top.unit /\ Top'.source = Top.source /\ Top'.imports = Top.imports
           /\ Top'.new = Top.new /\ Top'.phase = phase /\ Top'.queue = Top.queue
           /\ Top'.refs = Top.refs /\ Top'.groups = Top.groups /\ loads' # << >>
<1>1. Top \in Frames
    BY TopLemma DEF Top
<1>2. Top' = [Top EXCEPT !.phase = phase] /\ loads' # << >>
    BY SetTopEffect DEF GoTo
<1>3. QED
    BY <1>1, <1>2 DEF GoTo, Frames

LEMMA StutterKeepsProgress ==
    ASSUME ProgressInv, UNCHANGED <<storeVars, loads, interpImports>>
    PROVE  ProgressInv'
<1>1. EntriesOK'
    BY DEF storeVars, ProgressInv, EntriesOK, Unparsed
<1>2. ASSUME NEW fr, FrameOK(fr) PROVE FrameOK(fr)'
    BY <1>2 DEF storeVars, FrameOK
<1>3. LoadsOK'
  <2>1. ASSUME NEW i \in 1 .. Len(loads) PROVE FrameOK(loads[i])'
    <3>1. PICK fr : fr = loads[i] /\ fr = loads'[i]
        OBVIOUS
    <3>2. FrameOK(fr)'
        BY <1>2, <3>1 DEF ProgressInv, LoadsOK
    <3>3. QED
        BY <3>1, <3>2 DEF FrameOK
  <2>2. QED
      BY <2>1 DEF ProgressInv, LoadsOK
<1>4. QED
    BY <1>1, <1>3 DEF ProgressInv

\* The units of a new module and what a fresh id is.
LEMMA LoadCodeProgress ==
    ASSUME TypeInv, TypeInv', ProgressInv, NEW s \in Sources, LoadCode(s), UNCHANGED panic
    PROVE  ProgressInv'
<1> DEFINE u == uids + 1
<1>1. \/ /\ loads = << >> /\ CreateUnit(u, NameFor(s, u)) /\ code' = code \cup {u}
         /\ loads' = <<Frame(u, s, interpImports, "parse")>>
         /\ UNCHANGED <<imports, exprs, nodes, types, mappings, codegenMapping,
                        llvmUnits, vals, polyInstances, polyParents, interpImports>>
      \/ UNCHANGED <<storeVars, loads, interpImports>>
    BY DEF LoadCode, Panic, Idle, hostVars, Running
<1>2. /\ uids \in Nat /\ DOMAIN names \subseteq 0 .. uids /\ u \in Nat /\ u \notin 0 .. uids
      /\ interpImports \subseteq Nat
    BY DEF TypeInv, CompilerTypeOK, StoreTypeOK
<1>3. CASE UNCHANGED <<storeVars, loads, interpImports>>
    BY <1>3, StutterKeepsProgress
<1>4. CASE /\ loads = << >> /\ CreateUnit(u, NameFor(s, u)) /\ code' = code \cup {u}
           /\ loads' = <<Frame(u, s, interpImports, "parse")>>
           /\ UNCHANGED <<imports, exprs, nodes, types, mappings, codegenMapping,
                          llvmUnits, vals, polyInstances, polyParents, interpImports>>
  <2>1. uids' = u /\ DOMAIN names' = DOMAIN names \cup {u}
      BY <1>4 DEF CreateUnit, Extend
  <2> DEFINE frame == Frame(u, s, interpImports, "parse")
  <2>2. frame \in Frames
      BY <1>2, FrameLemma DEF Phases
  <2>3. /\ frame.new = <<u>> /\ frame.unit = u /\ frame.phase = "parse"
        /\ frame.imports = interpImports \cup {Intrinsics}
      BY DEF Frame
  <2>4. Elements(<<u>>) = {u}
      BY DEF Elements, Image
  <2>5. loads' = Append(loads, frame) /\ Top' = frame /\ Len(loads) = 0
      BY <1>4 DEF Top
  <2>6. FrameOK(Top)'
    <3> HIDE DEF frame, u
    <3>1. u \notin DOMAIN names /\ u # 0
        BY <1>2
    <3>2. QED
        BY <1>4, <2>1, <2>3, <2>4, <2>5, <3>1 DEF FrameOK, ProgressInv, EntriesOK, Intrinsics, Checked
  <2>7. Grows
      BY <1>4, <2>1 DEF Grows
  <2>8. LoadsOK'
      BY <2>2, <2>5, <2>6, <2>7, PushKeepsLoads DEF ProgressInv
  <2>9. EntriesOK'
    <3> HIDE DEF frame
    <3>1. UNCHANGED types /\ Unparsed' = Unparsed \cup {u}
        BY <1>2, <1>4 DEF Unparsed, ProgressInv, EntriesOK
    <3>2. \A e \in imports : e[1] # u /\ e[1] \in 0 .. uids
        BY <1>2 DEF ProgressInv, EntriesOK
    <3>3. \A e \in imports : e[1] \in Unparsed' => e[1] \notin DOMAIN names'
        BY <2>1, <3>1, <3>2 DEF ProgressInv, EntriesOK
    <3>4. imports \subseteq (1 .. u) \X (0 .. u) /\ code' \subseteq 1 .. u
        BY <1>2, <1>4 DEF ProgressInv, EntriesOK
    <3>5. (DOMAIN types \cap code') \subseteq DOMAIN exprs
        BY <1>2, <1>4 DEF ProgressInv, EntriesOK
    <3>6. QED
        BY <1>4, <2>1, <3>3, <3>4, <3>5 DEF ProgressInv, EntriesOK
  <2>10. QED
      BY <2>8, <2>9 DEF ProgressInv
<1>5. QED
    BY <1>1, <1>3, <1>4

\* The modules running code may use have been typechecked.
LEMMA LoadExprProgress ==
    ASSUME TypeInv, TypeInv', ProgressInv, NEW s \in Sources, NEW imps \in SUBSET UsableModules,
           LoadExpr(s, imps)
    PROVE  ProgressInv'
<1> DEFINE u == uids + 1
<1>1. \/ /\ UserCode /\ CreateUnit(u, NameFor(s, u)) /\ exprs' = Extend(exprs, u, s)
         /\ imports' = imports \cup ({u} \X (imps \cup {Intrinsics}))
         /\ loads' = Append(loads, Frame(u, s, imps, "structure"))
         /\ UNCHANGED <<code, nodes, types, mappings, codegenMapping,
                        llvmUnits, vals, polyInstances, polyParents, interpImports>>
      \/ UNCHANGED <<storeVars, loads, interpImports>>
    BY DEF LoadExpr, Panic, hostVars
<1>2. /\ uids \in Nat /\ DOMAIN names \subseteq 0 .. uids /\ u \in Nat /\ u \notin 0 .. uids
      /\ interpImports \subseteq Nat /\ FramesOK /\ loads \in Seq(Frames)
    BY DEF TypeInv, CompilerTypeOK, StoreTypeOK
<1>3. CASE UNCHANGED <<storeVars, loads, interpImports>>
    BY <1>3, StutterKeepsProgress
<1>4. CASE /\ UserCode /\ CreateUnit(u, NameFor(s, u)) /\ exprs' = Extend(exprs, u, s)
           /\ imports' = imports \cup ({u} \X (imps \cup {Intrinsics}))
           /\ loads' = Append(loads, Frame(u, s, imps, "structure"))
           /\ UNCHANGED <<code, nodes, types, mappings, codegenMapping,
                          llvmUnits, vals, polyInstances, polyParents, interpImports>>
  <2>1. /\ uids' = u /\ DOMAIN names' = DOMAIN names \cup {u}
        /\ DOMAIN exprs' = DOMAIN exprs \cup {u}
      BY <1>4 DEF CreateUnit, Extend
  <2>2. imps \subseteq DOMAIN types /\ Intrinsics \in DOMAIN types /\ DOMAIN types \subseteq 0 .. uids
      BY <1>2 DEF UsableModules, ProgressInv, EntriesOK
  <2> DEFINE frame == Frame(u, s, imps, "structure")
  <2>3. frame \in Frames
      BY <1>2, <2>2, FrameLemma DEF Phases
  <2>4. /\ frame.new = <<u>> /\ frame.unit = u /\ frame.phase = "structure"
        /\ frame.imports = imps \cup {Intrinsics}
      BY DEF Frame
  <2>5. Elements(<<u>>) = {u}
      BY DEF Elements, Image
  <2>6. loads' = Append(loads, frame) /\ Top' = frame
      BY <1>2, <1>4, <2>3, PushLemma DEF Top
  <2>7. FrameOK(Top)'
    <3> HIDE DEF frame, u
    <3>1. u \notin DOMAIN names /\ u # 0
        BY <1>2
    <3>2. types' = types /\ u \notin DOMAIN types
        BY <1>4, <3>1 DEF ProgressInv, EntriesOK
    <3>3. frame.imports \subseteq DOMAIN types
        BY <2>2, <2>4
    <3>4. QED
      <4>1. /\ Top'.new = <<u>> /\ Top'.unit = u /\ Top'.phase = "structure"
            /\ Top'.imports = frame.imports
          BY <2>4, <2>6
      <4>2. Elements(Top'.new) = {u} /\ Len(Top'.new) = 1 /\ Top'.new[1] = u
          BY <2>5, <4>1
      <4>3. {u} \subseteq DOMAIN names' \ {Intrinsics} /\ u \in DOMAIN exprs'
          BY <2>1, <3>1 DEF Intrinsics
      <4>4. {u} \cap DOMAIN types' = {} /\ frame.imports \subseteq DOMAIN types'
          BY <3>2, <3>3
      <4>5. QED
          BY <2>1, <4>1, <4>2, <4>3, <4>4 DEF FrameOK, Checked
  <2>8. Grows
      BY <1>4, <2>1 DEF Grows
  <2>9. \A i \in 1 .. Len(loads) : loads[i].phase = "run"
      BY <1>2, <1>4 DEF FramesOK, UserCode, At, Top
  <2>10. \A i \in 1 .. Len(loads) : \A w \in Elements(loads[i].new) : w < u
    <3>1. ASSUME NEW i \in 1 .. Len(loads), NEW w \in Elements(loads[i].new) PROVE w \in 0 .. uids
        BY <1>2 DEF ProgressInv, LoadsOK, FrameOK
    <3>2. \A w \in 0 .. uids : w < u
        BY <1>2
    <3> HIDE DEF u
    <3>3. QED
        BY <3>1, <3>2
  <2>11. LoadsOK'
    <3> HIDE DEF frame
    <3> QED BY <2>3, <2>4, <2>6, <2>7, <2>8, <2>9, <2>10, PushKeepsLoads DEF ProgressInv
  <2>12. EntriesOK'
    <3> HIDE DEF frame
    <3>1. imports' \subseteq (1 .. u) \X (0 .. u)
        BY <1>2, <1>4, <2>2 DEF ProgressInv, EntriesOK
    <3>2. code \subseteq 1 .. u /\ u \notin code
        BY <1>2 DEF ProgressInv, EntriesOK
    <3>3. Unparsed' \subseteq Unparsed /\ u \notin Unparsed'
        BY <1>4, <2>1 DEF Unparsed
    <3>4. \A e \in imports' : e[1] \in Unparsed' => e[1] \notin DOMAIN names'
        BY <1>4, <2>1, <3>3 DEF ProgressInv, EntriesOK
    <3>5. Intrinsics # u
        BY <1>2 DEF Intrinsics
    <3>6. QED
        BY <1>4, <2>1, <3>1, <3>2, <3>4, <3>5 DEF ProgressInv, EntriesOK
  <2>13. QED
      BY <2>11, <2>12 DEF ProgressInv
<1>5. QED
    BY <1>1, <1>3, <1>4

-----------------------------------------------------------------------------

LEMMA ParseProgress ==
    ASSUME TypeInv, ProgressInv, Parse
    PROVE  ProgressInv'
<1>1. /\ loads # << >> /\ Top.phase = "parse" /\ GoTo("structure")
      /\ exprs' = Extend(exprs, Top.unit, Top.source)
      /\ imports' = imports \cup ({Top.unit} \X Top.imports)
      /\ UNCHANGED <<uids, names, code, nodes, types, mappings, codegenMapping,
                     polyParents, interpImports>>
    BY DEF Parse, At, hostVars
<1>2. /\ Top \in Frames /\ FrameOK(Top) /\ loads \in Seq(Frames)
      /\ Top.unit \in Nat \ {0} /\ Top.unit \in DOMAIN names
      /\ DOMAIN names \subseteq 0 .. uids /\ uids \in Nat
    BY <1>1, TopLemmas DEF ProgressInv
<1>3. /\ SetTop([Top EXCEPT !.phase = "structure"])
      /\ [Top EXCEPT !.phase = "structure"].unit = Top.unit
      /\ Top'.unit = Top.unit /\ Top'.imports = Top.imports
      /\ Top'.new = Top.new /\ Top'.phase = "structure"
    BY <1>1, <1>2, GoToEffect DEF Phases
<1>4. DOMAIN exprs' = DOMAIN exprs \cup {Top.unit}
    BY <1>1 DEF Extend
<1>5. FrameOK(Top)'
    BY <1>1, <1>2, <1>3, <1>4 DEF FrameOK, Checked
<1>6. Grows
    BY <1>1, <1>4 DEF Grows
<1>7. LoadsOK'
    BY <1>1, <1>3, <1>5, <1>6, StepKeepsLoads DEF ProgressInv
<1>8. EntriesOK'
  <2>1. Top.imports \subseteq 0 .. uids
      BY <1>1, <1>2 DEF FrameOK, ProgressInv, EntriesOK
  <2>2. imports' \subseteq (1 .. uids) \X (0 .. uids)
      BY <1>1, <1>2, <2>1 DEF ProgressInv, EntriesOK
  <2>3. Unparsed' = Unparsed \ {Top.unit}
      BY <1>1, <1>4 DEF Unparsed
  <2>4. \A e \in imports' : e[1] \in Unparsed' => e[1] \notin DOMAIN names'
      BY <1>1, <2>3 DEF ProgressInv, EntriesOK
  <2>5. QED
      BY <1>1, <1>2, <1>4, <2>2, <2>4 DEF ProgressInv, EntriesOK, Intrinsics
<1>9. QED
    BY <1>7, <1>8 DEF ProgressInv

LEMMA ParseErrorProgress ==
    ASSUME TypeInv, ProgressInv, ParseError
    PROVE  ProgressInv'
<1>1. loads # << >> /\ Return /\ UNCHANGED <<storeVars, interpImports>>
    BY DEF ParseError, At, hostVars
<1>2. Grows
    BY <1>1 DEF Grows, storeVars
<1>3. LoadsOK'
    BY <1>1, <1>2, ReturnKeepsLoads DEF ProgressInv
<1>4. EntriesOK'
    BY <1>1 DEF storeVars, ProgressInv, EntriesOK, Unparsed
<1>5. QED
    BY <1>3, <1>4 DEF ProgressInv

LEMMA StructureProgress ==
    ASSUME TypeInv, ProgressInv, Structure
    PROVE  ProgressInv'
<1>1. /\ loads # << >> /\ Top.phase = "structure" /\ GoTo("typecheck")
      /\ nodes' = nodes \cup {Top.unit}
      /\ UNCHANGED <<uids, names, code, imports, exprs, types, mappings, codegenMapping,
                     polyParents, interpImports>>
    BY DEF Structure, At, hostVars
<1>2. Top \in Frames /\ FrameOK(Top) /\ loads \in Seq(Frames) /\ Top.unit \in DOMAIN names
    BY <1>1, TopLemmas DEF ProgressInv
<1>3. /\ SetTop([Top EXCEPT !.phase = "typecheck"])
      /\ [Top EXCEPT !.phase = "typecheck"].unit = Top.unit
      /\ Top'.unit = Top.unit /\ Top'.imports = Top.imports
      /\ Top'.new = Top.new /\ Top'.phase = "typecheck"
    BY <1>1, <1>2, GoToEffect DEF Phases
<1>4. FrameOK(Top)'
    BY <1>1, <1>2, <1>3 DEF FrameOK, Checked
<1>5. Grows
    BY <1>1 DEF Grows
<1>6. LoadsOK'
    BY <1>1, <1>3, <1>4, <1>5, StepKeepsLoads DEF ProgressInv
<1>7. EntriesOK'
    BY <1>1, <1>2 DEF ProgressInv, EntriesOK, Unparsed
<1>8. QED
    BY <1>6, <1>7 DEF ProgressInv

\* StageError and Execute.
LEMMA GoToProgress ==
    ASSUME TypeInv, ProgressInv, StageError \/ Execute
    PROVE  ProgressInv'
<1>1. /\ loads # << >> /\ UNCHANGED <<storeVars, interpImports>>
      /\ \/ Top.phase # "run" /\ GoTo("failed")
         \/ Top.phase = "generate" /\ Top.groups = {} /\ GoTo("run")
    BY DEF StageError, Execute, At, hostVars
<1>2. Top \in Frames /\ FrameOK(Top) /\ loads \in Seq(Frames)
    BY <1>1, TopLemmas DEF ProgressInv
<1>3. PICK phase \in {"failed", "run"} :
        /\ GoTo(phase) /\ phase \in Phases
        /\ phase = "failed" => Top.phase # "run"
        /\ phase = "run" => Top.phase = "generate" /\ Top.groups = {}
  <2>1. "failed" # "run" /\ "failed" \in Phases /\ "run" \in Phases
      BY DEF Phases
  <2>2. CASE GoTo("failed") /\ Top.phase # "run"
      BY <2>1, <2>2
  <2>3. CASE GoTo("run") /\ Top.phase = "generate" /\ Top.groups = {}
      BY <2>1, <2>3
  <2>4. QED
      BY <1>1, <2>2, <2>3
<1>4. /\ SetTop([Top EXCEPT !.phase = phase])
      /\ [Top EXCEPT !.phase = phase].unit = Top.unit
      /\ Top'.unit = Top.unit /\ Top'.imports = Top.imports
      /\ Top'.new = Top.new /\ Top'.phase = phase
    BY <1>1, <1>2, <1>3, GoToEffect
<1>5. Grows
    BY <1>1 DEF Grows, storeVars
<1>6. FrameOK(Top)'
  <2>1. CASE phase = "failed"
      BY <1>1, <1>2, <1>3, <1>4, <2>1 DEF FrameOK, Checked, storeVars
  <2>2. CASE phase = "run"
    <3>1. Top.phase = "generate" /\ UNION Top.groups = {}
        BY <1>3, <2>2
    <3>2. Elements(Top.new) \subseteq DOMAIN codegenMapping
      <4>1. Elements(Top.new) \subseteq (UNION Top.groups) \cup DOMAIN codegenMapping
          BY <1>2, <3>1, Zenon DEF FrameOK
      <4>2. QED
          BY <3>1, <4>1
    <3>3. Top'.phase = "run" /\ UNCHANGED <<names, code, exprs, nodes, types, mappings,
                                             polyParents, codegenMapping>>
        BY <1>1, <1>4, <2>2 DEF storeVars
    <3>4. QED
        BY <1>2, <1>4, <3>1, <3>2, <3>3 DEF FrameOK, Checked
  <2>3. QED
      BY <2>1, <2>2
<1>7. LoadsOK'
    BY <1>1, <1>4, <1>5, <1>6, StepKeepsLoads DEF ProgressInv
<1>8. EntriesOK'
    BY <1>1 DEF storeVars, ProgressInv, EntriesOK, Unparsed
<1>9. QED
    BY <1>7, <1>8 DEF ProgressInv

\* The references of the module being typechecked, and its mapping.
ModuleReferences ==
    UNION {{<<use[1], t>> : t \in FindTypeDef(use[2], Top.unit, ModuleInfo(Top.source).structs,
                                             Top.imports)} :
              use \in Program[Top.source].uses}

ModuleMapping ==
    MappingOf(ModuleReferences, Extend(types, Top.unit, ModuleInfo(Top.source)),
              Top.imports \cup {Top.unit}, Top.imports \ {Intrinsics})

\* What typechecking a module comes to.
LEMMA TypecheckEffect ==
    ASSUME TypeInv, TypecheckModule
    PROVE  /\ loads # << >> /\ Top.phase = "typecheck"
           /\ \/ Panic("import gone") /\ ImportGone(Top.imports)
              \/ /\ types' = Extend(types, Top.unit, ModuleInfo(Top.source))
                 /\ Top'.unit = Top.unit /\ Top'.imports = Top.imports /\ Top'.new = Top.new
                 /\ \/ Top'.phase = "failed" /\ UNCHANGED mappings
                    \/ /\ Top'.phase = "instances" /\ Top'.queue = <<Top.unit>>
                       /\ mappings' = Extend(mappings, Top.unit, ModuleMapping)
                       /\ Top'.refs = ModuleMapping.poly
                 /\ \E frame : SetTop(frame) /\ frame.unit = Top.unit
                 /\ UNCHANGED <<uids, names, code, exprs, nodes, vals, imports,
                                codegenMapping, llvmUnits, polyInstances, polyParents,
                                interpImports, panic>>
<1> DEFINE u     == Top.unit
           info  == ModuleInfo(Top.source)
           table == Extend(types, u, info)
           scope == Top.imports \cup {u}
           uses  == Program[Top.source].uses
           at(n) == FindTypeDef(n, u, info.structs, Top.imports)
           refs  == UNION {{<<use[1], t>> : t \in at(use[2])} : use \in uses}
           mapping == MappingOf(refs, table, scope, Top.imports \ {Intrinsics})
           done  == [Top EXCEPT !.phase = "instances", !.queue = <<u>>,
                                !.refs = mapping.poly]
           failed == [Top EXCEPT !.phase = "failed"]
<1>0. mapping = ModuleMapping
    BY DEF ModuleMapping, ModuleReferences
<1>1. loads # << >> /\ Top.phase = "typecheck"
    BY DEF TypecheckModule, At
<1>2. loads \in Seq(Frames) /\ Top \in Frames
    BY <1>1, StageLemma
<1>3. \/ Panic("import gone") /\ ImportGone(Top.imports)
      \/ /\ types' = table
         /\ \/ SetTop(failed) /\ UNCHANGED mappings
            \/ SetTop(done) /\ mappings' = Extend(mappings, u, mapping)
         /\ UNCHANGED <<sourceVars, imports, codegenMapping, llvmUnits,
                        polyInstances, polyParents, hostVars, sccVars>>
    BY DEF TypecheckModule, GoTo
<1>4. /\ failed.phase = "failed" /\ failed.unit = u /\ failed.new = Top.new
      /\ failed.imports = Top.imports
    BY <1>2 DEF Frames
<1>5. /\ done.phase = "instances" /\ done.queue = <<u>> /\ done.unit = u /\ done.new = Top.new
      /\ done.imports = Top.imports /\ done.refs = mapping.poly
    BY <1>2 DEF Frames
<1>6. CASE Panic("import gone") /\ ImportGone(Top.imports)
    BY <1>1, <1>6
<1>7. CASE /\ types' = table
           /\ SetTop(failed) /\ UNCHANGED mappings
           /\ UNCHANGED <<sourceVars, imports, codegenMapping, llvmUnits,
                          polyInstances, polyParents, hostVars, sccVars>>
  <2> HIDE DEF failed
  <2>1. Top' = failed
      BY <1>1, <1>2, <1>7, SetTopEffect
  <2>2. QED
      BY <1>1, <1>4, <1>7, <2>1 DEF sourceVars, hostVars
<1>8. CASE /\ types' = table
           /\ SetTop(done) /\ mappings' = Extend(mappings, u, mapping)
           /\ UNCHANGED <<sourceVars, imports, codegenMapping, llvmUnits,
                          polyInstances, polyParents, hostVars, sccVars>>
  <2> HIDE DEF done, mapping
  <2>1. Top' = done
      BY <1>1, <1>2, <1>8, SetTopEffect
  <2>2. QED
      BY <1>0, <1>1, <1>5, <1>8, <2>1 DEF sourceVars, hostVars
<1>9. QED
    BY <1>3, <1>6, <1>7, <1>8

LEMMA TypecheckModuleProgress ==
    ASSUME TypeInv, ProgressInv, TypecheckModule
    PROVE  ProgressInv'
<1>1. loads # << >> /\ Top.phase = "typecheck"
    BY TypecheckEffect
<1>2. /\ Top \in Frames /\ FrameOK(Top) /\ loads \in Seq(Frames)
      /\ Top.unit \in Nat \ {0} /\ Top.unit \in DOMAIN names /\ Top.unit \in Elements(Top.new)
      /\ Top.new \in Seq(Nat)
    BY <1>1, TopLemmas DEF ProgressInv, Frames
<1>3. CASE Panic("import gone")
    BY <1>3, StutterKeepsProgress DEF Panic
<1>4. CASE /\ types' = Extend(types, Top.unit, ModuleInfo(Top.source))
           /\ Top'.unit = Top.unit /\ Top'.imports = Top.imports /\ Top'.new = Top.new
           /\ \/ Top'.phase = "failed" /\ UNCHANGED mappings
              \/ /\ Top'.phase = "instances" /\ Top'.queue = <<Top.unit>>
                 /\ \E m : mappings' = Extend(mappings, Top.unit, m) /\ Top'.refs = m.poly
           /\ \E frame : SetTop(frame) /\ frame.unit = Top.unit
           /\ UNCHANGED <<uids, names, code, exprs, nodes, vals, imports,
                          codegenMapping, llvmUnits, polyInstances, polyParents,
                          interpImports, panic>>
  <2>1. DOMAIN types' = DOMAIN types \cup {Top.unit}
      BY <1>4 DEF Extend
  <2>2. \/ Top'.phase = "failed" /\ UNCHANGED mappings
        \/ /\ Top'.phase = "instances" /\ Top'.queue = <<Top.unit>>
           /\ DOMAIN mappings' = DOMAIN mappings \cup {Top.unit}
      BY <1>4 DEF Extend
  <2>3. Elements(Top.new) = {Top.unit} /\ Elements(<<Top.unit>>) = {Top.unit}
    <3>1. Len(Top.new) = 1 /\ Top.new[1] = Top.unit
        BY <1>1, <1>2 DEF FrameOK
    <3>2. QED
        BY <1>2, <3>1 DEF Elements, Image
  <2>4. FrameOK(Top)'
    <3>1. CASE Top'.phase = "failed"
        BY <1>1, <1>2, <1>4, <2>1, <3>1 DEF FrameOK, Checked
    <3>2. CASE Top'.phase = "instances"
        BY <1>1, <1>2, <1>4, <2>1, <2>2, <2>3, <3>2 DEF FrameOK, Checked
    <3>3. QED
        BY <2>2, <3>1, <3>2
  <2>5. Grows
      BY <1>4, <2>1, <2>2 DEF Grows
  <2>6. LoadsOK'
      BY <1>1, <1>4, <2>4, <2>5, StepKeepsLoads DEF ProgressInv
  <2>7. EntriesOK'
    <3>1. types'[Intrinsics] = types[Intrinsics] /\ Top.unit \in DOMAIN exprs
        BY <1>1, <1>2, <1>4 DEF Extend, Intrinsics, ProgressInv, EntriesOK, FrameOK
    <3>2. Unparsed' = Unparsed
        BY <1>4 DEF Unparsed
    <3>3. DOMAIN mappings' \subseteq DOMAIN names
        BY <1>2, <2>2 DEF ProgressInv, EntriesOK
    <3>4. QED
        BY <1>2, <1>4, <2>1, <3>1, <3>2, <3>3 DEF ProgressInv, EntriesOK
  <2>8. QED
      BY <2>6, <2>7 DEF ProgressInv
<1>5. QED
    BY <1>3, <1>4, TypecheckEffect

-----------------------------------------------------------------------------

LEMMA ReuseEffect ==
    ASSUME TypeInv, ReuseInstance
    PROVE  /\ loads # << >> /\ Top.phase = "instances" /\ loads \in Seq(Frames)
           /\ \E ref \in Top.refs :
                 /\ ref \in References /\ ref \in DOMAIN polyInstances
                 /\ imports' = imports \cup {<<Top.queue[1], polyInstances[ref]>>}
                 /\ Top'.unit = Top.unit /\ Top'.imports = Top.imports /\ Top'.new = Top.new
                 /\ Top'.phase = "instances" /\ Top'.queue = Top.queue
                 /\ Top'.refs = Top.refs \ {ref}
           /\ \E frame : SetTop(frame) /\ frame.unit = Top.unit
           /\ UNCHANGED <<uids, names, code, exprs, nodes, vals, types, mappings,
                          codegenMapping, llvmUnits, polyInstances, polyParents,
                          interpImports, panic>>
<1>1. loads # << >> /\ Top.phase = "instances"
    BY DEF ReuseInstance, At
<1>2. loads \in Seq(Frames) /\ Top \in Frames /\ Top.refs \subseteq References
      /\ Top.queue \in Seq(Nat) /\ Top.queue # << >>
    BY <1>1, StageLemma DEF FramesOK
<1>3. PICK ref \in Top.refs :
        /\ HasInstance(ref[1], ref[2])
        /\ imports' = imports \cup {<<Head(Top.queue), polyInstances[ref]>>}
        /\ SetTop([Top EXCEPT !.refs = @ \ {ref}])
    BY DEF ReuseInstance
<1> DEFINE frame == [Top EXCEPT !.refs = @ \ {ref}]
<1>4. /\ frame.unit = Top.unit /\ frame.imports = Top.imports /\ frame.new = Top.new
      /\ frame.phase = "instances" /\ frame.queue = Top.queue /\ frame.refs = Top.refs \ {ref}
    BY <1>1, <1>2 DEF Frames
<1>5. SetTop(frame)
    BY <1>3
<1> HIDE DEF frame
<1>6. Top' = frame
    BY <1>1, <1>2, <1>5, SetTopEffect
<1>7. ref \in References /\ ref \in DOMAIN polyInstances
    BY <1>2, <1>3, ReferenceLemma DEF HasInstance
<1>8. Head(Top.queue) = Top.queue[1]
    BY <1>2, TailLemma
<1>9. UNCHANGED <<uids, names, code, exprs, nodes, vals, types, mappings,
                  codegenMapping, llvmUnits, polyInstances, polyParents,
                  interpImports, panic>>
    BY DEF ReuseInstance, sourceVars, hostVars
<1>10. \E fr : SetTop(fr) /\ fr.unit = Top.unit
    BY <1>4, <1>5
<1>11. QED
    BY <1>1, <1>2, <1>3, <1>4, <1>6, <1>7, <1>8, <1>9, <1>10

LEMMA ReuseInstanceProgress ==
    ASSUME TypeInv, PolyInv, ProgressInv, ReuseInstance
    PROVE  ProgressInv'
<1>1. /\ loads # << >> /\ Top.phase = "instances"
      /\ \E frame : SetTop(frame) /\ frame.unit = Top.unit
      /\ UNCHANGED <<uids, names, code, exprs, nodes, vals, types, mappings,
                     codegenMapping, llvmUnits, polyInstances, polyParents,
                     interpImports, panic>>
    BY ReuseEffect
<1>2. PICK ref \in Top.refs :
        /\ ref \in References /\ ref \in DOMAIN polyInstances
        /\ imports' = imports \cup {<<Top.queue[1], polyInstances[ref]>>}
        /\ Top'.unit = Top.unit /\ Top'.imports = Top.imports /\ Top'.new = Top.new
        /\ Top'.phase = "instances" /\ Top'.queue = Top.queue
    BY ReuseEffect
<1>3. /\ FrameOK(Top) /\ Elements(Top.new) \subseteq Nat \ {0}
      /\ Elements(Top.new) \subseteq DOMAIN names
      /\ DOMAIN names \subseteq 0 .. uids /\ uids \in Nat
      /\ Top.queue \in Seq(Nat) /\ Top.queue # << >>
    BY <1>1, TopLemmas, StageLemma DEF ProgressInv, FramesOK
<1>4. Top.queue[1] \in Elements(Top.new)
    BY <1>1, <1>3, ElementsLemma DEF FrameOK
<1>5. polyInstances[ref] \in DOMAIN types
    BY <1>2 DEF PolyInv, PolyTablesAgree
<1>6. FrameOK(Top)'
    BY <1>1, <1>2, <1>3 DEF FrameOK, Checked
<1>7. Grows
    BY <1>1 DEF Grows
<1>8. LoadsOK'
    BY <1>1, <1>6, <1>7, StepKeepsLoads DEF ProgressInv
<1>9. EntriesOK'
  <2>1. imports' \subseteq (1 .. uids) \X (0 .. uids)
      BY <1>2, <1>3, <1>4, <1>5 DEF ProgressInv, EntriesOK
  <2>2. Unparsed' = Unparsed /\ Top.queue[1] \notin Unparsed
      BY <1>1, <1>3, <1>4 DEF Unparsed, ProgressInv, EntriesOK, FrameOK, Checked
  <2>3. \A e \in imports' : e[1] \in Unparsed' => e[1] \notin DOMAIN names'
      BY <1>1, <1>2, <2>2 DEF ProgressInv, EntriesOK
  <2>4. QED
      BY <1>1, <2>1, <2>3 DEF ProgressInv, EntriesOK
<1>10. QED
    BY <1>8, <1>9 DEF ProgressInv

LEMMA NextEffect ==
    ASSUME TypeInv, NextInQueue
    PROVE  /\ loads # << >> /\ Top.phase = "instances" /\ loads \in Seq(Frames)
           /\ Top.refs = {} /\ Top.queue \in Seq(Nat) /\ Len(Top.queue) > 1
           /\ Top'.unit = Top.unit /\ Top'.imports = Top.imports /\ Top'.new = Top.new
           /\ Top'.phase = "instances" /\ Top'.queue = Tail(Top.queue)
           /\ Top'.refs = mappings[Top.queue[2]].poly
           /\ \E frame : SetTop(frame) /\ frame.unit = Top.unit
           /\ UNCHANGED <<storeVars, interpImports, panic>>
<1>1. /\ loads # << >> /\ Top.phase = "instances" /\ Top.refs = {} /\ Len(Top.queue) > 1
      /\ UNCHANGED <<storeVars, interpImports, panic>>
    BY DEF NextInQueue, At, hostVars
<1>2. loads \in Seq(Frames) /\ Top \in Frames /\ Top.queue \in Seq(Nat)
    BY <1>1, StageLemma
<1> DEFINE frame == [Top EXCEPT !.queue = Tail(@), !.refs = mappings[Top.queue[2]].poly]
<1>3. /\ frame.unit = Top.unit /\ frame.imports = Top.imports /\ frame.new = Top.new
      /\ frame.phase = "instances" /\ frame.queue = Tail(Top.queue)
      /\ frame.refs = mappings[Top.queue[2]].poly
    BY <1>1, <1>2 DEF Frames
<1>4. SetTop(frame)
    BY DEF NextInQueue
<1> HIDE DEF frame
<1>5. Top' = frame
    BY <1>1, <1>2, <1>4, SetTopEffect
<1>6. \E fr : SetTop(fr) /\ fr.unit = Top.unit
    BY <1>3, <1>4
<1>7. QED
    BY <1>1, <1>2, <1>3, <1>5, <1>6

LEMMA NextInQueueProgress ==
    ASSUME TypeInv, ProgressInv, NextInQueue
    PROVE  ProgressInv'
<1>1. /\ loads # << >> /\ Top.phase = "instances" /\ Top.queue \in Seq(Nat)
      /\ Len(Top.queue) > 1
      /\ Top'.unit = Top.unit /\ Top'.imports = Top.imports /\ Top'.new = Top.new
      /\ Top'.phase = "instances" /\ Top'.queue = Tail(Top.queue)
      /\ \E frame : SetTop(frame) /\ frame.unit = Top.unit
      /\ UNCHANGED <<storeVars, interpImports>>
    BY NextEffect
<1>2. FrameOK(Top)
    BY <1>1, TopLemmas DEF ProgressInv
<1>3. Top.queue # << >>
    BY <1>1
<1>4. Elements(Tail(Top.queue)) \subseteq Elements(Top.queue)
    BY <1>1, <1>3, ElementsLemma
<1>5. FrameOK(Top)'
    BY <1>1, <1>2, <1>4 DEF FrameOK, Checked, storeVars
<1>6. Grows
    BY <1>1 DEF Grows, storeVars
<1>7. LoadsOK'
    BY <1>1, <1>5, <1>6, StepKeepsLoads DEF ProgressInv
<1>8. EntriesOK'
    BY <1>1 DEF storeVars, ProgressInv, EntriesOK, Unparsed
<1>9. QED
    BY <1>7, <1>8 DEF ProgressInv

-----------------------------------------------------------------------------

\* The mapping of the instance v made for ref.
InstanceMapping(ref, v) ==
    MappingOf({<<g, ref[2]>> : g \in Calls[ref[1][2]]},
              Extend(types, v, InstanceInfo(ref[1][2], ref[2])),
              InstanceDependencies(ref) \cup {v}, {ref[1][1]})

\* A new unit v for the reference, whether or not its body passes inference.
InstanceBegun(ref, v) ==
    /\ uids' = v /\ DOMAIN names' = DOMAIN names \cup {v}
    /\ ref \notin DOMAIN polyInstances
    /\ InstanceDependencies(ref) \subseteq DOMAIN types
    /\ types' = Extend(types, v, InstanceInfo(ref[1][2], ref[2]))
    /\ Top'.unit = Top.unit /\ Top'.imports = Top.imports /\ Top'.new = Append(Top.new, v)
    /\ \E frame : SetTop(frame) /\ frame.unit = Top.unit
    /\ UNCHANGED <<code, exprs, nodes, vals, codegenMapping, llvmUnits, interpImports, panic>>

InstanceFailed(ref, v) ==
    /\ imports' = imports \cup ({v} \X InstanceDependencies(ref))
    /\ Top'.phase = "failed"
    /\ UNCHANGED <<mappings, polyInstances, polyParents>>

InstanceMade(ref, v) ==
    /\ imports' = imports \cup ({v} \X InstanceDependencies(ref)) \cup {<<Top.queue[1], v>>}
    /\ Top'.phase = "instances" /\ Top'.queue = Append(Top.queue, v)
    /\ Top'.refs = Top.refs \ {ref}
    /\ mappings' = Extend(mappings, v, InstanceMapping(ref, v))
    /\ polyInstances' = Extend(polyInstances, ref, v)
    /\ polyParents' = Extend(polyParents, v, ref[1])

LEMMA MakeEffect ==
    ASSUME TypeInv, MakeInstance
    PROVE  /\ loads # << >> /\ Top.phase = "instances" /\ loads \in Seq(Frames)
           /\ \E ref \in Top.refs :
                 /\ ref \in References
                 /\ \/ Panic("tried to load two modules called")
                    \/ ImportGone(InstanceDependencies(ref)) /\ Panic("import gone")
                    \/ /\ InstanceBegun(ref, uids + 1)
                       /\ InstanceFailed(ref, uids + 1) \/ InstanceMade(ref, uids + 1)
<1>1. loads # << >> /\ Top.phase = "instances"
    BY DEF MakeInstance, At
<1>2. /\ loads \in Seq(Frames) /\ Top \in Frames /\ Top.refs \subseteq References
      /\ Top.queue \in Seq(Nat) /\ Top.queue # << >> /\ Top.new \in Seq(Nat)
    BY <1>1, StageLemma DEF FramesOK
<1> DEFINE v == uids + 1
           failed == [Top EXCEPT !.new = Append(@, v), !.phase = "failed"]
           made(ref) == [Top EXCEPT !.new = Append(@, v), !.queue = Append(@, v),
                                    !.refs = @ \ {ref}]
<1>3. PICK ref \in Top.refs :
        /\ ~HasInstance(ref[1], ref[2])
        /\ \/ Panic("tried to load two modules called")
           \/ ImportGone(InstanceDependencies(ref)) /\ Panic("import gone")
           \/ /\ CreateUnit(v, PolyUnitName(ref))
              /\ ~ImportGone(InstanceDependencies(ref))
              /\ types' = Extend(types, v, InstanceInfo(ref[1][2], ref[2]))
              /\ \/ /\ imports' = imports \cup ({v} \X InstanceDependencies(ref))
                    /\ SetTop(failed)
                    /\ UNCHANGED <<mappings, polyInstances, polyParents>>
                 \/ /\ mappings' = Extend(mappings, v, InstanceMapping(ref, v))
                    /\ RegisterInstance(ref[1], ref[2], v)
                    /\ imports' = imports \cup ({v} \X InstanceDependencies(ref))
                                          \cup {<<Head(Top.queue), v>>}
                    /\ SetTop(made(ref))
              /\ UNCHANGED <<code, exprs, nodes, vals, codegenMapping, llvmUnits,
                             hostVars, sccVars>>
    BY DEF MakeInstance, InstanceMapping
<1>4. ref \in References /\ ref = <<ref[1], ref[2]>>
    BY <1>2, ReferenceLemma
<1>5. CASE Panic("tried to load two modules called")
    BY <1>1, <1>2, <1>4, <1>5
<1>6. CASE ImportGone(InstanceDependencies(ref)) /\ Panic("import gone")
    BY <1>1, <1>2, <1>4, <1>6
<1>7. CASE /\ CreateUnit(v, PolyUnitName(ref))
           /\ ~ImportGone(InstanceDependencies(ref))
           /\ types' = Extend(types, v, InstanceInfo(ref[1][2], ref[2]))
           /\ \/ /\ imports' = imports \cup ({v} \X InstanceDependencies(ref))
                 /\ SetTop(failed)
                 /\ UNCHANGED <<mappings, polyInstances, polyParents>>
              \/ /\ mappings' = Extend(mappings, v, InstanceMapping(ref, v))
                 /\ RegisterInstance(ref[1], ref[2], v)
                 /\ imports' = imports \cup ({v} \X InstanceDependencies(ref))
                                       \cup {<<Head(Top.queue), v>>}
                 /\ SetTop(made(ref))
           /\ UNCHANGED <<code, exprs, nodes, vals, codegenMapping, llvmUnits,
                          hostVars, sccVars>>
  <2>1. uids' = v /\ DOMAIN names' = DOMAIN names \cup {v}
      BY <1>7 DEF CreateUnit, Extend
  <2>2. ref \notin DOMAIN polyInstances /\ InstanceDependencies(ref) \subseteq DOMAIN types
      BY <1>3, <1>4, <1>7 DEF HasInstance, ImportGone
  <2>3. UNCHANGED <<code, exprs, nodes, vals, codegenMapping, llvmUnits, interpImports, panic>>
      BY <1>7 DEF hostVars
  <2>4. /\ failed.phase = "failed" /\ failed.unit = Top.unit /\ failed.imports = Top.imports
        /\ failed.new = Append(Top.new, v)
      BY <1>2 DEF Frames
  <2>5. /\ made(ref).phase = "instances" /\ made(ref).unit = Top.unit
        /\ made(ref).imports = Top.imports /\ made(ref).new = Append(Top.new, v)
        /\ made(ref).queue = Append(Top.queue, v) /\ made(ref).refs = Top.refs \ {ref}
      BY <1>1, <1>2 DEF Frames
  <2>6. Head(Top.queue) = Top.queue[1]
      BY <1>2, TailLemma
  <2> HIDE DEF failed, made, v
  <2>7. CASE /\ imports' = imports \cup ({v} \X InstanceDependencies(ref))
             /\ SetTop(failed)
             /\ UNCHANGED <<mappings, polyInstances, polyParents>>
    <3>1. Top' = failed
        BY <1>1, <1>2, <2>7, SetTopEffect
    <3>2. InstanceBegun(ref, v) /\ InstanceFailed(ref, v)
        BY <1>7, <2>1, <2>2, <2>3, <2>4, <2>7, <3>1 DEF InstanceBegun, InstanceFailed
    <3>3. QED
        BY <1>1, <1>2, <1>4, <3>2 DEF v
  <2>8. CASE /\ mappings' = Extend(mappings, v, InstanceMapping(ref, v))
             /\ RegisterInstance(ref[1], ref[2], v)
             /\ imports' = imports \cup ({v} \X InstanceDependencies(ref))
                                   \cup {<<Head(Top.queue), v>>}
             /\ SetTop(made(ref))
    <3>1. Top' = made(ref)
        BY <1>1, <1>2, <2>8, SetTopEffect
    <3>2. InstanceBegun(ref, v)
        BY <1>7, <2>1, <2>2, <2>3, <2>5, <2>8, <3>1 DEF InstanceBegun
    <3>3. polyInstances' = Extend(polyInstances, ref, v) /\ polyParents' = Extend(polyParents, v, ref[1])
        BY <1>4, <2>8 DEF RegisterInstance
    <3>4. InstanceMade(ref, v)
        BY <2>5, <2>6, <2>8, <3>1, <3>3 DEF InstanceMade
    <3>5. QED
        BY <1>1, <1>2, <1>4, <3>2, <3>4 DEF v
  <2>9. QED
      BY <1>7, <2>7, <2>8
<1>8. QED
    BY <1>3, <1>5, <1>6, <1>7

LEMMA MakeInstanceProgress ==
    ASSUME TypeInv, ProgressInv, MakeInstance
    PROVE  ProgressInv'
<1>1. loads # << >> /\ Top.phase = "instances" /\ loads \in Seq(Frames)
    BY MakeEffect
<1>2. PICK ref \in Top.refs :
        \/ Panic("tried to load two modules called") \/ Panic("import gone")
        \/ /\ InstanceBegun(ref, uids + 1)
           /\ InstanceFailed(ref, uids + 1) \/ InstanceMade(ref, uids + 1)
    BY MakeEffect
<1>3. CASE Panic("tried to load two modules called") \/ Panic("import gone")
    BY <1>3, StutterKeepsProgress DEF Panic
<1>4. CASE /\ InstanceBegun(ref, uids + 1)
           /\ InstanceFailed(ref, uids + 1) \/ InstanceMade(ref, uids + 1)
  <2> DEFINE v == uids + 1
  <2>1. /\ FrameOK(Top) /\ Elements(Top.new) \subseteq Nat \ {0}
        /\ Elements(Top.new) \subseteq DOMAIN names
        /\ DOMAIN names \subseteq 0 .. uids /\ uids \in Nat /\ Top.new \in Seq(Nat)
        /\ Top.queue \in Seq(Nat) /\ Top.queue # << >>
      BY <1>1, TopLemmas, StageLemma DEF ProgressInv, FramesOK
  <2>2. v \in Nat /\ v # 0 /\ v \notin 0 .. uids /\ v \notin DOMAIN names
      BY <2>1
  <2>3. DOMAIN types' = DOMAIN types \cup {v} /\ types'[Intrinsics] = types[Intrinsics]
      BY <1>4, <2>2 DEF InstanceBegun, Extend, ProgressInv, EntriesOK, Intrinsics
  <2>4. \/ Top'.phase = "failed" /\ UNCHANGED <<mappings, polyParents>>
        \/ /\ Top'.phase = "instances" /\ Top'.queue = Append(Top.queue, v)
           /\ DOMAIN mappings' = DOMAIN mappings \cup {v}
           /\ DOMAIN polyParents' = DOMAIN polyParents \cup {v}
      BY <1>4 DEF InstanceFailed, InstanceMade, Extend
  <2>5. /\ uids' = v /\ DOMAIN names' = DOMAIN names \cup {v}
        /\ Top'.unit = Top.unit /\ Top'.imports = Top.imports /\ Top'.new = Append(Top.new, v)
        /\ \E frame : SetTop(frame) /\ frame.unit = Top.unit
        /\ UNCHANGED <<code, exprs, nodes, codegenMapping, interpImports>>
        /\ InstanceDependencies(ref) \subseteq DOMAIN types
      BY <1>4 DEF InstanceBegun
  <2>6. /\ imports \subseteq imports'
        /\ imports' \subseteq imports \cup ({v} \X InstanceDependencies(ref))
                              \cup {<<Top.queue[1], v>>}
      BY <1>4 DEF InstanceFailed, InstanceMade
  <2>7. Top.queue[1] \in Elements(Top.new)
      BY <1>1, <2>1, ElementsLemma DEF FrameOK
  <2> DEFINE new == Append(Top.new, v)
  <2>8. /\ Elements(new) = Elements(Top.new) \cup {v}
        /\ new # << >> /\ new[1] = Top.new[1]
        /\ \A i, j \in 1 .. Len(new) : i < j => new[i] < new[j]
    <3>1. /\ new \in Seq(Nat) /\ new # << >> /\ Len(new) = Len(Top.new) + 1 /\ Len(Top.new) \in Nat
          /\ \A i \in 1 .. Len(Top.new) : new[i] = Top.new[i]
          /\ new[Len(Top.new) + 1] = v
      <4>1. Top.new \in Seq(Nat) /\ v \in Nat
          BY <2>1, <2>2
      <4>2. QED
          BY <4>1, PushLemma
    <3>2. Elements(new) = Elements(Top.new) \cup {v}
        BY <2>1, <2>2, ElementsLemma
    <3>3. 1 \in 1 .. Len(Top.new)
        BY <2>1, TopLemma DEF FrameOK
    <3>4. \A i \in 1 .. Len(Top.new) : Top.new[i] \in 0 .. uids
      <4>1. \A i \in 1 .. Len(Top.new) : Top.new[i] \in Elements(Top.new)
          BY <2>1, ElementsLemma
      <4>2. QED
          BY <2>1, <4>1
    <3>5. \A i, j \in 1 .. Len(Top.new) : i < j => Top.new[i] < Top.new[j]
        BY <2>1 DEF FrameOK
    <3> HIDE DEF new
    <3>6. ASSUME NEW i \in 1 .. Len(new), NEW j \in 1 .. Len(new), i < j PROVE new[i] < new[j]
      <4> DEFINE n == Len(Top.new)
      <4>0. n \in Nat /\ i \in 1 .. n + 1 /\ j \in 1 .. n + 1
          BY <3>1
      <4> HIDE DEF n
      <4>5. i \in 1 .. n
          BY <3>6, <4>0
      <4>1. i \in 1 .. Len(Top.new) /\ new[i] \in 0 .. uids /\ new[i] = Top.new[i]
          BY <3>1, <3>4, <4>5 DEF n
      <4>2. CASE j = Len(Top.new) + 1
        <5>1. new[j] = uids + 1 /\ uids \in Nat
            BY <2>1, <3>1, <4>2
        <5>2. QED
            BY <4>1, <5>1
      <4>3. CASE j # Len(Top.new) + 1
        <5>1. j \in 1 .. n
            BY <4>0, <4>3 DEF n
        <5>2. j \in 1 .. Len(Top.new) /\ new[j] = Top.new[j]
            BY <3>1, <5>1 DEF n
        <5>3. QED
            BY <3>5, <3>6, <4>1, <5>2
      <4>4. QED
          BY <4>2, <4>3
    <3>7. QED
        BY <3>1, <3>2, <3>3, <3>6
  <2> HIDE DEF new, v
  <2>9. Top'.phase = "instances" => Elements(Top'.queue) = Elements(Top.queue) \cup {v}
      BY <2>1, <2>2, <2>4, ElementsLemma
  <2>10. FrameOK(Top)'
    <3>1. Top'.new = new
        BY <2>5 DEF new
    <3>2. CASE Top'.phase = "failed"
        BY <1>1, <2>1, <2>2, <2>3, <2>5, <2>8, <3>1, <3>2 DEF FrameOK, Checked, Intrinsics
    <3>3. CASE Top'.phase = "instances"
      <4>1. Elements(Top'.queue) \subseteq Elements(new)
          BY <1>1, <2>1, <2>8, <2>9, <3>3 DEF FrameOK
      <4>2. Elements(new) \subseteq DOMAIN types' \cap DOMAIN mappings'
          BY <1>1, <2>1, <2>3, <2>4, <2>8, <3>3 DEF FrameOK, Checked
      <4>3. Elements(new) \ {Top.unit} \subseteq DOMAIN polyParents'
          BY <1>1, <2>1, <2>4, <2>8, <3>3 DEF FrameOK, Checked
      <4>4. QED
          BY <1>1, <2>1, <2>2, <2>3, <2>5, <2>8, <3>1, <3>3, <4>1, <4>2, <4>3
          DEF FrameOK, Checked, Intrinsics
    <3>4. QED
        BY <2>4, <3>2, <3>3
  <2>11. Grows
      BY <2>3, <2>4, <2>5 DEF Grows
  <2>12. LoadsOK'
      BY <1>1, <2>5, <2>10, <2>11, StepKeepsLoads DEF ProgressInv
  <2>13. EntriesOK'
    <3>1. imports' \subseteq (1 .. v) \X (0 .. v)
      <4>1. InstanceDependencies(ref) \subseteq 0 .. uids
          BY <2>1, <2>5 DEF ProgressInv, EntriesOK
      <4>2. Top.queue[1] \in 1 .. uids
          BY <2>1, <2>7
      <4>3. (1 .. uids) \subseteq 1 .. v /\ (0 .. uids) \subseteq 0 .. v /\ v \in 1 .. v
          BY <2>1 DEF v
      <4>4. QED
          BY <2>6, <4>1, <4>2, <4>3 DEF ProgressInv, EntriesOK
    <3>2. code \subseteq 1 .. v /\ v \notin code
        BY <2>1, <2>2 DEF v, ProgressInv, EntriesOK
    <3>3. Unparsed' = Unparsed
        BY <2>5 DEF Unparsed
    <3>4. Top.queue[1] \notin Unparsed /\ v \notin Unparsed
        BY <1>1, <2>1, <2>7, <3>2 DEF Unparsed, ProgressInv, EntriesOK, FrameOK, Checked
    <3>5. \A e \in imports' : e[1] \in Unparsed' => e[1] \notin DOMAIN names'
        BY <2>5, <2>6, <3>3, <3>4 DEF ProgressInv, EntriesOK
    <3>6. DOMAIN mappings' \subseteq DOMAIN names'
        BY <2>4, <2>5 DEF ProgressInv, EntriesOK
    <3>7. QED
        BY <2>3, <2>5, <3>1, <3>2, <3>5, <3>6 DEF ProgressInv, EntriesOK
  <2>14. QED
      BY <2>12, <2>13 DEF ProgressInv
<1>5. QED
    BY <1>2, <1>3, <1>4

-----------------------------------------------------------------------------

LEMMA StartComponentsProgress ==
    ASSUME TypeInv, ProgressInv, StartComponents
    PROVE  /\ ProgressInv' /\ loads # << >> /\ Top.phase = "instances" /\ Top.refs = {}
           /\ Len(Top.queue) = 1
           /\ Top'.unit = Top.unit /\ Top'.imports = Top.imports /\ Top'.new = Top.new
           /\ Top'.phase = "components"
           /\ \E frame : SetTop(frame) /\ frame.unit = Top.unit
           /\ UNCHANGED <<storeVars, interpImports, panic>>
<1>1. /\ loads # << >> /\ Top.phase = "instances" /\ UNCHANGED <<storeVars, interpImports, panic>>
      /\ Top.refs = {} /\ Len(Top.queue) = 1
    BY DEF StartComponents, At, hostVars
<1>2. loads \in Seq(Frames) /\ Top \in Frames /\ FrameOK(Top)
    BY <1>1, TopLemmas DEF ProgressInv
<1> DEFINE frame == [Top EXCEPT !.queue = << >>, !.phase = "components"]
<1>3. /\ frame.unit = Top.unit /\ frame.imports = Top.imports /\ frame.new = Top.new
      /\ frame.phase = "components"
    BY <1>2 DEF Frames
<1>4. SetTop(frame)
    BY DEF StartComponents
<1> HIDE DEF frame
<1>5. Top' = frame
    BY <1>1, <1>2, <1>4, SetTopEffect
<1>6. FrameOK(Top)'
    BY <1>1, <1>2, <1>3, <1>5 DEF FrameOK, Checked, storeVars
<1>7. Grows
    BY <1>1 DEF Grows, storeVars
<1>8. LoadsOK'
    BY <1>1, <1>3, <1>4, <1>6, <1>7, StepKeepsLoads DEF ProgressInv
<1>9. EntriesOK'
    BY <1>1 DEF storeVars, ProgressInv, EntriesOK, Unparsed
<1>10. \E fr : SetTop(fr) /\ fr.unit = Top.unit
    BY <1>3, <1>4
<1>11. QED
    BY <1>1, <1>3, <1>5, <1>8, <1>9, <1>10 DEF ProgressInv

\* The groups are what the search has found: every new unit is in one of them.
LEMMA OrderEffect ==
    ASSUME TypeInv, LoadsOK, OrderComponents
    PROVE  /\ loads # << >> /\ Top.phase = "components" /\ loads \in Seq(Frames)
           /\ \/ Panic("graph contained cycles!")
              \/ /\ Top'.unit = Top.unit /\ Top'.imports = Top.imports /\ Top'.new = Top.new
                 /\ Top'.phase = "generate"
                 /\ UNION Top'.groups = Elements(Top.new)
                 /\ \A g, h \in Top'.groups : g # h => g \cap h = {}
                 /\ \E frame : SetTop(frame) /\ frame.unit = Top.unit
                 /\ UNCHANGED <<storeVars, interpImports, panic>>
<1>1. loads # << >> /\ Top.phase = "components" /\ Scc!TarjanDone
    BY DEF OrderComponents, At
<1>2. loads \in Seq(Frames) /\ Top \in Frames /\ FrameOK(Top) /\ Top.new \in Seq(Nat)
    BY <1>1, TopLemmas, StageLemma
<1> DEFINE groups == {UnitsOf(components[i]) : i \in DOMAIN components}
           frame  == [Top EXCEPT !.groups = groups, !.phase = "generate"]
           W      == 0 .. Len(Top.new) - 1
<1>3. \/ Panic("graph contained cycles!")
      \/ SetTop(frame) /\ UNCHANGED <<storeVars, interpImports, panic>>
    BY DEF OrderComponents, hostVars
<1>4. Search!TarjanInv /\ DOMAIN graph = W
    BY <1>1 DEF TypeInv, FramesOK
<1>5. Search!IsPartition(components, W)
  <2>1. Search!TarjanDone
      BY <1>1 DEF Scc!TarjanDone, Search!TarjanDone, Scc!Visited, Search!Visited,
                  Scc!InSeq, Search!InSeq, Scc!Vertices, Search!Vertices
  <2>2. QED
      BY <1>4, <2>1, Search!PartitionLemma DEF Search!NothingLeftBehind, Search!Vertices
<1>6. /\ UNION {components[i] : i \in DOMAIN components} = W
      /\ \A i, j \in DOMAIN components : i # j => components[i] \cap components[j] = {}
    BY <1>5 DEF Search!IsPartition
<1>7. /\ \A v \in W : v + 1 \in 1 .. Len(Top.new)
      /\ \A k \in 1 .. Len(Top.new) : k - 1 \in W /\ (k - 1) + 1 = k
    BY <1>2
<1>8. \A v, w \in W : Top.new[v + 1] = Top.new[w + 1] => v = w
  <2>1. ASSUME NEW v \in W, NEW w \in W, v # w PROVE Top.new[v + 1] # Top.new[w + 1]
    <3>1. v + 1 \in 1 .. Len(Top.new) /\ w + 1 \in 1 .. Len(Top.new)
        BY <1>7
    <3>2. Top.new[v + 1] \in Nat /\ Top.new[w + 1] \in Nat
        BY <1>2, <3>1
    <3>3. CASE v < w
      <4>1. v + 1 < w + 1
          BY <3>3
      <4>2. Top.new[v + 1] < Top.new[w + 1]
          BY <1>2, <3>1, <4>1 DEF FrameOK
      <4>3. QED
          BY <3>2, <4>2
    <3>4. CASE w < v
      <4>1. w + 1 < v + 1
          BY <3>4
      <4>2. Top.new[w + 1] < Top.new[v + 1]
          BY <1>2, <3>1, <4>1 DEF FrameOK
      <4>3. QED
          BY <3>2, <4>2
    <3>5. QED
        BY <2>1, <3>3, <3>4
  <2>2. QED
      BY <2>1
<1>9. UNION groups = Elements(Top.new)
  <2>1. Elements(Top.new) = {Top.new[k] : k \in 1 .. Len(Top.new)}
      BY <1>2, ElementsLemma
  <2>2. ASSUME NEW u \in UNION groups PROVE u \in Elements(Top.new)
    <3>1. PICK i \in DOMAIN components : u \in UnitsOf(components[i])
        OBVIOUS
    <3>2. PICK v \in components[i] : u = Top.new[v + 1]
        BY <3>1 DEF UnitsOf
    <3>3. v \in W
        BY <1>6, <3>1, <3>2
    <3>4. QED
        BY <1>7, <2>1, <3>2, <3>3
  <2>3. ASSUME NEW u \in Elements(Top.new) PROVE u \in UNION groups
    <3>1. PICK k \in 1 .. Len(Top.new) : u = Top.new[k]
        BY <2>1
    <3>2. PICK i \in DOMAIN components : k - 1 \in components[i]
      <4>1. k - 1 \in UNION {components[i] : i \in DOMAIN components}
          BY <1>6, <1>7
      <4>2. QED
          BY <4>1
    <3>3. u \in UnitsOf(components[i])
        BY <1>7, <3>1, <3>2 DEF UnitsOf
    <3>4. QED
        BY <3>2, <3>3
  <2>4. QED
      BY <2>2, <2>3
<1>10. ASSUME NEW g \in groups, NEW h \in groups, g # h PROVE g \cap h = {}
  <2>1. PICK i \in DOMAIN components : g = UnitsOf(components[i])
      OBVIOUS
  <2>2. PICK j \in DOMAIN components : h = UnitsOf(components[j])
      OBVIOUS
  <2>3. i # j
      BY <1>10, <2>1, <2>2
  <2>4. components[i] \cap components[j] = {} /\ components[i] \subseteq W /\ components[j] \subseteq W
      BY <1>6, <2>3
  <2>5. QED
      BY <1>8, <2>1, <2>2, <2>4 DEF UnitsOf
<1>11. /\ frame.unit = Top.unit /\ frame.imports = Top.imports /\ frame.new = Top.new
       /\ frame.phase = "generate" /\ frame.groups = groups
    BY <1>2 DEF Frames
<1> HIDE DEF groups, W
<1>12. CASE SetTop(frame) /\ UNCHANGED <<storeVars, interpImports, panic>>
  <2> HIDE DEF frame
  <2>1. Top' = frame
      BY <1>1, <1>2, <1>12, SetTopEffect
  <2>2. \E fr : SetTop(fr) /\ fr.unit = Top.unit
      BY <1>11, <1>12
  <2>3. QED
      BY <1>1, <1>2, <1>9, <1>10, <1>11, <1>12, <2>1, <2>2
<1>13. QED
    BY <1>1, <1>2, <1>3, <1>12

LEMMA OrderComponentsProgress ==
    ASSUME TypeInv, ProgressInv, OrderComponents
    PROVE  ProgressInv'
<1>1. loads # << >> /\ Top.phase = "components"
    BY OrderEffect DEF ProgressInv
<1>2. FrameOK(Top)
    BY <1>1, TopLemmas DEF ProgressInv
<1>3. CASE Panic("graph contained cycles!")
    BY <1>3, StutterKeepsProgress DEF Panic
<1>4. CASE ~Panic("graph contained cycles!")
  <2>1. /\ Top'.unit = Top.unit /\ Top'.imports = Top.imports /\ Top'.new = Top.new
        /\ Top'.phase = "generate"
        /\ UNION Top'.groups = Elements(Top.new)
        /\ \E frame : SetTop(frame) /\ frame.unit = Top.unit
        /\ UNCHANGED <<storeVars, interpImports, panic>>
      BY <1>4, OrderEffect DEF ProgressInv
  <2>2. Grows
      BY <2>1 DEF Grows, storeVars
  <2>3. UNCHANGED <<names, code, exprs, nodes, types, mappings, polyParents, codegenMapping>>
      BY <2>1 DEF storeVars
  <2>4. FrameOK(Top)'
      BY <1>1, <1>2, <2>1, <2>3 DEF FrameOK, Checked
  <2>5. LoadsOK'
      BY <1>1, <2>1, <2>2, <2>4, StepKeepsLoads DEF ProgressInv
  <2>6. EntriesOK'
      BY <2>1 DEF storeVars, ProgressInv, EntriesOK, Unparsed
  <2>7. QED
      BY <2>5, <2>6 DEF ProgressInv
<1>5. QED
    BY <1>3, <1>4

LEMMA GenerateEffect ==
    ASSUME TypeInv, Generate
    PROVE  /\ loads # << >> /\ Top.phase = "generate" /\ loads \in Seq(Frames)
           /\ \E group \in Top.groups :
                 /\ Ready(group)
                 /\ \/ Panic("code gone") /\ \E u \in LinkTargets(group) : ~HasLlvmUnit(u)
                    \/ /\ codegenMapping' = [u \in DOMAIN codegenMapping \cup group |->
                                      IF u \in group THEN group ELSE codegenMapping[u]]
                       /\ llvmUnits' = llvmUnits \cup {group}
                       /\ Top'.unit = Top.unit /\ Top'.imports = Top.imports
                       /\ Top'.new = Top.new /\ Top'.phase = "generate"
                       /\ Top'.groups = Top.groups \ {group}
                       /\ \E frame : SetTop(frame) /\ frame.unit = Top.unit
                       /\ UNCHANGED <<uids, names, code, exprs, nodes, vals, imports, types,
                                      mappings, polyInstances, polyParents,
                                      interpImports, panic>>
<1>1. loads # << >> /\ Top.phase = "generate"
    BY DEF Generate, At
<1>2. loads \in Seq(Frames) /\ Top \in Frames
    BY <1>1, StageLemma
<1>3. PICK group \in Top.groups :
          /\ Ready(group)
          /\ \/ Panic("code gone") /\ \E u \in LinkTargets(group) : ~HasLlvmUnit(u)
             \/ /\ codegenMapping' = [u \in DOMAIN codegenMapping \cup group |->
                                      IF u \in group THEN group ELSE codegenMapping[u]]
                /\ llvmUnits' = llvmUnits \cup {group}
                /\ SetTop([Top EXCEPT !.groups = @ \ {group}])
                /\ UNCHANGED <<sourceVars, imports, types, mappings,
                               polyInstances, polyParents, hostVars, sccVars>>
    BY DEF Generate
<1> DEFINE frame == [Top EXCEPT !.groups = @ \ {group}]
<1>4. /\ frame.unit = Top.unit /\ frame.imports = Top.imports /\ frame.new = Top.new
      /\ frame.phase = "generate" /\ frame.groups = Top.groups \ {group}
    BY <1>1, <1>2 DEF Frames
<1>5. CASE Panic("code gone") /\ \E u \in LinkTargets(group) : ~HasLlvmUnit(u)
    BY <1>1, <1>2, <1>3, <1>5
<1>6. CASE /\ codegenMapping' = [u \in DOMAIN codegenMapping \cup group |->
                                   IF u \in group THEN group ELSE codegenMapping[u]]
           /\ llvmUnits' = llvmUnits \cup {group}
           /\ SetTop(frame)
           /\ UNCHANGED <<sourceVars, imports, types, mappings,
                          polyInstances, polyParents, hostVars, sccVars>>
  <2> HIDE DEF frame
  <2>1. Top' = frame
      BY <1>1, <1>2, <1>6, SetTopEffect
  <2>2. \E fr : SetTop(fr) /\ fr.unit = Top.unit
      BY <1>4, <1>6
  <2>3. UNCHANGED <<uids, names, code, exprs, nodes, vals, imports, types,
                    mappings, polyInstances, polyParents, interpImports, panic>>
      BY <1>6 DEF sourceVars, hostVars
  <2>4. QED
      BY <1>1, <1>2, <1>3, <1>4, <1>6, <2>1, <2>2, <2>3
<1>7. QED
    BY <1>3, <1>5, <1>6

LEMMA GenerateProgress ==
    ASSUME TypeInv, ProgressInv, Generate
    PROVE  ProgressInv'
<1>1. loads # << >> /\ Top.phase = "generate"
    BY GenerateEffect
<1>2. FrameOK(Top)
    BY <1>1, TopLemmas DEF ProgressInv
<1>3. PICK group \in Top.groups :
        \/ Panic("code gone")
        \/ /\ codegenMapping' = [u \in DOMAIN codegenMapping \cup group |->
                                   IF u \in group THEN group ELSE codegenMapping[u]]
           /\ Top'.unit = Top.unit /\ Top'.imports = Top.imports
           /\ Top'.new = Top.new /\ Top'.phase = "generate"
           /\ Top'.groups = Top.groups \ {group}
           /\ \E frame : SetTop(frame) /\ frame.unit = Top.unit
           /\ UNCHANGED <<uids, names, code, exprs, nodes, vals, imports, types,
                          mappings, polyInstances, polyParents, interpImports, panic>>
    BY GenerateEffect
<1>4. CASE Panic("code gone")
    BY <1>4, StutterKeepsProgress DEF Panic
<1>5. CASE ~Panic("code gone")
  <2>1. DOMAIN codegenMapping' = DOMAIN codegenMapping \cup group
      BY <1>3, <1>5
  <2>2. /\ Top'.unit = Top.unit /\ Top'.imports = Top.imports
        /\ Top'.new = Top.new /\ Top'.phase = "generate"
        /\ Top'.groups = Top.groups \ {group}
        /\ \E frame : SetTop(frame) /\ frame.unit = Top.unit
        /\ UNCHANGED <<uids, names, code, exprs, nodes, vals, imports, types,
                       mappings, polyInstances, polyParents, interpImports, panic>>
      BY <1>3, <1>5
  <2>3. Elements(Top.new) \subseteq (UNION Top.groups) \cup DOMAIN codegenMapping
      BY <1>1, <1>2 DEF FrameOK
  <2>4. (UNION Top.groups) \subseteq (UNION Top'.groups) \cup group
      BY <2>2
  <2>5. (UNION Top'.groups) \subseteq UNION Top.groups
      BY <2>2
  <2>6. (UNION Top.groups) \subseteq Elements(Top.new) /\ group \subseteq Elements(Top.new)
      BY <1>1, <1>2 DEF FrameOK
  <2>7. FrameOK(Top)'
      BY <1>1, <1>2, <2>1, <2>2, <2>3, <2>4, <2>5, <2>6 DEF FrameOK, Checked
  <2>8. Grows
      BY <2>1, <2>2 DEF Grows
  <2>9. LoadsOK'
      BY <1>1, <2>2, <2>7, <2>8, StepKeepsLoads DEF ProgressInv
  <2>10. group \subseteq DOMAIN types /\ Intrinsics \notin group
      BY <1>1, <1>2, <2>6 DEF FrameOK, Checked
  <2>11. EntriesOK'
      BY <2>1, <2>2, <2>10 DEF ProgressInv, EntriesOK, Unparsed
  <2>12. QED
      BY <2>9, <2>11 DEF ProgressInv
<1>6. QED
    BY <1>4, <1>5

-----------------------------------------------------------------------------

\* What the interpreter imports was loaded before the loads in progress began.
OlderInv ==
    \A i \in 1 .. Len(loads) : \A u \in interpImports : u < loads[i].unit

LEMMA CompleteProgress ==
    ASSUME TypeInv, ProgressInv, Complete
    PROVE  ProgressInv'
<1>1. /\ loads # << >> /\ Top.phase = "run" /\ Return
      /\ interpImports' \subseteq interpImports \cup {Top.unit}
      /\ UNCHANGED <<uids, names, code, imports, exprs, nodes, types, mappings,
                     codegenMapping, llvmUnits, polyInstances, polyParents, panic>>
    BY DEF Complete, UserCode, At
<1>2. FrameOK(Top) /\ Top.unit \in Elements(Top.new)
    BY <1>1, TopLemmas DEF ProgressInv
<1>3. Grows
    BY <1>1 DEF Grows
<1>4. LoadsOK'
    BY <1>1, <1>3, ReturnKeepsLoads DEF ProgressInv
<1>5. Top.unit \in DOMAIN types
    BY <1>1, <1>2 DEF FrameOK, Checked
<1>6. EntriesOK'
    BY <1>1, <1>5 DEF ProgressInv, EntriesOK, Unparsed
<1>7. QED
    BY <1>4, <1>6 DEF ProgressInv

\* Removal in general: of units that neither the interpreter nor a load that
\* goes on holds.
LEMMA RemovalProgress ==
    ASSUME TypeInv, TypeInv', ProgressInv, NEW S, RemoveUnits(S), UNCHANGED interpImports,
           Intrinsics \notin S, S \cap interpImports = {},
           \A i \in 1 .. Len(loads') :
              /\ i \in 1 .. Len(loads) /\ loads'[i] = loads[i] /\ loads[i].phase = "run"
              /\ S \cap Elements(loads[i].new) = {}
    PROVE  ProgressInv'
<1>1. LoadsOK'
    BY RemovalKeepsLoads DEF ProgressInv, TypeInv, CompilerTypeOK
<1>2. /\ DOMAIN names' = DOMAIN names \ S /\ DOMAIN exprs' = DOMAIN exprs \ S
      /\ nodes' = nodes \ S /\ DOMAIN types' = DOMAIN types \ S
      /\ DOMAIN mappings' = DOMAIN mappings \ S
      /\ DOMAIN codegenMapping' = DOMAIN codegenMapping \ S
      /\ UNCHANGED <<uids, code, imports>>
    BY DEF RemoveUnits, Without
<1>3. Intrinsics \in DOMAIN types' /\ types'[Intrinsics] = types[Intrinsics]
    BY DEF RemoveUnits, Without, ProgressInv, EntriesOK
<1>4. Unparsed' \subseteq Unparsed \cup S
    BY <1>2 DEF Unparsed
<1>5. \A e \in imports' : e[1] \in Unparsed' => e[1] \notin DOMAIN names'
    BY <1>2, <1>4 DEF ProgressInv, EntriesOK
<1>6. interpImports' \subseteq DOMAIN types'
    BY <1>2 DEF ProgressInv, EntriesOK
<1>7. (DOMAIN types' \cap code') \subseteq DOMAIN exprs'
    BY <1>2 DEF ProgressInv, EntriesOK
<1>8. EntriesOK'
    BY <1>2, <1>3, <1>5, <1>6, <1>7 DEF ProgressInv, EntriesOK
<1>9. QED
    BY <1>1, <1>8 DEF ProgressInv

LEMMA CleanUpEffect ==
    ASSUME TypeInv, ProgressInv, CleanUp
    PROVE  /\ loads # << >> /\ loads \in Seq(Frames) /\ Top.phase = "failed"
           /\ RemoveUnits(Elements(Top.new)) /\ Return /\ UNCHANGED <<interpImports, panic>>
           /\ Intrinsics \notin Elements(Top.new)
           /\ \A i \in 1 .. Len(loads') :
                /\ i \in 1 .. Len(loads) /\ i # Len(loads)
                /\ loads'[i] = loads[i] /\ loads[i].phase = "run"
                /\ Elements(Top.new) \cap Elements(loads[i].new) = {}
<1>1. /\ loads # << >> /\ Top.phase = "failed" /\ RemoveUnits(Elements(Top.new)) /\ Return
      /\ UNCHANGED <<interpImports, panic>>
    BY DEF CleanUp, At, hostVars
<1>2. loads \in Seq(Frames) /\ FramesOK
    BY DEF TypeInv, CompilerTypeOK
<1>3. /\ Elements(Top.new) \subseteq Nat \ {0} /\ Top.unit \in Nat
      /\ \A u \in Elements(Top.new) : Top.unit <= u
    BY <1>1, TopLemmas DEF ProgressInv
<1>4. ASSUME NEW i \in 1 .. Len(loads')
      PROVE  /\ i \in 1 .. Len(loads) /\ i # Len(loads)
             /\ loads'[i] = loads[i] /\ loads[i].phase = "run"
             /\ Elements(Top.new) \cap Elements(loads[i].new) = {}
  <2>1. i \in 1 .. Len(loads) /\ i # Len(loads) /\ loads'[i] = loads[i] /\ Len(loads) \in Nat \ {0}
      BY <1>1, <1>2, ReturnEffect
  <2>2. loads[i].phase = "run"
      BY <1>2, <2>1 DEF FramesOK
  <2>3. \A u \in Elements(loads[i].new) : u < Top.unit
    <3>1. Len(loads) \in 1 .. Len(loads) /\ i < Len(loads)
        BY <2>1
    <3>2. QED
        BY <2>1, <3>1 DEF ProgressInv, LoadsOK, Top
  <2>4. \A u \in Elements(Top.new) : u \notin Elements(loads[i].new)
    <3>1. SUFFICES ASSUME NEW u \in Elements(Top.new), u < Top.unit PROVE FALSE
        BY <2>3
    <3>2. u \in Nat /\ Top.unit <= u
        BY <1>3
    <3>3. QED
        BY <1>3, <3>1, <3>2
  <2>5. QED
      BY <2>1, <2>2, <2>4
<1>5. QED
    BY <1>1, <1>2, <1>3, <1>4 DEF Intrinsics

LEMMA CleanUpProgress ==
    ASSUME TypeInv, TypeInv', ProgressInv, OlderInv, CleanUp
    PROVE  ProgressInv'
<1>1. /\ Elements(Top.new) \subseteq Nat \ {0} /\ Top.unit \in Nat
      /\ \A u \in Elements(Top.new) : Top.unit <= u
    BY CleanUpEffect, TopLemmas DEF ProgressInv
<1>2. \A u \in interpImports : u < Top.unit
    BY CleanUpEffect, TopLemma DEF OlderInv, Top
<1>3. Elements(Top.new) \cap interpImports = {}
  <2>1. SUFFICES ASSUME NEW u \in Elements(Top.new), u < Top.unit PROVE FALSE
      BY <1>2
  <2>2. u \in Nat /\ Top.unit <= u
      BY <1>1
  <2>3. QED
      BY <1>1, <2>1, <2>2
<1>4. QED
    BY <1>3, CleanUpEffect, RemovalProgress

\* What running code unloads.
LEMMA UnloadEffect ==
    ASSUME TypeInv, ProgressInv, NEW u \in UsableModules, Unload(u) \/ UnloadDependents(u)
    PROVE  /\ loads # << >> /\ loads \in Seq(Frames) /\ Top.phase = "run"
           /\ UNCHANGED <<loads, interpImports, panic>>
           /\ \A i \in 1 .. Len(loads) : loads[i].phase = "run"
           /\ u \in 1 .. uids /\ u \in DOMAIN names
           /\ \E S : /\ (S = {u} /\ Unload(u)) \/ (S = FindAllDependents(u) /\ UnloadDependents(u))
                     /\ RemoveUnits(S) /\ Intrinsics \notin S /\ S \subseteq 1 .. uids
                     /\ S \cap interpImports = {} /\ S \cap InProgress = {}
                     /\ \A i \in 1 .. Len(loads) : S \cap Elements(loads[i].new) = {}
<1>1. /\ loads # << >> /\ Top.phase = "run" /\ UNCHANGED <<loads, interpImports, panic>>
      /\ \/ Unload(u) /\ RemoveUnits({u}) /\ MayUnload({u})
         \/ /\ UnloadDependents(u)
            /\ RemoveUnits(FindAllDependents(u)) /\ MayUnload(FindAllDependents(u))
    BY DEF Unload, UnloadDependents, UserCode, At, hostVars
<1>2. loads \in Seq(Frames) /\ FramesOK /\ uids \in Nat /\ DOMAIN names \subseteq 0 .. uids
    BY DEF TypeInv, CompilerTypeOK, StoreTypeOK
<1>3. \A i \in 1 .. Len(loads) : loads[i].phase = "run"
    BY <1>1, <1>2 DEF FramesOK, Top
<1>4. u \in DOMAIN names /\ u # Intrinsics /\ u \in 1 .. uids
    BY <1>2 DEF UsableModules, ProgressInv, EntriesOK, Intrinsics
<1>5. FindAllDependents(u) \subseteq 1 .. uids
  <2>1. \A e \in imports : e[1] \in 1 .. uids
      BY DEF ProgressInv, EntriesOK
  <2>2. QED
      BY <1>2, <1>4, <2>1, FindsOnlyDependents
<1>6. PICK S : /\ (S = {u} /\ Unload(u)) \/ (S = FindAllDependents(u) /\ UnloadDependents(u))
               /\ RemoveUnits(S) /\ MayUnload(S)
  <2>1. CASE Unload(u) /\ RemoveUnits({u}) /\ MayUnload({u})
    <3> DEFINE T == {u}
    <3>1. T = {u} /\ Unload(u) /\ RemoveUnits(T) /\ MayUnload(T)
        BY <2>1
    <3> HIDE DEF T
    <3>2. QED
        BY <3>1, Zenon
  <2>2. CASE UnloadDependents(u) /\ RemoveUnits(FindAllDependents(u)) /\ MayUnload(FindAllDependents(u))
      BY <2>2, Zenon
  <2>3. QED
      BY <1>1, <2>1, <2>2
<1>7. S \subseteq 1 .. uids /\ Intrinsics \notin S
    BY <1>2, <1>4, <1>5, <1>6 DEF Intrinsics
<1>8. S \cap interpImports = {} /\ S \cap InProgress = {}
    BY <1>6 DEF MayUnload
<1>9. \A i \in 1 .. Len(loads) : S \cap Elements(loads[i].new) = {}
  <2>1. \A i \in 1 .. Len(loads) : Elements(loads[i].new) \subseteq InProgress
      BY <1>2 DEF InProgress
  <2>2. QED
      BY <1>8, <2>1
<1>10. QED
    BY <1>1, <1>2, <1>3, <1>4, <1>6, <1>7, <1>8, <1>9

LEMMA UnloadProgress ==
    ASSUME TypeInv, TypeInv', ProgressInv, NEW u \in UsableModules,
           Unload(u) \/ UnloadDependents(u)
    PROVE  ProgressInv'
<1>1. PICK S : /\ RemoveUnits(S) /\ Intrinsics \notin S /\ S \cap interpImports = {}
               /\ \A i \in 1 .. Len(loads) : S \cap Elements(loads[i].new) = {}
    BY UnloadEffect
<1>2. /\ UNCHANGED <<loads, interpImports>>
      /\ \A i \in 1 .. Len(loads) : loads[i].phase = "run"
    BY UnloadEffect
<1>3. QED
    BY <1>1, <1>2, RemovalProgress

-----------------------------------------------------------------------------

LEMMA OlderKept ==
    ASSUME OlderInv, UNCHANGED interpImports, UnitsKept
    PROVE  OlderInv'
    BY DEF OlderInv, UnitsKept

\* A step of the innermost load, seen from its frame.
LEMMA StepKeepsOlder ==
    ASSUME TypeInv, OlderInv, UNCHANGED interpImports, loads # << >>,
           \E frame : SetTop(frame) /\ frame.unit = Top.unit
    PROVE  OlderInv'
    BY SetTopUnit, OlderKept DEF TypeInv, CompilerTypeOK

LEMMA SameLoadsKeepsOlder ==
    ASSUME OlderInv, UNCHANGED <<loads, interpImports>>
    PROVE  OlderInv'
    BY DEF OlderInv

-----------------------------------------------------------------------------

\* The steps of a load from its first stage to its running.
Advance ==
    \/ Parse \/ Structure \/ StageError \/ TypecheckModule
    \/ ReuseInstance \/ MakeInstance \/ NextInQueue
    \/ StartComponents \/ FindComponents \/ OrderComponents \/ Generate \/ Execute

LEMMA AdvanceEffect ==
    ASSUME TypeInv, ProgressInv, Advance
    PROVE  /\ loads # << >> /\ loads \in Seq(Frames) /\ Top.phase # "run"
           /\ UNCHANGED interpImports
           /\ \/ UNCHANGED <<storeVars, loads>>
              \/ \E frame : SetTop(frame) /\ frame.unit = Top.unit
<1>1. loads # << >> /\ Top.phase # "run" /\ UNCHANGED interpImports
    BY DEF Advance, Parse, Structure, StageError, TypecheckModule, ReuseInstance, MakeInstance,
           NextInQueue, StartComponents, FindComponents, OrderComponents, Generate, Execute,
           At, hostVars, Panic
<1>2. loads \in Seq(Frames) /\ Top \in Frames
    BY <1>1, StageLemma
<1> DEFINE Kept == \/ UNCHANGED <<storeVars, loads>>
                   \/ \E frame : SetTop(frame) /\ frame.unit = Top.unit
<1>3. CASE Parse \/ Structure \/ StageError \/ Execute
  <2>1. PICK phase \in Phases : GoTo(phase)
      BY <1>3 DEF Parse, Structure, StageError, Execute, Phases
  <2>2. QED
      BY <1>1, <1>2, <2>1, GoToEffect
<1>4. CASE TypecheckModule
    BY <1>1, <1>2, <1>4, TypecheckEffect DEF Panic
<1>5. CASE ReuseInstance
    BY <1>5, ReuseEffect
<1>6. CASE MakeInstance
    BY <1>6, MakeEffect DEF Panic, InstanceBegun
<1>7. CASE NextInQueue
    BY <1>7, NextEffect
<1>8. CASE StartComponents
    BY <1>1, <1>2, <1>8, StartComponentsProgress
<1>9. CASE FindComponents
    BY <1>1, <1>2, <1>9 DEF FindComponents
<1>10. CASE OrderComponents
    BY <1>10, OrderEffect DEF Panic, ProgressInv
<1>11. CASE Generate
    BY <1>11, GenerateEffect DEF Panic
<1>12. Kept
  <2> HIDE DEF Kept
  <2>1. QED
      BY <1>3, <1>4, <1>5, <1>6, <1>7, <1>8, <1>9, <1>10, <1>11 DEF Kept, Advance
<1>13. QED
    BY <1>1, <1>2, <1>12

LEMMA AdvanceProgress ==
    ASSUME TypeInv, PolyInv, ProgressInv, Advance
    PROVE  ProgressInv'
<1>1. CASE FindComponents
    BY <1>1, StutterKeepsProgress DEF FindComponents, hostVars
<1>2. QED
    BY <1>1, ParseProgress, StructureProgress, GoToProgress, TypecheckModuleProgress,
       ReuseInstanceProgress, MakeInstanceProgress, NextInQueueProgress,
       StartComponentsProgress, OrderComponentsProgress, GenerateProgress DEF Advance

LEMMA NewLoadKeepsOlder ==
    ASSUME TypeInv, ProgressInv, OlderInv, NEW s \in Sources,
           LoadCode(s) \/ \E imps \in SUBSET UsableModules : LoadExpr(s, imps)
    PROVE  OlderInv'
<1>1. /\ loads \in Seq(Frames) /\ uids \in Nat /\ interpImports \subseteq 0 .. uids
    BY DEF TypeInv, CompilerTypeOK, StoreTypeOK, ProgressInv, EntriesOK
<1>2. PICK imps, phase :
        /\ UNCHANGED interpImports
        /\ \/ UNCHANGED loads
           \/ loads = << >> /\ loads' = <<Frame(uids + 1, s, imps, phase)>>
           \/ loads' = Append(loads, Frame(uids + 1, s, imps, phase))
  <2>1. CASE LoadCode(s)
      BY <2>1 DEF LoadCode, Idle, Panic, hostVars
  <2>2. CASE \E imps \in SUBSET UsableModules : LoadExpr(s, imps)
      BY <2>2 DEF LoadExpr, Panic, hostVars
  <2>3. QED
      BY <2>1, <2>2
<1> DEFINE frame == Frame(uids + 1, s, imps, phase)
<1>3. frame.unit = uids + 1
    BY DEF Frame
<1> HIDE DEF frame
<1>4. CASE UNCHANGED loads
    BY <1>2, <1>4, SameLoadsKeepsOlder
<1>5. CASE loads = << >> /\ loads' = <<frame>>
    BY <1>1, <1>2, <1>3, <1>5 DEF OlderInv
<1>6. CASE loads' = Append(loads, frame)
  <2>1. ASSUME NEW i \in 1 .. Len(loads'), NEW u \in interpImports PROVE u < loads'[i].unit
    <3>1. Len(loads') = Len(loads) + 1 /\ Len(loads) \in Nat
        BY <1>1, <1>6
    <3>2. CASE i = Len(loads) + 1
        BY <1>1, <1>3, <1>6, <3>2
    <3>3. CASE i # Len(loads) + 1
      <4>1. i \in 1 .. Len(loads)
          BY <2>1, <3>1, <3>3
      <4>2. loads'[i] = loads[i]
          BY <1>1, <1>6, <4>1
      <4>3. QED
          BY <2>1, <4>1, <4>2 DEF OlderInv
    <3>4. QED
        BY <3>2, <3>3
  <2>2. QED
      BY <1>2, <2>1 DEF OlderInv
<1>7. QED
    BY <1>2, <1>4, <1>5, <1>6 DEF frame

LEMMA ReturnKeepsOlder ==
    ASSUME TypeInv, OlderInv, loads # << >>, Return,
           UNCHANGED interpImports \/ Len(loads) = 1
    PROVE  OlderInv'
<1>1. /\ Len(loads) \in Nat \ {0} /\ Len(loads') = Len(loads) - 1
      /\ \A i \in 1 .. Len(loads') : i \in 1 .. Len(loads) /\ loads'[i] = loads[i]
    BY ReturnEffect DEF TypeInv, CompilerTypeOK
<1>2. QED
    BY <1>1 DEF OlderInv

LEMMA NextKeepsProgress ==
    ASSUME TypeInv, TypeInv', PolyInv, ProgressInv, OlderInv, [CompilerNext]_compilerVars
    PROVE  ProgressInv' /\ OlderInv'
<1>1. ASSUME NEW s \in Sources, LoadCode(s) PROVE ProgressInv' /\ OlderInv'
  <2>1. CASE UNCHANGED panic
      BY <1>1, <2>1, LoadCodeProgress, NewLoadKeepsOlder
  <2>2. CASE UNCHANGED <<storeVars, loads, interpImports>>
      BY <2>2, StutterKeepsProgress, SameLoadsKeepsOlder
  <2>3. QED
      BY <1>1, <2>1, <2>2 DEF LoadCode, Panic, hostVars
<1>2. ASSUME NEW s \in Sources, NEW imps \in SUBSET UsableModules, LoadExpr(s, imps)
      PROVE  ProgressInv' /\ OlderInv'
    BY <1>2, LoadExprProgress, NewLoadKeepsOlder
<1>3. ASSUME NEW u \in UsableModules, Unload(u) \/ UnloadDependents(u)
      PROVE  ProgressInv' /\ OlderInv'
    BY <1>3, UnloadProgress, UnloadEffect, SameLoadsKeepsOlder
<1>4. CASE Advance
    BY <1>4, AdvanceProgress, AdvanceEffect, StepKeepsOlder, SameLoadsKeepsOlder
<1>5. CASE ParseError
    BY <1>5, ParseErrorProgress, ReturnKeepsOlder DEF ParseError, At, hostVars
<1>6. CASE Complete
    BY <1>6, CompleteProgress, ReturnKeepsOlder DEF Complete, UserCode, At
<1>7. CASE CleanUp
    BY <1>7, CleanUpProgress, CleanUpEffect, ReturnKeepsOlder
<1>8. CASE UNCHANGED compilerVars
    BY <1>8, StutterKeepsProgress, SameLoadsKeepsOlder DEF compilerVars
<1>9. QED
    BY <1>1, <1>2, <1>3, <1>4, <1>5, <1>6, <1>7, <1>8
    DEF CompilerNext, Request, CompilerStep, Rest, Advance

LEMMA InitProgress == CompilerInit => ProgressInv /\ OlderInv
<1> SUFFICES ASSUME CompilerInit PROVE ProgressInv /\ OlderInv
    OBVIOUS
<1>1. /\ uids = 0 /\ DOMAIN names = {0} /\ code = {} /\ imports = {} /\ nodes = {}
      /\ DOMAIN exprs = {} /\ DOMAIN mappings = {} /\ DOMAIN codegenMapping = {}
      /\ DOMAIN types = {0} /\ types[0] = IntrinsicsInfo /\ loads = << >> /\ interpImports = {}
    BY DEF CompilerInit, EmptyMap, Intrinsics
<1>2. EntriesOK
    BY <1>1 DEF EntriesOK, Unparsed, Intrinsics
<1>3. Len(loads) = 0
    BY <1>1
<1>4. LoadsOK /\ OlderInv
    BY <1>3 DEF LoadsOK, OlderInv
<1>5. QED
    BY <1>2, <1>4 DEF ProgressInv

\* The tables have of every unit what the stages its load has been through
\* put there, and what the interpreter imports is older than any load in
\* progress (compiler.rs:102-266).
THEOREM ProgressInvariant == CompilerSpec => [](ProgressInv /\ OlderInv)
<1>1. CompilerInit => ProgressInv /\ OlderInv
    BY InitProgress
<1>2. /\ TypeInv /\ TypeInv' /\ PolyInv /\ ProgressInv /\ OlderInv
      /\ [CompilerNext]_compilerVars
      => (ProgressInv /\ OlderInv)'
    BY NextKeepsProgress
<1>3. QED
    BY <1>1, <1>2, TypeInvariant, PolyInvariant, PTL DEF CompilerSpec

=============================================================================
