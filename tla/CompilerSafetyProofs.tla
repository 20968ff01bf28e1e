------------------------ MODULE CompilerSafetyProofs ------------------------
(*****************************************************************************)
(* The life of a unit: what its stages, a failure and an unloading do to it, *)
(* and to the units around it.                                               *)
(*                                                                           *)
(* At most one load is making units at any time, the innermost.  The argument*)
(* rests on what is Young, the ids from the module of that load on:          *)
(*   - no older unit depends on them (YoungOK);                              *)
(*   - their references are to units that are there (ResolvedOK), and have   *)
(*     their instances once the search queue is empty (InstancedOK);         *)
(*   - they are generated in groups of their own, complete and with their    *)
(*     code, as long as they are young (GroupsOK);                           *)
(*   - every unit that is no longer in progress has gone through all stages  *)
(*     (WholeInv).                                                           *)
(* So when a load fails, deleting its units deletes nothing an older unit    *)
(* needs; and when it succeeds, they come of age all at once.  These hold    *)
(* however modules are unloaded.  That nothing loaded imports what is gone   *)
(* (EdgesLive) takes unloading with dependents.                              *)
(*                                                                           *)
(* The last part is about the groups: if the ids happen to be the order of   *)
(* discovery they are the strongly connected components of the new units.    *)
(*****************************************************************************)
EXTENDS CompilerProofs

-----------------------------------------------------------------------------
(*****************************************************************************)
(* The young units: nothing older depends on them.                           *)
(*****************************************************************************)

\* The ids from the module's own on, while a load is still making its units:
\* all that have been handed out are of this load.
Young == IF Making THEN {u \in Nat : u >= Top.unit} ELSE {}

\* A new load, if it does not find its name taken.
NewLoad(s) ==
    /\ ~Making /\ Making'
    /\ loads' = Append(loads, Top') /\ Top' \in Frames
    /\ \A i \in 1 .. Len(loads) : loads[i].phase = "run"
    /\ Top'.unit = uids + 1 /\ Top'.new = <<uids + 1>>
    /\ uids' = uids + 1 /\ DOMAIN names' = DOMAIN names \cup {uids + 1}
    /\ \/ /\ Top'.phase = "parse" /\ code' = code \cup {uids + 1}
          /\ UNCHANGED <<imports, exprs>>
       \/ /\ Top'.phase = "structure" /\ exprs' = Extend(exprs, uids + 1, s)
          /\ imports' = imports \cup ({uids + 1} \X Top'.imports)
          /\ UNCHANGED code
    /\ UNCHANGED <<nodes, types, mappings, codegenMapping, llvmUnits, vals,
                   polyInstances, polyParents, interpImports, panic>>

LEMMA NewLoadEffect ==
    ASSUME TypeInv, ProgressInv, NEW s \in Sources,
           LoadCode(s) \/ \E imps \in SUBSET UsableModules : LoadExpr(s, imps)
    PROVE  UNCHANGED <<storeVars, loads, interpImports>> \/ NewLoad(s)
<1> DEFINE u == uids + 1
<1>1. /\ uids \in Nat /\ u \in Nat /\ loads \in Seq(Frames) /\ FramesOK
      /\ interpImports \subseteq Nat
    BY DEF TypeInv, CompilerTypeOK, StoreTypeOK
<1>2. CASE LoadCode(s)
  <2> DEFINE frame == Frame(u, s, interpImports, "parse")
  <2>1. CASE Panic("tried to load two modules called")
      BY <2>1 DEF Panic
  <2>2. CASE ~Panic("tried to load two modules called")
    <3>1. /\ loads = << >> /\ CreateUnit(u, NameFor(s, u)) /\ code' = code \cup {u}
          /\ loads' = <<frame>>
          /\ UNCHANGED <<imports, exprs, nodes, types, mappings, codegenMapping,
                         llvmUnits, vals, polyInstances, polyParents, interpImports, panic>>
        BY <1>2, <2>2 DEF LoadCode, Idle, hostVars
    <3>2. frame \in Frames
        BY <1>1, FrameLemma DEF Phases
    <3>3. frame.new = <<u>> /\ frame.unit = u /\ frame.phase = "parse"
        BY DEF Frame
    <3> HIDE DEF frame
    <3>4. loads' = Append(loads, frame) /\ Top' = frame /\ loads' # << >> /\ Len(loads) = 0
        BY <3>1 DEF Top
    <3>5. uids' = u /\ DOMAIN names' = DOMAIN names \cup {u}
        BY <3>1 DEF CreateUnit, Extend
    <3>6. ~Making /\ Making'
        BY <3>1, <3>3, <3>4 DEF Making
    <3>7. QED
        BY <3>1, <3>2, <3>3, <3>4, <3>5, <3>6 DEF NewLoad
  <2>3. QED
      BY <2>1, <2>2
<1>3. ASSUME NEW imps \in SUBSET UsableModules, LoadExpr(s, imps)
      PROVE  UNCHANGED <<storeVars, loads, interpImports>> \/ NewLoad(s)
  <2> DEFINE frame == Frame(u, s, imps, "structure")
  <2>1. CASE Panic("tried to load two modules called")
      BY <2>1 DEF Panic
  <2>2. CASE ~Panic("tried to load two modules called")
    <3>1. /\ UserCode /\ CreateUnit(u, NameFor(s, u)) /\ exprs' = Extend(exprs, u, s)
          /\ imports' = imports \cup ({u} \X (imps \cup {Intrinsics}))
          /\ loads' = Append(loads, frame)
          /\ UNCHANGED <<code, nodes, types, mappings, codegenMapping,
                         llvmUnits, vals, polyInstances, polyParents, interpImports, panic>>
        BY <1>3, <2>2 DEF LoadExpr, hostVars
    <3>2. imps \in SUBSET Nat
        BY DEF UsableModules, TypeInv, CompilerTypeOK, StoreTypeOK
    <3>3. frame \in Frames
        BY <1>1, <3>2, FrameLemma DEF Phases
    <3>4. /\ frame.new = <<u>> /\ frame.unit = u /\ frame.phase = "structure"
          /\ frame.imports = imps \cup {Intrinsics}
        BY DEF Frame
    <3> HIDE DEF frame
    <3>5. Top' = frame /\ loads' # << >>
        BY <1>1, <3>1, <3>3, PushLemma DEF Top
    <3>6. uids' = u /\ DOMAIN names' = DOMAIN names \cup {u}
        BY <3>1 DEF CreateUnit, Extend
    <3>7. ~Making /\ Making'
        BY <3>1, <3>4, <3>5 DEF Making, UserCode, At
    <3>8. \A i \in 1 .. Len(loads) : loads[i].phase = "run"
        BY <1>1, <3>1 DEF FramesOK, UserCode, At, Top
    <3>9. QED
        BY <3>1, <3>3, <3>4, <3>5, <3>6, <3>7, <3>8 DEF NewLoad
  <2>3. QED
      BY <2>1, <2>2
<1>4. QED
    BY <1>2, <1>3

LEMMA YoungWhenNew ==
    ASSUME NEW s, NewLoad(s), TypeInv
    PROVE  /\ Young = {} /\ \A u \in Nat : u \in Young' <=> u >= uids + 1
           /\ Young' \subseteq Nat
           /\ uids + 1 \in Young' /\ \A u \in 0 .. uids : u \notin Young'
<1>1. uids \in Nat
    BY DEF TypeInv, CompilerTypeOK, StoreTypeOK
<1>2. Young = {} /\ Young' = {u \in Nat : u >= uids + 1}
    BY DEF NewLoad, Young
<1>3. QED
    BY <1>1, <1>2

LEMMA YoungSame ==
    ASSUME Making, Making', Top'.unit = Top.unit
    PROVE  Young' = Young
    BY DEF Young

LEMMA YoungGone ==
    ASSUME TypeInv, loads # << >>, Return
    PROVE  ~Making' /\ Young' = {}
<1>1. FramesOK /\ loads \in Seq(Frames)
    BY DEF TypeInv, CompilerTypeOK
<1>2. /\ Len(loads) \in Nat \ {0} /\ Len(loads') = Len(loads) - 1
      /\ \A i \in 1 .. Len(loads') :
            i \in 1 .. Len(loads) /\ i # Len(loads) /\ loads'[i] = loads[i]
    BY <1>1, ReturnEffect
<1>3. loads' \in Seq(Frames)
    BY <1>1, ReturnKeepsFrames
<1>4. ASSUME loads' # << >> PROVE Top'.phase = "run"
  <2>1. Len(loads') \in 1 .. Len(loads')
      BY <1>3, <1>4, TopLemma
  <2>2. QED
      BY <1>1, <1>2, <2>1 DEF FramesOK, Top
<1>5. QED
    BY <1>4 DEF Making, Young

LEMMA YoungStutter ==
    ASSUME UNCHANGED loads
    PROVE  Young' = Young /\ Making' = Making /\ Top' = Top
    BY DEF Young, Making, Top

\* The units of a load that makes units are young.
LEMMA NewAreYoung ==
    ASSUME TypeInv, LoadsOK, Making
    PROVE  /\ Elements(Top.new) \subseteq Young /\ Top.unit \in Young /\ Young \subseteq Nat
           /\ uids + 1 \in Young /\ Intrinsics \notin Young
<1>1. /\ Top.unit \in Nat \ {0} /\ Top.unit \in DOMAIN names
      /\ Elements(Top.new) \subseteq Nat \ {0}
      /\ \A u \in Elements(Top.new) : Top.unit <= u
      /\ DOMAIN names \subseteq 0 .. uids /\ uids \in Nat
    BY TopLemmas DEF Making
<1>2. Young = {u \in Nat : u >= Top.unit}
    BY DEF Young
<1>3. Top.unit <= uids
    BY <1>1
<1>4. QED
    BY <1>1, <1>2, <1>3 DEF Intrinsics

-----------------------------------------------------------------------------

\* Young units are those of the innermost load, nothing older imports them, and
\* the module itself imports what it was loaded with.
YoungOK ==
    /\ DOMAIN names \cap Young \subseteq (IF Making THEN Elements(Top.new) ELSE {})
    /\ \A e \in imports : e[2] \in Young => e[1] \in Young
    /\ Making /\ Top.phase # "parse" => {Top.unit} \X Top.imports \subseteq imports
    /\ Making /\ Top.phase \in {"structure", "typecheck"} =>
          \A e \in imports : e[1] = Top.unit => e[2] \in Top.imports

LEMMA NewLoadYoung ==
    ASSUME TypeInv, ProgressInv, NEW s, NewLoad(s)
    PROVE  YoungOK'
<1>1. /\ uids \in Nat /\ DOMAIN names \subseteq 0 .. uids
      /\ imports \subseteq (1 .. uids) \X (0 .. uids)
    BY DEF TypeInv, CompilerTypeOK, StoreTypeOK, ProgressInv, EntriesOK
<1>2. /\ uids + 1 \in Young' /\ \A u \in 0 .. uids : u \notin Young'
    BY YoungWhenNew
<1>3. Elements(<<uids + 1>>) = {uids + 1}
    BY DEF Elements, Image
<1>4. Making' /\ Top'.new = <<uids + 1>> /\ Top'.unit = uids + 1 /\ DOMAIN names' = DOMAIN names \cup {uids + 1}
    BY DEF NewLoad
<1>5. DOMAIN names' \cap Young' \subseteq (IF Making' THEN Elements(Top'.new) ELSE {})
    BY <1>1, <1>2, <1>3, <1>4
<1>6. \/ Top'.phase = "parse" /\ imports' = imports
      \/ Top'.phase = "structure" /\ imports' = imports \cup ({uids + 1} \X Top'.imports)
    BY DEF NewLoad
<1>7. \A e \in imports : e[1] \in 1 .. uids /\ e[2] \in 0 .. uids /\ e[1] # uids + 1
    BY <1>1
<1>8. \A e \in imports' : e[2] \in Young' => e[1] \in Young'
    BY <1>2, <1>6, <1>7
<1>9. QED
    BY <1>4, <1>5, <1>6, <1>7, <1>8 DEF YoungOK

LEMMA QuietYoung ==
    ASSUME YoungOK, ~Making', DOMAIN names' \subseteq Nat
    PROVE  YoungOK'
    BY DEF YoungOK, Young

\* A stage that neither makes a unit nor adds an edge.
LEMMA StageYoung ==
    ASSUME TypeInv, YoungOK, Making, Making', UNCHANGED imports, DOMAIN names' = DOMAIN names,
           Top'.unit = Top.unit, Top'.new = Top.new, Top'.imports = Top.imports,
           Top.phase # "parse",
           Top'.phase \notin {"parse", "structure"}, Top'.phase = "typecheck" => Top.phase = "structure"
    PROVE  YoungOK'
<1>1. Young' = Young
    BY YoungSame
<1>2. QED
    BY <1>1 DEF YoungOK

-----------------------------------------------------------------------------

LEMMA ParseYoung ==
    ASSUME TypeInv, ProgressInv, YoungOK, Parse
    PROVE  YoungOK'
<1>1. /\ loads # << >> /\ Top.phase = "parse" /\ GoTo("structure")
      /\ imports' = imports \cup ({Top.unit} \X Top.imports)
      /\ UNCHANGED names
    BY DEF Parse, At
<1>2. loads \in Seq(Frames) /\ FrameOK(Top) /\ Top.unit \in DOMAIN names
    BY <1>1, TopLemmas DEF ProgressInv
<1>3. /\ Top'.unit = Top.unit /\ Top'.imports = Top.imports
      /\ Top'.new = Top.new /\ Top'.phase = "structure" /\ loads' # << >>
    BY <1>1, <1>2, GoToEffect DEF Phases
<1>4. Making /\ Making' /\ Young' = Young
    BY <1>1, <1>3, YoungSame DEF Making
<1>5. Top.unit \in Young
    BY <1>4, NewAreYoung DEF ProgressInv
<1>6. \A e \in imports : e[1] # Top.unit
    BY <1>1, <1>2 DEF FrameOK, ProgressInv, EntriesOK, Unparsed
<1>7. QED
    BY <1>1, <1>3, <1>4, <1>5, <1>6 DEF YoungOK

LEMMA ReuseYoung ==
    ASSUME TypeInv, ProgressInv, YoungOK, ReuseInstance
    PROVE  YoungOK'
<1>1. /\ loads # << >> /\ Top.phase = "instances" /\ UNCHANGED names
      /\ \E frame : SetTop(frame) /\ frame.unit = Top.unit
    BY ReuseEffect
<1>2. PICK x :
        /\ imports' = imports \cup {<<Top.queue[1], x>>}
        /\ Top'.unit = Top.unit /\ Top'.imports = Top.imports /\ Top'.new = Top.new
        /\ Top'.phase = "instances"
    BY ReuseEffect
<1>3. /\ FrameOK(Top) /\ Top.queue \in Seq(Nat) /\ Top.queue # << >> /\ loads \in Seq(Frames)
    BY <1>1, TopLemmas, StageLemma DEF ProgressInv, FramesOK
<1>4. loads' # << >>
    BY <1>1, <1>3, SetTopEffect
<1>5. Making /\ Making' /\ Young' = Young
    BY <1>1, <1>2, <1>4, YoungSame DEF Making
<1>6. Top.queue[1] \in Young
    BY <1>1, <1>3, <1>5, ElementsLemma, NewAreYoung DEF FrameOK, ProgressInv
<1>7. QED
    BY <1>1, <1>2, <1>5, <1>6 DEF YoungOK

LEMMA MakeYoung ==
    ASSUME TypeInv, ProgressInv, YoungOK, MakeInstance
    PROVE  YoungOK'
<1>1. loads # << >> /\ Top.phase = "instances"
    BY MakeEffect
<1>2. PICK ref :
        \/ UNCHANGED <<storeVars, loads>>
        \/ /\ InstanceBegun(ref, uids + 1)
           /\ InstanceFailed(ref, uids + 1) \/ InstanceMade(ref, uids + 1)
    BY MakeEffect DEF Panic
<1>3. CASE UNCHANGED <<storeVars, loads>>
    BY <1>3, YoungStutter DEF storeVars, YoungOK
<1>4. CASE /\ InstanceBegun(ref, uids + 1)
           /\ InstanceFailed(ref, uids + 1) \/ InstanceMade(ref, uids + 1)
  <2> DEFINE v == uids + 1
  <2>1. /\ DOMAIN names' = DOMAIN names \cup {v}
        /\ Top'.unit = Top.unit /\ Top'.imports = Top.imports /\ Top'.new = Append(Top.new, v)
        /\ \E frame : SetTop(frame) /\ frame.unit = Top.unit
      BY <1>4 DEF InstanceBegun
  <2>2. /\ imports \subseteq imports' /\ Top'.phase \in {"instances", "failed"}
        /\ imports' \subseteq imports \cup ({v} \X InstanceDependencies(ref))
                              \cup {<<Top.queue[1], v>>}
      BY <1>4 DEF InstanceFailed, InstanceMade
  <2>3. /\ FrameOK(Top) /\ Top.queue \in Seq(Nat) /\ Top.queue # << >> /\ loads \in Seq(Frames)
        /\ Top.new \in Seq(Nat) /\ v \in Nat
      BY <1>1, TopLemmas, StageLemma DEF ProgressInv, FramesOK, StoreTypeOK
  <2>4. loads' # << >>
      BY <1>1, <2>1, <2>3, SetTopEffect
  <2>5. Making /\ Making' /\ Young' = Young
      BY <1>1, <2>1, <2>2, <2>4, YoungSame DEF Making
  <2>6. Top.queue[1] \in Young /\ v \in Young
      BY <1>1, <2>3, <2>5, ElementsLemma, NewAreYoung DEF FrameOK, ProgressInv
  <2>7. Elements(Top'.new) = Elements(Top.new) \cup {v}
      BY <2>1, <2>3, ElementsLemma
  <2> HIDE DEF v
  <2>8. QED
      BY <1>1, <2>1, <2>2, <2>5, <2>6, <2>7 DEF YoungOK
<1>5. QED
    BY <1>2, <1>3, <1>4

LEMMA AdvanceYoung ==
    ASSUME TypeInv, TypeInv', ProgressInv, YoungOK, Advance
    PROVE  YoungOK'
<1>1. /\ loads # << >> /\ loads \in Seq(Frames) /\ Top.phase # "run" /\ Making
    BY AdvanceEffect DEF Making
<1>2. ASSUME UNCHANGED <<storeVars, loads>> PROVE YoungOK'
    BY <1>2, YoungStutter DEF storeVars, YoungOK
<1>3. DOMAIN names' \subseteq Nat
    BY DEF TypeInv, CompilerTypeOK, StoreTypeOK
<1>4. CASE Structure
  <2>1. Top.phase = "structure" /\ GoTo("typecheck") /\ UNCHANGED <<names, imports>>
      BY <1>4 DEF Structure, At
  <2>2. QED
      BY <1>1, <2>1, GoToEffect, StageYoung DEF Phases, Making
<1>5. CASE StageError
  <2>1. Top.phase # "parse" /\ GoTo("failed") /\ UNCHANGED <<names, imports>>
      BY <1>5 DEF StageError, At, storeVars
  <2>2. QED
      BY <1>1, <2>1, GoToEffect, StageYoung DEF Phases, Making
<1>6. CASE Execute
  <2>1. GoTo("run")
      BY <1>6 DEF Execute
  <2>2. ~Making'
      BY <1>1, <2>1, GoToEffect DEF Phases, Making
  <2>3. QED
      BY <1>3, <2>2, QuietYoung
<1>7. CASE TypecheckModule
  <2>1. CASE Panic("import gone")
      BY <1>2, <2>1 DEF Panic
  <2>2. CASE ~Panic("import gone")
    <3>1. /\ Top.phase = "typecheck"
          /\ Top'.unit = Top.unit /\ Top'.imports = Top.imports /\ Top'.new = Top.new
          /\ Top'.phase \in {"failed", "instances"} /\ UNCHANGED <<names, imports>>
          /\ \E frame : SetTop(frame) /\ frame.unit = Top.unit
        BY <1>7, <2>2, TypecheckEffect
    <3>2. loads' # << >>
        BY <1>1, <3>1, SetTopEffect
    <3>3. QED
        BY <1>1, <3>1, <3>2, StageYoung DEF Making
  <2>3. QED
      BY <2>1, <2>2
<1>8. CASE NextInQueue
  <2>1. /\ Top.phase = "instances" /\ Top'.phase = "instances"
        /\ Top'.unit = Top.unit /\ Top'.imports = Top.imports /\ Top'.new = Top.new
        /\ UNCHANGED <<names, imports>>
        /\ \E frame : SetTop(frame) /\ frame.unit = Top.unit
      BY <1>8, NextEffect DEF storeVars
  <2>2. loads' # << >>
      BY <1>1, <2>1, SetTopEffect
  <2>3. QED
      BY <1>1, <2>1, <2>2, StageYoung DEF Making
<1>9. CASE StartComponents
  <2>1. /\ Top.phase = "instances" /\ Top'.phase = "components"
        /\ Top'.unit = Top.unit /\ Top'.imports = Top.imports /\ Top'.new = Top.new
        /\ UNCHANGED <<names, imports>>
        /\ \E frame : SetTop(frame) /\ frame.unit = Top.unit
      BY <1>9, StartComponentsProgress DEF storeVars
  <2>2. loads' # << >>
      BY <1>1, <2>1, SetTopEffect
  <2>3. QED
      BY <1>1, <2>1, <2>2, StageYoung DEF Making
<1>10. CASE OrderComponents
  <2>1. CASE Panic("graph contained cycles!")
      BY <1>2, <2>1 DEF Panic
  <2>2. CASE ~Panic("graph contained cycles!")
    <3>1. /\ Top.phase = "components" /\ Top'.phase = "generate"
          /\ Top'.unit = Top.unit /\ Top'.imports = Top.imports /\ Top'.new = Top.new
          /\ UNCHANGED <<names, imports>>
          /\ \E frame : SetTop(frame) /\ frame.unit = Top.unit
        BY <1>10, <2>2, OrderEffect DEF ProgressInv, storeVars
    <3>2. loads' # << >>
        BY <1>1, <3>1, SetTopEffect
    <3>3. QED
        BY <1>1, <3>1, <3>2, StageYoung DEF Making
  <2>3. QED
      BY <2>1, <2>2
<1>11. CASE Generate
  <2>1. CASE Panic("code gone")
      BY <1>2, <2>1 DEF Panic
  <2>2. CASE ~Panic("code gone")
    <3>1. /\ Top.phase = "generate" /\ Top'.phase = "generate"
          /\ Top'.unit = Top.unit /\ Top'.imports = Top.imports /\ Top'.new = Top.new
          /\ UNCHANGED <<names, imports>>
          /\ \E frame : SetTop(frame) /\ frame.unit = Top.unit
        BY <1>11, <2>2, GenerateEffect
    <3>2. loads' # << >>
        BY <1>1, <3>1, SetTopEffect
    <3>3. QED
        BY <1>1, <3>1, <3>2, StageYoung DEF Making
  <2>3. QED
      BY <2>1, <2>2
<1>12. CASE FindComponents
    BY <1>2, <1>12 DEF FindComponents
<1>13. QED
    BY <1>4, <1>5, <1>6, <1>7, <1>8, <1>9, <1>10, <1>11, <1>12,
       ParseYoung, ReuseYoung, MakeYoung DEF Advance

LEMMA NextKeepsYoung ==
    ASSUME TypeInv, TypeInv', ProgressInv, YoungOK, [CompilerNext]_compilerVars
    PROVE  YoungOK'
<1>1. DOMAIN names' \subseteq Nat
    BY DEF TypeInv, CompilerTypeOK, StoreTypeOK
<1>2. ASSUME UNCHANGED <<storeVars, loads>> PROVE YoungOK'
    BY <1>2, YoungStutter DEF storeVars, YoungOK
<1>3. ASSUME NEW s \in Sources,
             LoadCode(s) \/ \E imps \in SUBSET UsableModules : LoadExpr(s, imps)
      PROVE  YoungOK'
    BY <1>2, <1>3, NewLoadEffect, NewLoadYoung
<1>4. ASSUME NEW u \in UsableModules, Unload(u) \/ UnloadDependents(u)
      PROVE  YoungOK'
  <2>1. ~Making'
      BY <1>4, UnloadEffect, YoungStutter DEF Making
  <2>2. QED
      BY <1>1, <2>1, QuietYoung
<1>5. CASE ParseError \/ Complete \/ CleanUp
  <2>1. ~Making'
      BY <1>5, YoungGone DEF ParseError, Complete, CleanUp, UserCode, At
  <2>2. QED
      BY <1>1, <2>1, QuietYoung
<1>6. CASE UNCHANGED compilerVars
    BY <1>2, <1>6 DEF compilerVars
<1>7. QED
    BY <1>3, <1>4, <1>5, <1>6, AdvanceYoung
    DEF CompilerNext, Request, CompilerStep, Rest, Advance

-----------------------------------------------------------------------------
(*****************************************************************************)
(* What young units refer to is there.                                       *)
(*****************************************************************************)

\* What the code of a unit refers to is there.
Resolved(u) ==
    /\ \A t \in mappings[u].direct :
          t \in DOMAIN types \ {Intrinsics} /\ (t = u \/ <<u, t>> \in imports)
    /\ \A ref \in mappings[u].poly :
          /\ ref[1][1] \in DOMAIN types /\ ref[1][2] \in types[ref[1][1]].generics
          /\ UnitsReferenced(ref[2]) \subseteq DOMAIN types

\* So it is for the units of a load that makes units, and the references it
\* looks at are those of the first unit of the queue.
ResolvedOK ==
    /\ \A u \in DOMAIN mappings : u \in Young => Resolved(u)
    /\ Making /\ Top.phase = "instances" => Top.refs \subseteq mappings[Top.queue[1]].poly

\* Resolution finds a symbol in a unit in scope.
LEMMA MappingFinds ==
    ASSUME NEW refs, NEW table, NEW scope, NEW direct
    PROVE  /\ \A ref \in MappingOf(refs, table, scope, direct).poly :
                 \E r \in refs : /\ ref[1][1] \in scope /\ ref[1][2] \in table[ref[1][1]].generics
                                 /\ ref[2] = r[2]
           /\ \A t \in MappingOf(refs, table, scope, direct).direct :
                 t \in direct \/ (t \in scope /\ table[t].instances # {})
<1>1. ASSUME NEW ref \in MappingOf(refs, table, scope, direct).poly
      PROVE  \E r \in refs : /\ ref[1][1] \in scope /\ ref[1][2] \in table[ref[1][1]].generics
                             /\ ref[2] = r[2]
  <2>1. PICK r \in refs : \E m \in Matches(r[1], r[2], table, scope) :
          m.isInstance = FALSE /\ ref = <<<<m.uid, r[1]>>, r[2]>>
      BY DEF MappingOf
  <2>2. PICK m \in Matches(r[1], r[2], table, scope) :
          m.isInstance = FALSE /\ ref = <<<<m.uid, r[1]>>, r[2]>>
      BY <2>1
  <2>3. m.uid \in scope /\ r[1] \in table[m.uid].generics
      BY <2>2 DEF Matches
  <2>4. QED
      BY <2>2, <2>3
<1>2. ASSUME NEW t \in MappingOf(refs, table, scope, direct).direct, t \notin direct
      PROVE  t \in scope /\ table[t].instances # {}
  <2>1. PICK r \in refs : \E m \in Matches(r[1], r[2], table, scope) :
          m.isInstance = TRUE /\ t = m.uid
      BY <1>2 DEF MappingOf
  <2>2. PICK m \in Matches(r[1], r[2], table, scope) : m.isInstance = TRUE /\ t = m.uid
      BY <2>1
  <2>3. m.uid \in scope /\ <<r[1], r[2]>> \in table[m.uid].instances
      BY <2>2 DEF Matches
  <2>4. QED
      BY <2>2, <2>3
<1>3. QED
    BY <1>1, <1>2

\* Types are found in the unit itself or in what it imports.
LEMMA TypesFound ==
    ASSUME NEW name, NEW u, NEW structs, NEW imps, NEW t \in FindTypeDef(name, u, structs, imps)
    PROVE  UnitsReferenced(t) \subseteq imps \cup {u}
<1>1. \/ t = Prim
      \/ t.uid = u
      \/ t.uid \in imps
    BY DEF FindTypeDef
<1>2. QED
    BY <1>1 DEF UnitsReferenced

\* As the tables grow, what was there stays.
LEMMA ResolvedKept ==
    ASSUME NEW u, Resolved(u), mappings'[u] = mappings[u], imports \subseteq imports',
           DOMAIN types \subseteq DOMAIN types',
           \A w \in DOMAIN types : types'[w] = types[w]
    PROVE  Resolved(u)'
    BY DEF Resolved

\* A stage that changes neither mappings nor TypeInfos.
LEMMA StageResolved ==
    ASSUME TypeInv, ResolvedOK, Making, Making', Top'.unit = Top.unit,
           UNCHANGED <<types, mappings>>, imports \subseteq imports',
           \/ Top'.phase # "instances"
           \/ Top'.refs \subseteq mappings[Top'.queue[1]].poly
    PROVE  ResolvedOK'
<1>1. Young' = Young
    BY YoungSame
<1>2. \A u \in DOMAIN mappings' : u \in Young' => Resolved(u)'
    BY <1>1, ResolvedKept DEF ResolvedOK
<1>3. QED
    BY <1>2 DEF ResolvedOK

LEMMA QuietResolved ==
    ASSUME ~Making'
    PROVE  ResolvedOK'
    BY DEF ResolvedOK, Young

LEMMA StutterResolved ==
    ASSUME ResolvedOK, UNCHANGED <<storeVars, loads>>
    PROVE  ResolvedOK'
<1>1. Young' = Young /\ Making' = Making /\ Top' = Top
    BY YoungStutter
<1>2. UNCHANGED <<types, mappings, imports>>
    BY DEF storeVars
<1>3. QED
    BY <1>1, <1>2 DEF ResolvedOK, Resolved

LEMMA NewLoadResolved ==
    ASSUME TypeInv, ProgressInv, NEW s, NewLoad(s)
    PROVE  ResolvedOK'
<1>1. DOMAIN mappings' \subseteq 0 .. uids
    BY DEF NewLoad, ProgressInv, EntriesOK, TypeInv, CompilerTypeOK, StoreTypeOK
<1>2. Top'.phase # "instances"
    BY DEF NewLoad
<1>3. QED
    BY <1>1, <1>2, YoungWhenNew DEF ResolvedOK

LEMMA TypecheckResolved ==
    ASSUME TypeInv, ProgressInv, YoungOK, ResolvedOK, TypecheckModule
    PROVE  ResolvedOK'
<1>1. loads # << >> /\ Top.phase = "typecheck"
    BY TypecheckEffect
<1>2. CASE Panic("import gone")
    BY <1>2, StutterResolved DEF Panic
<1>3. CASE ~Panic("import gone")
  <2>0. PICK u : u = Top.unit
      OBVIOUS
  <2> DEFINE table == Extend(types, u, ModuleInfo(Top.source))
             scope == Top.imports \cup {u}
  <2>1. /\ types' = table
        /\ Top'.unit = u /\ Top'.imports = Top.imports
        /\ \/ Top'.phase = "failed" /\ UNCHANGED mappings
           \/ /\ Top'.phase = "instances" /\ Top'.queue = <<u>>
              /\ mappings' = Extend(mappings, u, ModuleMapping)
              /\ Top'.refs = ModuleMapping.poly
        /\ \E frame : SetTop(frame) /\ frame.unit = u
        /\ UNCHANGED imports
      BY <1>3, <2>0, TypecheckEffect
  <2>2. FrameOK(Top) /\ loads \in Seq(Frames) /\ u \in Nat \ {0}
      BY <1>1, <2>0, TopLemmas DEF ProgressInv
  <2>3. loads' # << >>
      BY <1>1, <2>1, <2>2, SetTopEffect
  <2>4. Making /\ Making' /\ Young' = Young
      BY <1>1, <2>0, <2>1, <2>3, YoungSame DEF Making
  <2>5. /\ u \notin DOMAIN types /\ Top.imports \subseteq DOMAIN types
      BY <1>1, <2>0, <2>2 DEF FrameOK
  <2>6. /\ DOMAIN types' = DOMAIN types \cup {u}
        /\ \A w \in DOMAIN types : types'[w] = types[w]
      BY <2>1, <2>5 DEF Extend
  <2>7. ASSUME NEW w \in DOMAIN mappings, w \in Young, mappings'[w] = mappings[w]
        PROVE  Resolved(w)'
      BY <2>1, <2>6, <2>7, ResolvedKept DEF ResolvedOK
  <2>8. CASE Top'.phase = "failed" /\ UNCHANGED mappings
      BY <2>4, <2>7, <2>8 DEF ResolvedOK
  <2>9. CASE /\ Top'.phase = "instances" /\ Top'.queue = <<u>>
             /\ mappings' = Extend(mappings, u, ModuleMapping)
             /\ Top'.refs = ModuleMapping.poly
    <3>1. /\ DOMAIN mappings' = DOMAIN mappings \cup {u} /\ mappings'[u] = ModuleMapping
          /\ \A w \in DOMAIN mappings : w # u => mappings'[w] = mappings[w]
        BY <2>9 DEF Extend
    <3>2. scope \subseteq DOMAIN types'
        BY <2>5, <2>6
    <3>3. /\ \A ref \in ModuleMapping.poly :
                \E r \in ModuleReferences :
                   /\ ref[1][1] \in scope /\ ref[1][2] \in table[ref[1][1]].generics
                   /\ ref[2] = r[2]
          /\ \A t \in ModuleMapping.direct :
                t \in Top.imports \ {Intrinsics} \/ (t \in scope /\ table[t].instances # {})
        BY <2>0, MappingFinds DEF ModuleMapping
    <3>4. \A r \in ModuleReferences : UnitsReferenced(r[2]) \subseteq scope
      <4>1. SUFFICES ASSUME NEW r \in ModuleReferences
                     PROVE  UnitsReferenced(r[2]) \subseteq scope
          OBVIOUS
      <4>2. PICK use \in Program[Top.source].uses :
              \E t \in FindTypeDef(use[2], u, ModuleInfo(Top.source).structs, Top.imports) :
                  r = <<use[1], t>>
          BY <2>0 DEF ModuleReferences
      <4>3. PICK t \in FindTypeDef(use[2], u, ModuleInfo(Top.source).structs, Top.imports) :
              r = <<use[1], t>>
          BY <4>2
      <4>4. r[2] = t
          BY <4>3
      <4>5. QED
          BY <4>4, TypesFound
    <3>5. table[Intrinsics].instances = {}
        BY <2>1, <2>2, <2>6 DEF ProgressInv, EntriesOK, IntrinsicsInfo
    <3>6. \A t \in Top.imports : <<u, t>> \in imports
        BY <1>1, <2>0, <2>4 DEF YoungOK
    <3>7. Resolved(u)'
      <4>1. ASSUME NEW t \in ModuleMapping.direct
            PROVE  t \in DOMAIN types' \ {Intrinsics} /\ (t = u \/ <<u, t>> \in imports')
        <5>1. t \in scope /\ t # Intrinsics
            BY <3>3, <3>5
        <5>2. QED
            BY <2>1, <3>2, <3>6, <5>1
      <4>2. ASSUME NEW ref \in ModuleMapping.poly
            PROVE  /\ ref[1][1] \in DOMAIN types' /\ ref[1][2] \in types'[ref[1][1]].generics
                   /\ UnitsReferenced(ref[2]) \subseteq DOMAIN types'
          BY <2>1, <3>2, <3>3, <3>4
      <4>3. QED
          BY <3>1, <4>1, <4>2 DEF Resolved
    <3>8. Top'.queue[1] = u
        BY <2>9
    <3>9. \A w \in DOMAIN mappings' : w \in Young' => Resolved(w)'
        BY <2>4, <2>7, <3>1, <3>7 DEF Resolved
    <3>10. QED
        BY <2>9, <3>1, <3>8, <3>9 DEF ResolvedOK
  <2>10. QED
      BY <2>1, <2>8, <2>9
<1>4. QED
    BY <1>2, <1>3

LEMMA MakeResolved ==
    ASSUME TypeInv, ProgressInv, ResolvedOK, MakeInstance
    PROVE  ResolvedOK'
<1>1. loads # << >> /\ Top.phase = "instances" /\ Making /\ loads \in Seq(Frames)
    BY MakeEffect DEF Making
<1>2. PICK ref \in Top.refs :
        \/ UNCHANGED <<storeVars, loads>>
        \/ /\ InstanceBegun(ref, uids + 1)
           /\ InstanceFailed(ref, uids + 1) \/ InstanceMade(ref, uids + 1)
    BY MakeEffect DEF Panic
<1>3. CASE UNCHANGED <<storeVars, loads>>
    BY <1>3, StutterResolved
<1>4. CASE /\ InstanceBegun(ref, uids + 1)
           /\ InstanceFailed(ref, uids + 1) \/ InstanceMade(ref, uids + 1)
  <2>0. PICK v : v = uids + 1
      OBVIOUS
  <2> DEFINE g == ref[1][1]
             deps == InstanceDependencies(ref)
             table == Extend(types, v, InstanceInfo(ref[1][2], ref[2]))
             scope == deps \cup {v}
  <2>1. /\ types' = table /\ deps \subseteq DOMAIN types /\ Top'.unit = Top.unit
        /\ \E frame : SetTop(frame) /\ frame.unit = Top.unit
      BY <1>4, <2>0 DEF InstanceBegun
  <2>2. /\ imports \subseteq imports' /\ Top'.phase \in {"instances", "failed"}
        /\ {v} \X deps \subseteq imports'
      BY <1>4, <2>0 DEF InstanceFailed, InstanceMade
  <2>3. /\ DOMAIN names \subseteq 0 .. uids /\ uids \in Nat /\ Top.queue \in Seq(Nat)
        /\ Top.queue # << >> /\ FrameOK(Top)
      BY <1>1, TopLemmas, StageLemma DEF ProgressInv, FramesOK
  <2>4. v \notin DOMAIN names /\ v # 0
      BY <2>0, <2>3
  <2>5. /\ v \notin DOMAIN types /\ v \notin DOMAIN mappings
      BY <2>4 DEF ProgressInv, EntriesOK
  <2>6. /\ DOMAIN types' = DOMAIN types \cup {v}
        /\ \A w \in DOMAIN types : types'[w] = types[w]
      BY <2>1, <2>5 DEF Extend
  <2>7. loads' # << >>
      BY <1>1, <2>1, SetTopEffect
  <2>8. Making' /\ Young' = Young
      BY <1>1, <2>1, <2>2, <2>7, YoungSame DEF Making
  <2>9. ASSUME NEW w \in DOMAIN mappings, w \in Young, mappings'[w] = mappings[w]
        PROVE  Resolved(w)'
      BY <2>2, <2>6, <2>9, ResolvedKept DEF ResolvedOK
  <2>10. CASE InstanceFailed(ref, v)
    <3>1. Top'.phase = "failed" /\ UNCHANGED mappings
        BY <2>10 DEF InstanceFailed
    <3>2. QED
        BY <2>8, <2>9, <3>1 DEF ResolvedOK
  <2>11. CASE InstanceMade(ref, v)
    <3>1. /\ mappings' = Extend(mappings, v, InstanceMapping(ref, v))
          /\ Top'.queue = Append(Top.queue, v) /\ Top'.refs = Top.refs \ {ref}
        BY <2>11 DEF InstanceMade
    <3>2. /\ DOMAIN mappings' = DOMAIN mappings \cup {v}
          /\ mappings'[v] = InstanceMapping(ref, v)
          /\ \A w \in DOMAIN mappings : mappings'[w] = mappings[w]
        BY <2>5, <3>1 DEF Extend
    <3>3. Top.queue[1] \in DOMAIN mappings /\ Top.queue[1] \in Young
      <4>1. Top.queue[1] \in Elements(Top.new)
          BY <1>1, <2>3, ElementsLemma DEF FrameOK
      <4>2. QED
          BY <1>1, <2>3, <4>1, NewAreYoung DEF FrameOK, Checked, ProgressInv
    <3>4. /\ g \in DOMAIN types /\ ref[1][2] \in types[g].generics
        BY <1>1, <3>3 DEF ResolvedOK, Resolved
    <3>5. g # Intrinsics
        BY <3>4 DEF ProgressInv, EntriesOK, IntrinsicsInfo
    <3>6. g \in deps /\ UnitsReferenced(ref[2]) \subseteq deps
        BY DEF InstanceDependencies
    <3> DEFINE refs == {<<f, ref[2]>> : f \in Calls[ref[1][2]]}
    <3>7. \A r \in refs : r[2] = ref[2]
        OBVIOUS
    <3>8. InstanceMapping(ref, v) = MappingOf(refs, table, scope, {g})
        BY DEF InstanceMapping
    <3> HIDE DEF refs, deps, table, g
    <3>9. /\ \A x \in InstanceMapping(ref, v).poly :
                \E r \in refs :
                   /\ x[1][1] \in scope /\ x[1][2] \in table[x[1][1]].generics
                   /\ x[2] = r[2]
          /\ \A t \in InstanceMapping(ref, v).direct :
                t \in {g} \/ (t \in scope /\ table[t].instances # {})
        BY <3>8, MappingFinds
    <3>10. table[Intrinsics].instances = {}
        BY <2>1, <2>6 DEF ProgressInv, EntriesOK, IntrinsicsInfo
    <3>11. scope \subseteq DOMAIN types'
        BY <2>1, <2>6
    <3>12. Resolved(v)'
      <4>1. ASSUME NEW t \in InstanceMapping(ref, v).direct
            PROVE  t \in DOMAIN types' \ {Intrinsics} /\ (t = v \/ <<v, t>> \in imports')
        <5>1. t \in scope /\ t # Intrinsics
            BY <3>5, <3>6, <3>9, <3>10
        <5>2. QED
            BY <2>2, <3>11, <5>1
      <4>2. ASSUME NEW x \in InstanceMapping(ref, v).poly
            PROVE  /\ x[1][1] \in DOMAIN types' /\ x[1][2] \in types'[x[1][1]].generics
                   /\ UnitsReferenced(x[2]) \subseteq DOMAIN types'
        <5>1. PICK r \in refs : /\ x[1][1] \in scope /\ x[1][2] \in table[x[1][1]].generics
                                /\ x[2] = r[2]
            BY <3>9
        <5>2. UnitsReferenced(x[2]) \subseteq scope
            BY <3>6, <3>7, <5>1
        <5>3. QED
            BY <2>1, <3>11, <5>1, <5>2
      <4>3. QED
          BY <3>2, <4>1, <4>2 DEF Resolved
    <3>13. \A w \in DOMAIN mappings' : w \in Young' => Resolved(w)'
        BY <2>8, <2>9, <3>2, <3>12 DEF Resolved
    <3>14. Top'.queue[1] = Top.queue[1]
        BY <2>3, <2>4, <3>1, <2>0
    <3>15. Top'.refs \subseteq mappings'[Top'.queue[1]].poly
        BY <1>1, <3>1, <3>2, <3>3, <3>14 DEF ResolvedOK
    <3>16. QED
        BY <3>13, <3>15 DEF ResolvedOK
  <2>12. QED
      BY <1>4, <2>0, <2>10, <2>11
<1>5. QED
    BY <1>2, <1>3, <1>4

\* The stages that neither typecheck nor make an instance.
LEMMA AdvanceResolved ==
    ASSUME TypeInv, ProgressInv, YoungOK, ResolvedOK, Advance
    PROVE  ResolvedOK'
<1>1. /\ loads # << >> /\ loads \in Seq(Frames) /\ Top.phase # "run" /\ Making
    BY AdvanceEffect DEF Making
<1>2. ASSUME UNCHANGED <<storeVars, loads>> PROVE ResolvedOK'
    BY <1>2, StutterResolved
<1>3. CASE Parse \/ Structure \/ StageError \/ Execute
  <2>1. PICK phase \in {"structure", "typecheck", "failed", "run"} : GoTo(phase)
      BY <1>3 DEF Parse, Structure, StageError, Execute
  <2>2. UNCHANGED <<types, mappings>> /\ imports \subseteq imports'
      BY <1>3 DEF Parse, Structure, StageError, Execute, storeVars
  <2>3. Top'.phase = phase /\ Top'.unit = Top.unit /\ loads' # << >>
      BY <1>1, <2>1, GoToEffect DEF Phases
  <2>4. CASE phase = "run"
      BY <2>3, <2>4, QuietResolved DEF Making
  <2>5. CASE phase # "run"
      BY <1>1, <2>2, <2>3, <2>5, StageResolved DEF Making
  <2>6. QED
      BY <2>4, <2>5
<1>4. CASE ReuseInstance
  <2>1. PICK ref :
          /\ imports \subseteq imports' /\ Top'.unit = Top.unit /\ Top'.phase = "instances"
          /\ Top'.queue = Top.queue /\ Top'.refs = Top.refs \ {ref}
      BY <1>4, ReuseEffect
  <2>2. UNCHANGED <<types, mappings>> /\ Top.phase = "instances"
      BY <1>4, ReuseEffect
  <2>3. loads' # << >>
      BY <1>1, <1>4, ReuseEffect, SetTopEffect
  <2>4. Top'.refs \subseteq mappings[Top'.queue[1]].poly
      BY <1>1, <2>1, <2>2 DEF ResolvedOK
  <2>5. QED
      BY <1>1, <2>1, <2>2, <2>3, <2>4, StageResolved DEF Making
<1>5. CASE NextInQueue
  <2>1. /\ Top'.unit = Top.unit /\ Top'.phase = "instances" /\ UNCHANGED storeVars
        /\ Top'.queue = Tail(Top.queue) /\ Top'.refs = mappings[Top.queue[2]].poly
        /\ Top.queue \in Seq(Nat) /\ Len(Top.queue) > 1
      BY <1>5, NextEffect
  <2>2. loads' # << >>
      BY <1>1, <1>5, NextEffect, SetTopEffect
  <2>3. Top'.queue[1] = Top.queue[2]
    <3>1. Top.queue # << >>
        BY <2>1
    <3>2. /\ Len(Tail(Top.queue)) = Len(Top.queue) - 1
          /\ \A i \in 1 .. Len(Tail(Top.queue)) : Tail(Top.queue)[i] = Top.queue[i + 1]
        BY <2>1, <3>1, TailLemma
    <3>3. 1 \in 1 .. Len(Tail(Top.queue)) /\ 1 + 1 = 2
        BY <2>1, <3>2
    <3>4. QED
        BY <2>1, <3>2, <3>3
  <2>4. QED
      BY <1>1, <2>1, <2>2, <2>3, StageResolved DEF Making, storeVars
<1>6. CASE StartComponents
  <2>1. /\ Top'.unit = Top.unit /\ Top'.phase = "components" /\ UNCHANGED storeVars
      BY <1>6, StartComponentsProgress
  <2>2. loads' # << >>
      BY <1>1, <1>6, StartComponentsProgress, SetTopEffect
  <2>3. QED
      BY <1>1, <2>1, <2>2, StageResolved DEF Making, storeVars
<1>7. CASE OrderComponents
  <2>1. CASE Panic("graph contained cycles!")
      BY <1>2, <2>1 DEF Panic
  <2>2. CASE ~Panic("graph contained cycles!")
    <3>1. /\ Top'.unit = Top.unit /\ Top'.phase = "generate" /\ UNCHANGED storeVars
          /\ \E frame : SetTop(frame) /\ frame.unit = Top.unit
        BY <1>7, <2>2, OrderEffect DEF ProgressInv
    <3>2. loads' # << >>
        BY <1>1, <3>1, SetTopEffect
    <3>3. QED
        BY <1>1, <3>1, <3>2, StageResolved DEF Making, storeVars
  <2>3. QED
      BY <2>1, <2>2
<1>8. CASE Generate
  <2>1. CASE Panic("code gone")
      BY <1>2, <2>1 DEF Panic
  <2>2. CASE ~Panic("code gone")
    <3>1. /\ Top'.unit = Top.unit /\ Top'.phase = "generate"
          /\ UNCHANGED <<types, mappings, imports>>
          /\ \E frame : SetTop(frame) /\ frame.unit = Top.unit
        BY <1>8, <2>2, GenerateEffect
    <3>2. loads' # << >>
        BY <1>1, <3>1, SetTopEffect
    <3>3. QED
        BY <1>1, <3>1, <3>2, StageResolved DEF Making
  <2>3. QED
      BY <2>1, <2>2
<1>9. CASE FindComponents
    BY <1>2, <1>9 DEF FindComponents
<1>10. QED
    BY <1>3, <1>4, <1>5, <1>6, <1>7, <1>8, <1>9, TypecheckResolved, MakeResolved DEF Advance

LEMMA NextKeepsResolved ==
    ASSUME TypeInv, ProgressInv, YoungOK, ResolvedOK, [CompilerNext]_compilerVars
    PROVE  ResolvedOK'
<1>1. ASSUME UNCHANGED <<storeVars, loads>> PROVE ResolvedOK'
    BY <1>1, StutterResolved
<1>2. ASSUME NEW s \in Sources,
             LoadCode(s) \/ \E imps \in SUBSET UsableModules : LoadExpr(s, imps)
      PROVE  ResolvedOK'
    BY <1>1, <1>2, NewLoadEffect, NewLoadResolved
<1>3. ASSUME NEW u \in UsableModules, Unload(u) \/ UnloadDependents(u)
      PROVE  ResolvedOK'
  <2>1. ~Making'
      BY <1>3, UnloadEffect, YoungStutter DEF Making
  <2>2. QED
      BY <2>1, QuietResolved
<1>4. CASE ParseError \/ Complete \/ CleanUp
  <2>1. ~Making'
      BY <1>4, YoungGone DEF ParseError, Complete, CleanUp, UserCode, At
  <2>2. QED
      BY <2>1, QuietResolved
<1>5. CASE UNCHANGED compilerVars
    BY <1>1, <1>5 DEF compilerVars
<1>6. QED
    BY <1>2, <1>3, <1>4, <1>5, AdvanceResolved
    DEF CompilerNext, Request, CompilerStep, Rest, Advance

-----------------------------------------------------------------------------
(*****************************************************************************)
(* Instances import what they are made of, and what is imported is loaded.   *)
(*****************************************************************************)

\* Steps after which the tables know of the same types and instances.  A new
\* edge is of a unit not yet typechecked, or to one that is.
QuietStep ==
    /\ UNCHANGED <<types, mappings, polyInstances, polyParents>>
    /\ imports \subseteq imports' /\ nodes \subseteq nodes'
    /\ \A e \in imports' :
          e \in imports \/ e[1] \notin DOMAIN types \/ e[2] \in DOMAIN types

Removing(u) == ("single" \in UnloadKinds /\ Unload(u)) \/ UnloadDependents(u)

LEMMA StepKinds ==
    ASSUME TypeInv, PolyInv, ProgressInv, [CompilerNext]_compilerVars
    PROVE  \/ QuietStep /\ interpImports \subseteq interpImports'
           \/ TypecheckModule \/ MakeInstance \/ CleanUp
           \/ \E u \in UsableModules : Removing(u)
<1> DEFINE Quiet == QuietStep /\ interpImports \subseteq interpImports'
<1>1. ASSUME UNCHANGED <<types, mappings, polyInstances, polyParents, imports>>,
             nodes \subseteq nodes', interpImports \subseteq interpImports'
      PROVE  Quiet
    BY <1>1 DEF QuietStep
<1>2. ASSUME NEW s \in Sources,
             LoadCode(s) \/ \E imps \in SUBSET UsableModules : LoadExpr(s, imps)
      PROVE  Quiet
  <2>1. CASE UNCHANGED <<storeVars, loads, interpImports>>
      BY <1>1, <2>1 DEF storeVars
  <2>2. CASE NewLoad(s)
    <3>1. /\ UNCHANGED <<types, mappings, polyInstances, polyParents, nodes, interpImports>>
          /\ UNCHANGED imports \/ imports' = imports \cup ({uids + 1} \X Top'.imports)
        BY <2>2 DEF NewLoad
    <3>2. uids + 1 \notin DOMAIN types
        BY DEF TypeInv, CompilerTypeOK, StoreTypeOK, ProgressInv, EntriesOK
    <3>3. \A e \in imports' : e \in imports \/ e[1] \notin DOMAIN types
        BY <3>1, <3>2
    <3>4. QED
        BY <3>1, <3>3 DEF QuietStep
  <2>3. QED
      BY <1>2, <2>1, <2>2, NewLoadEffect
<1>3. CASE Parse
  <2>1. /\ UNCHANGED <<types, mappings, polyInstances, polyParents, nodes, interpImports>>
        /\ imports' = imports \cup ({Top.unit} \X Top.imports)
        /\ loads # << >> /\ Top.phase = "parse"
      BY <1>3 DEF Parse, At, hostVars
  <2>2. Top.unit \notin DOMAIN types
      BY <2>1, TopLemmas DEF ProgressInv, FrameOK
  <2>3. \A e \in imports' : e \in imports \/ e[1] \notin DOMAIN types
      BY <2>1, <2>2
  <2>4. QED
      BY <2>1, <2>3 DEF QuietStep
<1>4. CASE ReuseInstance
  <2>1. /\ UNCHANGED <<types, mappings, polyInstances, polyParents, nodes, interpImports>>
        /\ \E ref \in DOMAIN polyInstances :
              imports' = imports \cup {<<Top.queue[1], polyInstances[ref]>>}
      BY <1>4, ReuseEffect
  <2>2. \A e \in imports' : e \in imports \/ e[2] \in DOMAIN types
      BY <2>1 DEF PolyInv, PolyTablesAgree
  <2>3. imports \subseteq imports'
      BY <2>1
  <2>4. QED
      BY <2>1, <2>2, <2>3 DEF QuietStep
<1>5. CASE \/ ParseError \/ Structure \/ StageError \/ NextInQueue \/ StartComponents
           \/ FindComponents \/ OrderComponents \/ Generate \/ Execute \/ Complete
  <2>1. /\ UNCHANGED <<types, mappings, polyInstances, polyParents, imports>>
        /\ nodes \subseteq nodes' /\ interpImports \subseteq interpImports'
      BY <1>5 DEF ParseError, Structure, StageError, NextInQueue, StartComponents,
                  FindComponents, OrderComponents, Generate, Execute, Complete, Panic,
                  storeVars, sourceVars, hostVars
  <2>2. QED
      BY <1>1, <2>1
<1>6. CASE UNCHANGED compilerVars
    BY <1>1, <1>6 DEF compilerVars, storeVars
<1> HIDE DEF Quiet
<1>7. CASE Request
  <2>1. ASSUME NEW u \in UsableModules, "single" \in UnloadKinds /\ Unload(u)
        PROVE  \E x \in UsableModules : Removing(x)
      BY <2>1 DEF Removing
  <2>2. ASSUME NEW u \in UsableModules, UnloadDependents(u)
        PROVE  \E x \in UsableModules : Removing(x)
      BY <2>2 DEF Removing
  <2>3. QED
      BY <1>2, <1>7, <2>1, <2>2 DEF Request, Quiet
<1>8. CASE CompilerStep
    BY <1>3, <1>4, <1>5, <1>8 DEF CompilerStep, Quiet
<1>9. QED
    BY <1>5, <1>6, <1>7, <1>8 DEF CompilerNext, Rest, Quiet

-----------------------------------------------------------------------------

\* A unit with generic functions has been through structure.  An instance
\* imports the unit that defines it and those its types are of, and as long as
\* its generic function is known, so is the body.
InstancesOK ==
    /\ \A u \in DOMAIN types : types[u].generics # {} => u \in nodes
    /\ \A k \in DOMAIN polyInstances :
          /\ <<polyInstances[k], k[1][1]>> \in imports
          /\ \A t \in UnitsReferenced(k[2]) : <<polyInstances[k], t>> \in imports
          /\ k[1][1] \in DOMAIN types => k[1][1] \in nodes

LEMMA QuietInstances ==
    ASSUME InstancesOK, QuietStep
    PROVE  InstancesOK'
    BY DEF InstancesOK, QuietStep

LEMMA TypecheckInstances ==
    ASSUME TypeInv, ProgressInv, InstancesOK, TypecheckModule
    PROVE  InstancesOK'
<1>1. loads # << >> /\ Top.phase = "typecheck" /\ UNCHANGED <<polyInstances, imports, nodes>>
    BY TypecheckEffect DEF Panic, storeVars
<1>2. \/ UNCHANGED types
      \/ types' = Extend(types, Top.unit, ModuleInfo(Top.source))
    BY TypecheckEffect DEF Panic, storeVars
<1>3. Top.unit \in nodes
    BY <1>1, TopLemmas DEF ProgressInv, FrameOK
<1>4. \A u \in DOMAIN types' : u \in nodes \/ (u \in DOMAIN types /\ types'[u] = types[u])
    BY <1>2, <1>3 DEF Extend
<1>5. QED
    BY <1>1, <1>4 DEF InstancesOK

\* What the reference at hand refers to.
LEMMA CurrentReference ==
    ASSUME TypeInv, ProgressInv, ResolvedOK, loads # << >>, Top.phase = "instances",
           NEW ref \in Top.refs
    PROVE  /\ ref \in References /\ ref[1][1] \in DOMAIN types
           /\ ref[1][2] \in types[ref[1][1]].generics /\ UnitsReferenced(ref[2]) \subseteq DOMAIN types
           /\ Top.queue[1] \in Elements(Top.new) /\ Top.queue[1] \in DOMAIN mappings
           /\ Top.queue[1] \in DOMAIN types
<1>1. /\ FrameOK(Top) /\ Top.queue \in Seq(Nat) /\ Top.queue # << >>
      /\ Top.refs \subseteq References /\ Making
    BY TopLemmas, StageLemma DEF ProgressInv, FramesOK, Making
<1>2. Top.queue[1] \in Elements(Top.new)
    BY <1>1, ElementsLemma DEF FrameOK
<1>3. /\ Top.queue[1] \in DOMAIN mappings /\ Top.queue[1] \in DOMAIN types
      /\ Top.queue[1] \in Young
    BY <1>1, <1>2, NewAreYoung DEF FrameOK, Checked, ProgressInv
<1>4. Resolved(Top.queue[1]) /\ ref \in mappings[Top.queue[1]].poly
    BY <1>1, <1>3 DEF ResolvedOK
<1>5. QED
    BY <1>1, <1>2, <1>3, <1>4 DEF Resolved

LEMMA MakeInstances ==
    ASSUME TypeInv, ProgressInv, ResolvedOK, InstancesOK, MakeInstance
    PROVE  InstancesOK'
<1>1. loads # << >> /\ Top.phase = "instances"
    BY MakeEffect
<1>2. PICK ref \in Top.refs :
        \/ UNCHANGED storeVars
        \/ /\ InstanceBegun(ref, uids + 1)
           /\ InstanceFailed(ref, uids + 1) \/ InstanceMade(ref, uids + 1)
    BY MakeEffect DEF Panic
<1>3. CASE UNCHANGED storeVars
    BY <1>3 DEF storeVars, InstancesOK
<1>4. CASE /\ InstanceBegun(ref, uids + 1)
           /\ InstanceFailed(ref, uids + 1) \/ InstanceMade(ref, uids + 1)
  <2>1. PICK v : v = uids + 1
      OBVIOUS
  <2>2. /\ types' = Extend(types, v, InstanceInfo(ref[1][2], ref[2])) /\ UNCHANGED nodes
        /\ InstanceDependencies(ref) \subseteq DOMAIN types
      BY <1>4, <2>1 DEF InstanceBegun
  <2>3. imports \subseteq imports' /\ {v} \X InstanceDependencies(ref) \subseteq imports'
      BY <1>4, <2>1 DEF InstanceFailed, InstanceMade
  <2>4. \/ UNCHANGED polyInstances
        \/ polyInstances' = Extend(polyInstances, ref, v)
      BY <1>4, <2>1 DEF InstanceFailed, InstanceMade
  <2>5. /\ uids \in Nat /\ imports \subseteq (1 .. uids) \X (0 .. uids)
        /\ DOMAIN types \subseteq 0 .. uids
      BY DEF TypeInv, CompilerTypeOK, StoreTypeOK, ProgressInv, EntriesOK
  <2>6. v \notin 0 .. uids
      BY <2>1, <2>5
  <2>7. \A u \in DOMAIN types' :
           \/ u = v /\ types'[u].generics = {}
           \/ u \in DOMAIN types /\ types'[u] = types[u]
      BY <2>2 DEF Extend, InstanceInfo
  <2>8. ref[1][1] \in nodes /\ ref[1][1] \in DOMAIN types
      BY <1>1, CurrentReference DEF InstancesOK
  <2>9. ref[1][1] \in InstanceDependencies(ref) /\ UnitsReferenced(ref[2]) \subseteq InstanceDependencies(ref)
      BY DEF InstanceDependencies
  <2>10. ASSUME NEW k \in DOMAIN polyInstances'
         PROVE  /\ <<polyInstances'[k], k[1][1]>> \in imports'
                /\ \A t \in UnitsReferenced(k[2]) : <<polyInstances'[k], t>> \in imports'
                /\ k[1][1] \in DOMAIN types' => k[1][1] \in nodes
    <3>1. CASE k \in DOMAIN polyInstances /\ polyInstances'[k] = polyInstances[k]
      <4>1. k[1][1] \in 0 .. uids
          BY <2>5, <3>1 DEF InstancesOK
      <4>2. k[1][1] \in DOMAIN types' => k[1][1] \in DOMAIN types
          BY <2>6, <2>7, <4>1
      <4>3. QED
          BY <2>3, <3>1, <4>2 DEF InstancesOK
    <3>2. CASE k = ref /\ polyInstances'[k] = v
        BY <2>3, <2>8, <2>9, <3>2
    <3>3. QED
        BY <2>4, <3>1, <3>2 DEF Extend
  <2>11. QED
      BY <2>2, <2>7, <2>10 DEF InstancesOK
<1>5. QED
    BY <1>2, <1>3, <1>4

LEMMA RemovalInstances ==
    ASSUME InstancesOK, NEW S, RemoveUnits(S)
    PROVE  InstancesOK'
<1>1. /\ DOMAIN types' = DOMAIN types \ S /\ \A u \in DOMAIN types' : types'[u] = types[u]
      /\ nodes' = nodes \ S /\ UNCHANGED imports
    BY DEF RemoveUnits, Without
<1>2. \A k \in DOMAIN polyInstances' :
         k \in DOMAIN polyInstances /\ polyInstances'[k] = polyInstances[k]
    BY DEF RemoveUnits, Without
<1>3. QED
    BY <1>1, <1>2 DEF InstancesOK

LEMMA NextKeepsInstances ==
    ASSUME TypeInv, PolyInv, ProgressInv, ResolvedOK, InstancesOK, [CompilerNext]_compilerVars
    PROVE  InstancesOK'
<1>1. ASSUME \E S : RemoveUnits(S) PROVE InstancesOK'
    BY <1>1, RemovalInstances
<1>2. CASE CleanUp \/ \E u \in UsableModules : Removing(u)
    BY <1>1, <1>2 DEF CleanUp, Removing, Unload, UnloadDependents
<1>3. QED
    BY <1>2, StepKinds, QuietInstances, TypecheckInstances, MakeInstances

-----------------------------------------------------------------------------

\* What a loaded unit imports is loaded.
EdgesLive ==
    \A e \in imports : e[1] \in DOMAIN types => e[2] \in DOMAIN types

LEMMA TypecheckEdges ==
    ASSUME TypeInv, ProgressInv, YoungOK, EdgesLive, TypecheckModule
    PROVE  EdgesLive'
<1>1. /\ loads # << >> /\ Top.phase = "typecheck" /\ UNCHANGED imports
      /\ \/ UNCHANGED types
         \/ types' = Extend(types, Top.unit, ModuleInfo(Top.source))
    BY TypecheckEffect DEF Panic, storeVars
<1>2. Top.imports \subseteq DOMAIN types
    BY <1>1, TopLemmas DEF ProgressInv, FrameOK
<1>3. \A e \in imports : e[1] = Top.unit => e[2] \in Top.imports
    BY <1>1 DEF YoungOK, Making
<1>4. QED
    BY <1>1, <1>2, <1>3 DEF EdgesLive, Extend

LEMMA MakeEdges ==
    ASSUME TypeInv, ProgressInv, EdgesLive, MakeInstance
    PROVE  EdgesLive'
<1>1. PICK ref :
        \/ UNCHANGED storeVars
        \/ /\ InstanceBegun(ref, uids + 1)
           /\ InstanceFailed(ref, uids + 1) \/ InstanceMade(ref, uids + 1)
    BY MakeEffect DEF Panic
<1>2. CASE UNCHANGED storeVars
    BY <1>2 DEF storeVars, EdgesLive
<1>3. CASE /\ InstanceBegun(ref, uids + 1)
           /\ InstanceFailed(ref, uids + 1) \/ InstanceMade(ref, uids + 1)
  <2>1. /\ DOMAIN types' = DOMAIN types \cup {uids + 1}
        /\ InstanceDependencies(ref) \subseteq DOMAIN types
      BY <1>3 DEF InstanceBegun, Extend
  <2>2. imports' \subseteq imports \cup ({uids + 1} \X InstanceDependencies(ref))
                                   \cup {<<Top.queue[1], uids + 1>>}
      BY <1>3 DEF InstanceFailed, InstanceMade
  <2>3. uids \in Nat /\ \A e \in imports : e[1] \in 1 .. uids
      BY DEF TypeInv, CompilerTypeOK, StoreTypeOK, ProgressInv, EntriesOK
  <2>4. \A e \in imports : e[1] # uids + 1
      BY <2>3
  <2>5. QED
      BY <2>1, <2>2, <2>4 DEF EdgesLive
<1>4. QED
    BY <1>1, <1>2, <1>3

\* Removal of units together with all that import them.
LEMMA RemovalEdges ==
    ASSUME EdgesLive, NEW S, RemoveUnits(S),
           \A e \in imports : e[2] \in S /\ e[1] \in DOMAIN types => e[1] \in S
    PROVE  EdgesLive'
<1>1. DOMAIN types' = DOMAIN types \ S /\ UNCHANGED imports
    BY DEF RemoveUnits, Without
<1>2. QED
    BY <1>1 DEF EdgesLive

LEMMA CleanUpEdges ==
    ASSUME TypeInv, ProgressInv, YoungOK, EdgesLive, CleanUp
    PROVE  EdgesLive'
<1>1. loads # << >> /\ Top.phase = "failed" /\ RemoveUnits(Elements(Top.new))
    BY CleanUpEffect
<1>2. Making /\ Elements(Top.new) \subseteq Young
    BY <1>1, NewAreYoung DEF ProgressInv, Making
<1>3. \A e \in imports : e[2] \in Elements(Top.new) /\ e[1] \in DOMAIN types
                            => e[1] \in Elements(Top.new)
    BY <1>2 DEF YoungOK, ProgressInv, EntriesOK
<1>4. QED
    BY <1>1, <1>3, RemovalEdges

LEMMA UnloadDependentsEdges ==
    ASSUME TypeInv, ProgressInv, EdgesLive, NEW u \in UsableModules, UnloadDependents(u)
    PROVE  EdgesLive'
<1>1. u \in 0 .. uids /\ uids \in Nat /\ imports \subseteq (1 .. uids) \X (0 .. uids)
    BY UnloadEffect DEF TypeInv, CompilerTypeOK, StoreTypeOK, ProgressInv, EntriesOK
<1>2. RemoveUnits(FindAllDependents(u))
    BY DEF UnloadDependents
<1>3. QED
    BY <1>1, <1>2, FindsAllDependents, RemovalEdges

LEMMA NextKeepsEdges ==
    ASSUME TypeInv, PolyInv, ProgressInv, YoungOK, ResolvedOK, EdgesLive,
           "single" \notin UnloadKinds, [CompilerNext]_compilerVars
    PROVE  EdgesLive'
<1>1. CASE QuietStep
    BY <1>1 DEF QuietStep, EdgesLive
<1>2. CASE \E u \in UsableModules : Removing(u)
    BY <1>2, UnloadDependentsEdges DEF Removing
<1>3. QED
    BY <1>1, <1>2, StepKinds, TypecheckEdges, MakeEdges, CleanUpEdges

LoadsBegin ==
    \E s \in Sources : LoadCode(s) \/ \E imps \in SUBSET UsableModules : LoadExpr(s, imps)

\* So the imports of a unit that is to be typechecked are there.
LEMMA ImportsThere ==
    ASSUME TypeInv, ProgressInv, ResolvedOK, EdgesLive, [CompilerNext]_compilerVars,
           panic # "import gone"
    PROVE  panic' # "import gone"
<1>1. CASE TypecheckModule
  <2>1. loads # << >> /\ Top.phase = "typecheck"
      BY <1>1, TypecheckEffect
  <2>2. ~ImportGone(Top.imports)
      BY <2>1, TopLemmas DEF ProgressInv, FrameOK, ImportGone
  <2>3. QED
      BY <1>1, <2>2, TypecheckEffect
<1>2. CASE MakeInstance
  <2>1. loads # << >> /\ Top.phase = "instances"
      BY <1>2, MakeEffect
  <2>2. ASSUME NEW ref \in Top.refs PROVE ~ImportGone(InstanceDependencies(ref))
    <3>1. ref[1][1] \in DOMAIN types /\ UnitsReferenced(ref[2]) \subseteq DOMAIN types
        BY <2>1, CurrentReference
    <3>2. GetImports(ref[1][1]) \subseteq DOMAIN types
        BY <3>1 DEF EdgesLive, GetImports
    <3>3. QED
        BY <3>1, <3>2 DEF InstanceDependencies, ImportGone
  <2>3. QED
      BY <1>2, <2>2, MakeEffect DEF Panic, InstanceBegun
<1>3. CASE LoadsBegin
    BY <1>3 DEF LoadsBegin, LoadCode, LoadExpr, Panic, hostVars
<1>4. CASE ~(TypecheckModule \/ MakeInstance \/ LoadsBegin)
    BY <1>4 DEF CompilerNext, Request, CompilerStep, Rest, LoadsBegin,
        Unload, UnloadDependents, Parse, ParseError, Structure, StageError, ReuseInstance,
        NextInQueue, StartComponents, FindComponents, OrderComponents, Generate, Execute,
        CleanUp, Complete, Panic, hostVars, compilerVars
<1>5. QED
    BY <1>1, <1>2, <1>3, <1>4

-----------------------------------------------------------------------------
(*****************************************************************************)
(* The references of young units get their instances.                        *)
(*****************************************************************************)

\* The reference of u has its instance, and u imports it.
Instanced(u, ref) == ref \in DOMAIN polyInstances /\ <<u, polyInstances[ref]>> \in imports

\* So have all references of the units the search queue has been through, and
\* of its first unit all but those still to be looked at.
InstancedOK ==
    /\ Making /\ Top.phase = "instances" =>
          /\ \A u \in Elements(Top.new) \ Elements(Top.queue) :
                \A ref \in mappings[u].poly : Instanced(u, ref)
          /\ \A ref \in mappings[Top.queue[1]].poly \ Top.refs : Instanced(Top.queue[1], ref)
    /\ Making /\ Top.phase \in {"components", "generate"} =>
          \A u \in Elements(Top.new) : \A ref \in mappings[u].poly : Instanced(u, ref)

LEMMA OtherPhaseInstanced ==
    ASSUME Making' => Top'.phase \notin {"instances", "components", "generate"}
    PROVE  InstancedOK'
    BY DEF InstancedOK

LEMMA StutterInstanced ==
    ASSUME InstancedOK, UNCHANGED <<storeVars, loads>>
    PROVE  InstancedOK'
<1>1. Making' = Making /\ Top' = Top
    BY YoungStutter
<1>2. UNCHANGED <<mappings, polyInstances, imports>>
    BY DEF storeVars
<1>3. QED
    BY <1>1, <1>2 DEF InstancedOK, Instanced

LEMMA TypecheckInstanced ==
    ASSUME TypeInv, ProgressInv, InstancedOK, TypecheckModule
    PROVE  InstancedOK'
<1>1. CASE Panic("import gone")
    BY <1>1, StutterInstanced DEF Panic
<1>2. CASE ~Panic("import gone")
  <2>1. /\ loads # << >> /\ Top.phase = "typecheck" /\ Top'.new = Top.new
        /\ \/ Top'.phase = "failed"
           \/ /\ Top'.phase = "instances" /\ Top'.queue = <<Top.unit>>
              /\ mappings' = Extend(mappings, Top.unit, ModuleMapping)
              /\ Top'.refs = ModuleMapping.poly
      BY <1>2, TypecheckEffect
  <2>2. CASE Top'.phase = "failed"
      BY <2>2, OtherPhaseInstanced
  <2>3. CASE /\ Top'.phase = "instances" /\ Top'.queue = <<Top.unit>>
             /\ mappings' = Extend(mappings, Top.unit, ModuleMapping)
             /\ Top'.refs = ModuleMapping.poly
    <3>1. FrameOK(Top) /\ Top.new \in Seq(Nat)
        BY <2>1, TopLemmas, StageLemma DEF ProgressInv
    <3>2. Len(Top.new) = 1 /\ Top.new[1] = Top.unit
        BY <2>1, <3>1 DEF FrameOK
    <3>3. Elements(Top'.new) \subseteq Elements(Top'.queue)
      <4>1. Elements(Top.new) = {Top.unit} /\ Elements(<<Top.unit>>) = {Top.unit}
          BY <3>1, <3>2 DEF Elements, Image
      <4>2. QED
          BY <2>1, <2>3, <4>1
    <3>4. mappings'[Top'.queue[1]].poly \subseteq Top'.refs
        BY <2>3 DEF Extend
    <3>5. QED
        BY <2>3, <3>3, <3>4 DEF InstancedOK
  <2>4. QED
      BY <2>1, <2>2, <2>3
<1>3. QED
    BY <1>1, <1>2

LEMMA ReuseInstanced ==
    ASSUME TypeInv, ProgressInv, InstancedOK, ReuseInstance
    PROVE  InstancedOK'
<1>1. /\ loads # << >> /\ Top.phase = "instances" /\ UNCHANGED <<mappings, polyInstances>>
    BY ReuseEffect
<1>2. PICK ref \in DOMAIN polyInstances :
        /\ imports' = imports \cup {<<Top.queue[1], polyInstances[ref]>>}
        /\ Top'.new = Top.new /\ Top'.phase = "instances" /\ Top'.queue = Top.queue
        /\ Top'.refs = Top.refs \ {ref}
    BY ReuseEffect
<1>3. Making
    BY <1>1 DEF Making
<1>4. QED
    BY <1>1, <1>2, <1>3 DEF InstancedOK, Instanced

LEMMA MakeInstanced ==
    ASSUME TypeInv, ProgressInv, InstancedOK, MakeInstance
    PROVE  InstancedOK'
<1>1. loads # << >> /\ Top.phase = "instances" /\ Making
    BY MakeEffect DEF Making
<1>2. PICK ref :
        \/ UNCHANGED <<storeVars, loads>>
        \/ /\ InstanceBegun(ref, uids + 1)
           /\ InstanceFailed(ref, uids + 1) \/ InstanceMade(ref, uids + 1)
    BY MakeEffect DEF Panic
<1>3. CASE UNCHANGED <<storeVars, loads>>
    BY <1>3, StutterInstanced
<1>4. CASE InstanceFailed(ref, uids + 1)
    BY <1>4, OtherPhaseInstanced DEF InstanceFailed
<1>5. CASE InstanceBegun(ref, uids + 1) /\ InstanceMade(ref, uids + 1)
  <2>1. PICK v : v = uids + 1
      OBVIOUS
  <2>2. /\ Top'.new = Append(Top.new, v) /\ ref \notin DOMAIN polyInstances
        /\ {<<Top.queue[1], v>>} \cup imports \subseteq imports'
        /\ Top'.phase = "instances" /\ Top'.queue = Append(Top.queue, v)
        /\ Top'.refs = Top.refs \ {ref}
        /\ mappings' = Extend(mappings, v, InstanceMapping(ref, v))
        /\ polyInstances' = Extend(polyInstances, ref, v)
      BY <1>5, <2>1 DEF InstanceBegun, InstanceMade
  <2>3. /\ DOMAIN names \subseteq 0 .. uids /\ uids \in Nat /\ Top.queue \in Seq(Nat)
        /\ Top.queue # << >> /\ FrameOK(Top) /\ Top.new \in Seq(Nat)
      BY <1>1, TopLemmas, StageLemma DEF ProgressInv, FramesOK
  <2>4. v \in Nat /\ v \notin DOMAIN mappings
      BY <2>1, <2>3 DEF ProgressInv, EntriesOK
  <2>5. /\ Elements(Top'.new) = Elements(Top.new) \cup {v}
        /\ Elements(Top'.queue) = Elements(Top.queue) \cup {v}
        /\ Top.queue[1] \in Elements(Top.queue) /\ Elements(Top.queue) \subseteq Elements(Top.new)
        /\ Elements(Top.new) \subseteq DOMAIN mappings
    <3>1. Elements(Top'.new) = Elements(Top.new) \cup {v}
        BY <2>2, <2>3, <2>4, ElementsLemma
    <3>2. Elements(Top'.queue) = Elements(Top.queue) \cup {v}
        BY <2>2, <2>3, <2>4, ElementsLemma
    <3>3. Top.queue[1] \in Elements(Top.queue)
        BY <2>3, ElementsLemma
    <3>4. Elements(Top.queue) \subseteq Elements(Top.new) /\ Elements(Top.new) \subseteq DOMAIN mappings
        BY <1>1, <2>3 DEF FrameOK, Checked
    <3>5. QED
        BY <3>1, <3>2, <3>3, <3>4
  <2>6. Top'.queue[1] = Top.queue[1]
      BY <2>2, <2>3, <2>4
  <2>7. \A u \in Elements(Top.new) : mappings'[u] = mappings[u]
      BY <2>2, <2>4, <2>5 DEF Extend
  <2>8. /\ \A k \in DOMAIN polyInstances :
              k \in DOMAIN polyInstances' /\ polyInstances'[k] = polyInstances[k]
        /\ ref \in DOMAIN polyInstances' /\ polyInstances'[ref] = v
      BY <2>2 DEF Extend
  <2>9. \A u, k : Instanced(u, k) => k \in DOMAIN polyInstances' /\ <<u, polyInstances'[k]>> \in imports'
      BY <2>2, <2>8 DEF Instanced
  <2>10. \A u \in Elements(Top'.new) \ Elements(Top'.queue) :
            \A k \in mappings'[u].poly : k \in DOMAIN polyInstances' /\ <<u, polyInstances'[k]>> \in imports'
      BY <1>1, <2>5, <2>7, <2>9 DEF InstancedOK
  <2>11. \A k \in mappings'[Top'.queue[1]].poly \ Top'.refs :
            k \in DOMAIN polyInstances' /\ <<Top.queue[1], polyInstances'[k]>> \in imports'
    <3>1. mappings'[Top'.queue[1]] = mappings[Top.queue[1]]
        BY <2>5, <2>6, <2>7
    <3>2. \A k \in mappings[Top.queue[1]].poly \ Top.refs : Instanced(Top.queue[1], k)
        BY <1>1 DEF InstancedOK
    <3>3. QED
        BY <2>2, <2>8, <2>9, <3>1, <3>2
  <2>12. QED
      BY <2>2, <2>6, <2>10, <2>11 DEF InstancedOK, Instanced
<1>6. QED
    BY <1>2, <1>3, <1>4, <1>5

LEMMA NextInstanced ==
    ASSUME TypeInv, ProgressInv, InstancedOK, NextInQueue
    PROVE  InstancedOK'
<1>1. /\ loads # << >> /\ Top.phase = "instances" /\ UNCHANGED storeVars
      /\ Top.refs = {} /\ Top.queue \in Seq(Nat) /\ Len(Top.queue) > 1
      /\ Top'.new = Top.new /\ Top'.phase = "instances" /\ Top'.queue = Tail(Top.queue)
      /\ Top'.refs = mappings[Top.queue[2]].poly
    BY NextEffect
<1>2. Making /\ Top.queue # << >>
    BY <1>1 DEF Making
<1>3. Elements(Top.queue) = {Top.queue[1]} \cup Elements(Tail(Top.queue))
    BY <1>1, <1>2, ElementsLemma
<1>4. Top'.queue[1] = Top.queue[2]
  <2>1. /\ Len(Tail(Top.queue)) = Len(Top.queue) - 1
        /\ \A i \in 1 .. Len(Tail(Top.queue)) : Tail(Top.queue)[i] = Top.queue[i + 1]
      BY <1>1, <1>2, TailLemma
  <2>2. 1 \in 1 .. Len(Tail(Top.queue)) /\ 1 + 1 = 2
      BY <1>1, <2>1
  <2>3. QED
      BY <1>1, <2>1, <2>2
<1>5. UNCHANGED <<mappings, polyInstances, imports>>
    BY <1>1 DEF storeVars
<1>6. \A u \in Elements(Top.new) \ Elements(Tail(Top.queue)) :
         \A ref \in mappings[u].poly : Instanced(u, ref)
    BY <1>1, <1>2, <1>3 DEF InstancedOK
<1>7. QED
    BY <1>1, <1>4, <1>5, <1>6 DEF InstancedOK, Instanced

LEMMA StartInstanced ==
    ASSUME TypeInv, ProgressInv, InstancedOK, StartComponents
    PROVE  InstancedOK'
<1>1. /\ loads # << >> /\ Top.phase = "instances" /\ UNCHANGED storeVars
      /\ Top.refs = {} /\ Len(Top.queue) = 1
      /\ Top'.new = Top.new /\ Top'.phase = "components"
    BY StartComponentsProgress
<1>2. Making /\ Top.queue \in Seq(Nat)
    BY <1>1, StageLemma DEF Making
<1>3. Elements(Top.queue) = {Top.queue[1]}
    BY <1>1, <1>2 DEF Elements, Image
<1>4. UNCHANGED <<mappings, polyInstances, imports>>
    BY <1>1 DEF storeVars
<1>5. \A u \in Elements(Top.new) : \A ref \in mappings[u].poly : Instanced(u, ref)
    BY <1>1, <1>2, <1>3 DEF InstancedOK
<1>6. QED
    BY <1>1, <1>4, <1>5 DEF InstancedOK, Instanced

\* From the components to the generated code.
LEMMA LaterInstanced ==
    ASSUME InstancedOK, Making, Top.phase \in {"components", "generate"},
           Top'.phase \notin {"instances"}, Top'.new = Top.new,
           UNCHANGED <<mappings, polyInstances, imports>>
    PROVE  InstancedOK'
    BY DEF InstancedOK, Instanced

LEMMA NextKeepsInstanced ==
    ASSUME TypeInv, ProgressInv, InstancedOK, [CompilerNext]_compilerVars
    PROVE  InstancedOK'
<1>1. ASSUME UNCHANGED <<storeVars, loads>> PROVE InstancedOK'
    BY <1>1, StutterInstanced
<1>2. ASSUME NEW s \in Sources,
             LoadCode(s) \/ \E imps \in SUBSET UsableModules : LoadExpr(s, imps)
      PROVE  InstancedOK'
  <2>1. CASE NewLoad(s)
    <3>1. Top'.phase \in {"parse", "structure"}
        BY <2>1 DEF NewLoad
    <3>2. QED
        BY <3>1, OtherPhaseInstanced
  <2>2. QED
      BY <1>1, <1>2, <2>1, NewLoadEffect
<1>3. ASSUME NEW u \in UsableModules, Unload(u) \/ UnloadDependents(u)
      PROVE  InstancedOK'
  <2>1. ~Making'
      BY <1>3, UnloadEffect, YoungStutter DEF Making
  <2>2. QED
      BY <2>1, OtherPhaseInstanced
<1>4. CASE ParseError \/ Complete \/ CleanUp
  <2>1. ~Making'
      BY <1>4, YoungGone DEF ParseError, Complete, CleanUp, UserCode, At
  <2>2. QED
      BY <2>1, OtherPhaseInstanced
<1>5. CASE UNCHANGED compilerVars
    BY <1>1, <1>5 DEF compilerVars
<1>6. CASE Parse \/ Structure \/ StageError \/ Execute
  <2>1. PICK phase \in {"structure", "typecheck", "failed", "run"} :
          GoTo(phase) /\ loads # << >>
      BY <1>6 DEF Parse, Structure, StageError, Execute, At
  <2>2. Top'.phase = phase
      BY <2>1, GoToEffect DEF Phases, TypeInv, CompilerTypeOK
  <2>3. QED
      BY <2>1, <2>2, OtherPhaseInstanced
<1>7. CASE OrderComponents
  <2>1. CASE Panic("graph contained cycles!")
      BY <1>1, <2>1 DEF Panic
  <2>2. CASE ~Panic("graph contained cycles!")
      BY <1>7, <2>2, OrderEffect, LaterInstanced DEF ProgressInv, storeVars, Making
  <2>3. QED
      BY <2>1, <2>2
<1>8. CASE Generate
  <2>1. CASE Panic("code gone")
      BY <1>1, <2>1 DEF Panic
  <2>2. CASE ~Panic("code gone")
      BY <1>8, <2>2, GenerateEffect, LaterInstanced DEF Making
  <2>3. QED
      BY <2>1, <2>2
<1>9. CASE FindComponents
    BY <1>1, <1>9 DEF FindComponents
<1>10. QED
    BY <1>2, <1>3, <1>4, <1>5, <1>6, <1>7, <1>8, <1>9, TypecheckInstanced, ReuseInstanced,
       MakeInstanced, NextInstanced, StartInstanced
    DEF CompilerNext, Request, CompilerStep, Rest

-----------------------------------------------------------------------------
(*****************************************************************************)
(* The groups that units are generated in.                                   *)
(*****************************************************************************)

\* A unit is in the group it was generated with, together with the other units
\* of the group.  The groups of a load in progress are complete and have their
\* code, those of older units have no young unit in them.
GroupsOK ==
    /\ \A u \in DOMAIN codegenMapping :
          /\ u \in codegenMapping[u] /\ codegenMapping[u] \subseteq 0 .. uids
          /\ \A w \in codegenMapping[u] :
                w \in DOMAIN codegenMapping => codegenMapping[w] = codegenMapping[u]
          /\ u \in Young => /\ codegenMapping[u] \subseteq Young \cap DOMAIN codegenMapping
                            /\ codegenMapping[u] \in llvmUnits
          /\ u \notin Young => codegenMapping[u] \cap Young = {}
    /\ Making /\ Top.phase \notin {"generate", "failed"} =>
          DOMAIN codegenMapping \cap Young = {}
    /\ Making /\ Top.phase = "generate" =>
          /\ \A g \in Top.groups : g \cap DOMAIN codegenMapping = {}
          /\ \A g, h \in Top.groups : g # h => g \cap h = {}

LEMMA UidsGrow ==
    ASSUME uids \in Nat, uids' = uids \/ uids' = uids + 1
    PROVE  (0 .. uids) \subseteq 0 .. uids'
<1>1. CASE uids' = uids
    BY <1>1
<1>2. CASE uids' = uids + 1
    BY <1>2
<1>3. QED
    BY <1>1, <1>2

\* A stage before the code is generated, or the one that fails.
StageKeepsGroups ==
    /\ Making /\ Making' /\ Top'.unit = Top.unit
    /\ uids' = uids \/ uids' = uids + 1
    /\ UNCHANGED <<codegenMapping, llvmUnits>>
    /\ Top.phase # "failed" /\ Top'.phase # "generate"
    /\ Top.phase = "generate" => Top'.phase = "failed"

LEMMA StageGroups ==
    ASSUME TypeInv, GroupsOK, StageKeepsGroups
    PROVE  GroupsOK'
<1>1. Young' = Young
    BY YoungSame DEF StageKeepsGroups
<1>2. uids \in Nat /\ (0 .. uids) \subseteq 0 .. uids'
    BY UidsGrow DEF StageKeepsGroups, TypeInv, CompilerTypeOK, StoreTypeOK
<1>3. ASSUME NEW u \in DOMAIN codegenMapping
      PROVE  /\ u \in codegenMapping[u] /\ codegenMapping[u] \subseteq 0 .. uids'
             /\ \A w \in codegenMapping[u] :
                   w \in DOMAIN codegenMapping => codegenMapping[w] = codegenMapping[u]
             /\ u \in Young => /\ codegenMapping[u] \subseteq Young \cap DOMAIN codegenMapping
                               /\ codegenMapping[u] \in llvmUnits
             /\ u \notin Young => codegenMapping[u] \cap Young = {}
    BY <1>2 DEF GroupsOK
<1>4. Top'.phase # "failed" => DOMAIN codegenMapping \cap Young = {}
    BY DEF GroupsOK, StageKeepsGroups
<1>5. QED
    BY <1>1, <1>3, <1>4 DEF GroupsOK, StageKeepsGroups

LEMMA StutterGroups ==
    ASSUME GroupsOK, UNCHANGED <<storeVars, loads>>
    PROVE  GroupsOK'
<1>1. Young' = Young /\ Making' = Making /\ Top' = Top
    BY YoungStutter
<1>2. UNCHANGED <<uids, codegenMapping, llvmUnits>>
    BY DEF storeVars
<1>3. QED
    BY <1>1, <1>2 DEF GroupsOK

\* No load makes units after the step, and some are removed at most.
LEMMA QuietGroups ==
    ASSUME GroupsOK, ~Making', UNCHANGED uids,
           DOMAIN codegenMapping' \subseteq DOMAIN codegenMapping,
           \A u \in DOMAIN codegenMapping' : codegenMapping'[u] = codegenMapping[u]
    PROVE  GroupsOK'
<1>1. Young' = {}
    BY DEF Young
<1>2. QED
    BY <1>1 DEF GroupsOK

LEMMA NewLoadGroups ==
    ASSUME TypeInv, ProgressInv, GroupsOK, NEW s, NewLoad(s)
    PROVE  GroupsOK'
<1>1. /\ uids \in Nat /\ uids' = uids + 1 /\ DOMAIN codegenMapping \subseteq 0 .. uids
      /\ UNCHANGED <<codegenMapping, llvmUnits>> /\ Top'.phase # "generate"
    BY DEF TypeInv, CompilerTypeOK, StoreTypeOK, ProgressInv, EntriesOK, NewLoad
<1>2. (0 .. uids) \subseteq 0 .. uids'
    BY <1>1, UidsGrow
<1>3. \A u \in 0 .. uids : u \notin Young'
    BY YoungWhenNew
<1>4. ASSUME NEW u \in DOMAIN codegenMapping
      PROVE  /\ u \in codegenMapping[u] /\ codegenMapping[u] \subseteq 0 .. uids
             /\ \A w \in codegenMapping[u] :
                   w \in DOMAIN codegenMapping => codegenMapping[w] = codegenMapping[u]
    BY DEF GroupsOK
<1>5. QED
    BY <1>1, <1>2, <1>3, <1>4 DEF GroupsOK

LEMMA OrderGroups ==
    ASSUME TypeInv, ProgressInv, GroupsOK, OrderComponents
    PROVE  GroupsOK'
<1>1. loads # << >> /\ Top.phase = "components" /\ loads \in Seq(Frames)
    BY OrderEffect DEF ProgressInv
<1>2. CASE Panic("graph contained cycles!")
    BY <1>2, StutterGroups DEF Panic
<1>3. CASE ~Panic("graph contained cycles!")
  <2>1. /\ Top'.unit = Top.unit /\ Top'.new = Top.new /\ Top'.phase = "generate"
        /\ UNION Top'.groups = Elements(Top.new)
        /\ \A g, h \in Top'.groups : g # h => g \cap h = {}
        /\ \E frame : SetTop(frame) /\ frame.unit = Top.unit
        /\ UNCHANGED storeVars
      BY <1>3, OrderEffect DEF ProgressInv
  <2>2. loads' # << >>
      BY <1>1, <2>1, SetTopEffect
  <2>3. Making /\ Making' /\ Young' = Young
      BY <1>1, <2>1, <2>2, YoungSame DEF Making
  <2>4. Elements(Top.new) \subseteq Young
      BY <2>3, NewAreYoung DEF ProgressInv
  <2>5. DOMAIN codegenMapping \cap Young = {}
      BY <1>1, <2>3 DEF GroupsOK
  <2>6. \A g \in Top'.groups : g \cap DOMAIN codegenMapping = {}
      BY <2>1, <2>4, <2>5
  <2>7. UNCHANGED <<uids, codegenMapping, llvmUnits>>
      BY <2>1 DEF storeVars
  <2>8. QED
      BY <2>1, <2>3, <2>6, <2>7 DEF GroupsOK
<1>4. QED
    BY <1>2, <1>3

LEMMA GenerateGroups ==
    ASSUME TypeInv, ProgressInv, GroupsOK, Generate
    PROVE  GroupsOK'
<1>1. loads # << >> /\ Top.phase = "generate" /\ loads \in Seq(Frames)
    BY GenerateEffect
<1>2. CASE Panic("code gone")
    BY <1>2, StutterGroups DEF Panic
<1>3. CASE ~Panic("code gone")
  <2>1. PICK group \in Top.groups :
          /\ codegenMapping' = [u \in DOMAIN codegenMapping \cup group |->
                                  IF u \in group THEN group ELSE codegenMapping[u]]
          /\ llvmUnits' = llvmUnits \cup {group}
          /\ Top'.unit = Top.unit /\ Top'.phase = "generate"
          /\ Top'.groups = Top.groups \ {group}
          /\ \E frame : SetTop(frame) /\ frame.unit = Top.unit
          /\ UNCHANGED uids
      BY <1>3, GenerateEffect
  <2>2. loads' # << >>
      BY <1>1, <2>1, SetTopEffect
  <2>3. Making /\ Making' /\ Young' = Young
      BY <1>1, <2>1, <2>2, YoungSame DEF Making
  <2>4. Elements(Top.new) \subseteq Young
      BY <2>3, NewAreYoung DEF ProgressInv
  <2>5. group \subseteq Elements(Top.new) /\ Elements(Top.new) \subseteq 0 .. uids
      BY <1>1, TopLemmas DEF ProgressInv, FrameOK
  <2>6. group \subseteq Young /\ group \subseteq 0 .. uids /\ group \cap DOMAIN codegenMapping = {}
      BY <1>1, <2>3, <2>4, <2>5 DEF GroupsOK
  <2>7. /\ DOMAIN codegenMapping' = DOMAIN codegenMapping \cup group
        /\ \A u \in group : codegenMapping'[u] = group
        /\ \A u \in DOMAIN codegenMapping : codegenMapping'[u] = codegenMapping[u]
      BY <2>1, <2>6
  <2>8. \A u \in DOMAIN codegenMapping : codegenMapping[u] \cap group = {}
      BY <2>6 DEF GroupsOK
  <2>9. ASSUME NEW u \in DOMAIN codegenMapping'
        PROVE  /\ u \in codegenMapping'[u] /\ codegenMapping'[u] \subseteq 0 .. uids
               /\ \A w \in codegenMapping'[u] :
                     w \in DOMAIN codegenMapping' => codegenMapping'[w] = codegenMapping'[u]
               /\ u \in Young => /\ codegenMapping'[u] \subseteq Young \cap DOMAIN codegenMapping'
                                 /\ codegenMapping'[u] \in llvmUnits'
               /\ u \notin Young => codegenMapping'[u] \cap Young = {}
    <3>1. CASE u \in group
        BY <2>1, <2>6, <2>7, <3>1
    <3>2. CASE u \in DOMAIN codegenMapping
      <4>1. /\ u \in codegenMapping[u] /\ codegenMapping[u] \subseteq 0 .. uids
            /\ \A w \in codegenMapping[u] :
                  w \in DOMAIN codegenMapping => codegenMapping[w] = codegenMapping[u]
            /\ u \in Young => /\ codegenMapping[u] \subseteq Young \cap DOMAIN codegenMapping
                              /\ codegenMapping[u] \in llvmUnits
            /\ u \notin Young => codegenMapping[u] \cap Young = {}
          BY <3>2 DEF GroupsOK
      <4>2. QED
          BY <2>1, <2>7, <2>8, <3>2, <4>1
    <3>3. QED
        BY <2>7, <3>1, <3>2
  <2>10. /\ \A g \in Top.groups : g \cap DOMAIN codegenMapping = {}
         /\ \A g, h \in Top.groups : g # h => g \cap h = {}
      BY <1>1, <2>3 DEF GroupsOK
  <2>11. /\ \A g \in Top'.groups : g \cap DOMAIN codegenMapping' = {}
         /\ \A g, h \in Top'.groups : g # h => g \cap h = {}
      BY <2>1, <2>7, <2>10
  <2>12. Top'.phase = "generate"
      BY <2>1
  <2>13. /\ Making' /\ Top'.phase \notin {"generate", "failed"} =>
                DOMAIN codegenMapping' \cap Young' = {}
         /\ Making' /\ Top'.phase = "generate" =>
                /\ \A g \in Top'.groups : g \cap DOMAIN codegenMapping' = {}
                /\ \A g, h \in Top'.groups : g # h => g \cap h = {}
      BY <2>11, <2>12
  <2>14. uids' = uids
      BY <2>1
  <2>15. QED
      BY <2>3, <2>9, <2>13, <2>14 DEF GroupsOK
<1>4. QED
    BY <1>2, <1>3

LEMMA NextKeepsGroups ==
    ASSUME TypeInv, ProgressInv, GroupsOK, [CompilerNext]_compilerVars
    PROVE  GroupsOK'
<1>1. ASSUME UNCHANGED <<storeVars, loads>> PROVE GroupsOK'
    BY <1>1, StutterGroups
<1>2. ASSUME NEW s \in Sources,
             LoadCode(s) \/ \E imps \in SUBSET UsableModules : LoadExpr(s, imps)
      PROVE  GroupsOK'
    BY <1>1, <1>2, NewLoadEffect, NewLoadGroups
<1>3. ASSUME NEW S, RemoveUnits(S), ~Making' PROVE GroupsOK'
    BY <1>3, QuietGroups DEF RemoveUnits, Without
<1>4. ASSUME NEW u \in UsableModules, Unload(u) \/ UnloadDependents(u)
      PROVE  GroupsOK'
  <2>1. ~Making'
      BY <1>4, UnloadEffect, YoungStutter DEF Making
  <2>2. QED
      BY <1>3, <1>4, <2>1, UnloadEffect
<1>5. CASE CleanUp
  <2>1. ~Making'
      BY <1>5, YoungGone DEF CleanUp, At
  <2>2. QED
      BY <1>3, <1>5, <2>1 DEF CleanUp
<1>6. CASE ParseError \/ Complete
  <2>1. ~Making'
      BY <1>6, YoungGone DEF ParseError, Complete, UserCode, At
  <2>2. QED
      BY <1>6, <2>1, QuietGroups DEF ParseError, Complete, storeVars
<1>7. CASE UNCHANGED compilerVars
    BY <1>1, <1>7 DEF compilerVars
<1>8. CASE OrderComponents \/ Generate
    BY <1>8, OrderGroups, GenerateGroups
<1>9. CASE FindComponents
    BY <1>1, <1>9 DEF FindComponents
<1>10. CASE Advance /\ ~(OrderComponents \/ Generate \/ FindComponents)
  <2>1. /\ loads # << >> /\ loads \in Seq(Frames) /\ Top.phase # "run" /\ Making
        /\ \/ UNCHANGED <<storeVars, loads>>
           \/ \E frame : SetTop(frame) /\ frame.unit = Top.unit
      BY <1>10, AdvanceEffect DEF Making
  <2>2. CASE UNCHANGED <<storeVars, loads>>
      BY <1>1, <2>2
  <2>3. CASE ~UNCHANGED <<storeVars, loads>>
    <3>1. loads' # << >> /\ Top'.unit = Top.unit
        BY <2>1, <2>3, SetTopEffect
    <3>2. CASE Parse \/ Structure \/ StageError \/ Execute
      <4>1. PICK phase \in {"structure", "typecheck", "failed", "run"} :
              /\ GoTo(phase) /\ UNCHANGED <<uids, codegenMapping, llvmUnits>>
              /\ Top.phase # "failed"
              /\ Top.phase = "generate" => phase \in {"failed", "run"}
          BY <3>2 DEF Parse, Structure, StageError, Execute, At, storeVars
      <4>2. Top'.phase = phase
          BY <2>1, <4>1, GoToEffect DEF Phases
      <4>3. CASE phase = "run"
        <5>1. ~Making'
            BY <4>2, <4>3 DEF Making
        <5>2. QED
            BY <4>1, <5>1, QuietGroups
      <4>4. CASE phase # "run"
          BY <2>1, <3>1, <4>1, <4>2, <4>4, StageGroups DEF StageKeepsGroups, Making
      <4>5. QED
          BY <4>3, <4>4
    <3>3. CASE TypecheckModule
      <4>1. ~Panic("import gone")
          BY <2>3 DEF Panic
      <4>2. /\ Top.phase = "typecheck" /\ Top'.phase \in {"failed", "instances"}
            /\ UNCHANGED <<uids, codegenMapping, llvmUnits>>
          BY <3>3, <4>1, TypecheckEffect
      <4>3. QED
          BY <2>1, <3>1, <4>2, StageGroups DEF StageKeepsGroups, Making
    <3>4. CASE ReuseInstance \/ NextInQueue \/ StartComponents
      <4>1. /\ Top.phase = "instances" /\ Top'.phase \in {"instances", "components"}
            /\ UNCHANGED <<uids, codegenMapping, llvmUnits>>
          BY <3>4, ReuseEffect, NextEffect, StartComponentsProgress DEF storeVars
      <4>2. QED
          BY <2>1, <3>1, <4>1, StageGroups DEF StageKeepsGroups, Making
    <3>5. CASE MakeInstance
      <4>1. PICK ref : /\ InstanceBegun(ref, uids + 1)
                       /\ InstanceFailed(ref, uids + 1) \/ InstanceMade(ref, uids + 1)
          BY <2>3, <3>5, MakeEffect DEF Panic
      <4>2. /\ uids' = uids + 1 /\ UNCHANGED <<codegenMapping, llvmUnits>>
            /\ Top'.phase \in {"failed", "instances"}
          BY <4>1 DEF InstanceBegun, InstanceFailed, InstanceMade
      <4>3. Top.phase = "instances"
          BY <3>5, MakeEffect
      <4>4. QED
          BY <2>1, <3>1, <4>2, <4>3, StageGroups DEF StageKeepsGroups, Making
    <3>6. QED
        BY <1>10, <3>2, <3>3, <3>4, <3>5 DEF Advance
  <2>4. QED
      BY <2>2, <2>3
<1>11. QED
    BY <1>2, <1>4, <1>5, <1>6, <1>7, <1>8, <1>9, <1>10
    DEF CompilerNext, Request, CompilerStep, Rest, Advance

-----------------------------------------------------------------------------
(*****************************************************************************)
(* Units that no load is working on are whole.                               *)
(*****************************************************************************)

\* The unit has gone through every stage.
WholeUnit(u) ==
    /\ u \in DOMAIN types /\ u \in DOMAIN mappings /\ u \in DOMAIN codegenMapping
    /\ u \in DOMAIN polyParents \/ (u \in vals /\ u \in nodes)

WholeInv ==
    \A u \in DOMAIN names :
        u \in InProgress \/ u \in Unparsed \/ u = Intrinsics \/ WholeUnit(u)

LEMMA InProgressLemma ==
    ASSUME loads \in Seq(Frames)
    PROVE  \A u : u \in InProgress <=> \E i \in 1 .. Len(loads) : u \in Elements(loads[i].new)
    BY DEF InProgress

LEMMA InProgressPrimed ==
    ASSUME loads' \in Seq(Frames)
    PROVE  \A u : u \in InProgress' <=> \E i \in 1 .. Len(loads') : u \in Elements(loads'[i].new)
    BY DEF InProgress, Elements, Image

\* Nothing is lost, and what is new is of a load in progress.
LEMMA GrowthWhole ==
    ASSUME WholeInv, Grows, vals \subseteq vals',
           \A u \in DOMAIN names' : u \in DOMAIN names \/ u \in InProgress',
           \A u \in InProgress : u \in InProgress' \/ u \in Unparsed' \/ WholeUnit(u)',
           \A u \in Unparsed : u \in Unparsed' \/ u \in InProgress'
    PROVE  WholeInv'
    BY DEF WholeInv, WholeUnit, Grows

LEMMA RemovalWhole ==
    ASSUME WholeInv, NEW S, RemoveUnits(S),
           \A u \in InProgress : u \in InProgress' \/ u \in S
    PROVE  WholeInv'
<1>1. /\ DOMAIN names' = DOMAIN names \ S /\ DOMAIN exprs' = DOMAIN exprs \ S
      /\ nodes' = nodes \ S /\ DOMAIN types' = DOMAIN types \ S /\ vals' = vals \ S
      /\ DOMAIN mappings' = DOMAIN mappings \ S /\ code' = code
      /\ DOMAIN polyParents' = DOMAIN polyParents \ S
      /\ DOMAIN codegenMapping' = DOMAIN codegenMapping \ S
    BY DEF RemoveUnits, Without
<1>2. QED
    BY <1>1 DEF WholeInv, WholeUnit, Unparsed

LEMMA NewLoadWhole ==
    ASSUME TypeInv, TypeInv', WholeInv, NEW s, NewLoad(s)
    PROVE  WholeInv'
<1>1. loads \in Seq(Frames) /\ loads' \in Seq(Frames)
    BY DEF TypeInv, CompilerTypeOK
<1>2. PICK frame : /\ loads' = Append(loads, frame) /\ frame.new = <<uids + 1>>
                   /\ frame \in Frames
    BY DEF NewLoad
<1>3. /\ Len(loads') = Len(loads) + 1 /\ loads'[Len(loads) + 1] = frame /\ Len(loads) \in Nat
      /\ \A i \in 1 .. Len(loads) : i \in 1 .. Len(loads') /\ loads'[i] = loads[i]
    BY <1>1, <1>2
<1>4. InProgress \subseteq InProgress'
    BY <1>1, <1>3, InProgressLemma, InProgressPrimed
<1>5. uids + 1 \in InProgress'
  <2>1. uids + 1 \in Elements(frame.new) /\ Len(loads) + 1 \in 1 .. Len(loads')
      BY <1>2, <1>3 DEF Elements, Image
  <2>2. QED
      BY <1>1, <1>3, <2>1, InProgressPrimed
<1>6. DOMAIN names' = DOMAIN names \cup {uids + 1}
    BY DEF NewLoad
<1>7. /\ DOMAIN exprs' = DOMAIN exprs \/ DOMAIN exprs' = DOMAIN exprs \cup {uids + 1}
      /\ code \subseteq code'
    BY DEF NewLoad, Extend
<1>8. Grows /\ UNCHANGED vals
    BY <1>6, <1>7 DEF Grows, NewLoad
<1>9. \A u \in Unparsed : u \in Unparsed' \/ u \in InProgress'
    BY <1>5, <1>7 DEF Unparsed
<1>10. QED
    BY <1>4, <1>5, <1>6, <1>8, <1>9, GrowthWhole

\* What a stage adds is of its own load.
StageGrows ==
    /\ Grows /\ UNCHANGED vals /\ UNCHANGED code
    /\ Elements(Top.new) \subseteq Elements(Top'.new)
    /\ DOMAIN names' \subseteq DOMAIN names \cup Elements(Top'.new)
    /\ DOMAIN exprs' \subseteq DOMAIN exprs \cup {Top.unit}

LEMMA AdvanceGrows ==
    ASSUME TypeInv, ProgressInv, Advance, ~UNCHANGED <<storeVars, loads>>
    PROVE  StageGrows
<1>1. loads # << >> /\ loads \in Seq(Frames)
    BY AdvanceEffect
<1>2. ASSUME UNCHANGED <<names, code, exprs, nodes, vals, types, mappings, codegenMapping,
                         polyParents>>, Top'.new = Top.new
      PROVE  StageGrows
    BY <1>2 DEF StageGrows, Grows
<1>3. CASE Parse \/ Structure \/ StageError \/ Execute
  <2>1. PICK phase \in {"structure", "typecheck", "failed", "run"} : GoTo(phase)
      BY <1>3 DEF Parse, Structure, StageError, Execute
  <2>2. Top'.new = Top.new
      BY <1>1, <2>1, GoToEffect DEF Phases
  <2>3. /\ UNCHANGED <<names, code, vals, types, mappings, codegenMapping, polyParents>>
        /\ nodes \subseteq nodes'
        /\ UNCHANGED exprs \/ exprs' = Extend(exprs, Top.unit, Top.source)
      BY <1>3 DEF Parse, Structure, StageError, Execute, storeVars
  <2>4. /\ DOMAIN exprs \subseteq DOMAIN exprs'
        /\ DOMAIN exprs' \subseteq DOMAIN exprs \cup {Top.unit}
      BY <2>3 DEF Extend
  <2>5. QED
      BY <2>2, <2>3, <2>4 DEF StageGrows, Grows
<1>4. CASE TypecheckModule
  <2>1. ~Panic("import gone")
      BY DEF Panic
  <2>2. /\ UNCHANGED <<names, code, exprs, nodes, vals, codegenMapping, polyParents>>
        /\ Top'.new = Top.new
        /\ types' = Extend(types, Top.unit, ModuleInfo(Top.source))
        /\ UNCHANGED mappings \/ mappings' = Extend(mappings, Top.unit, ModuleMapping)
      BY <1>4, <2>1, TypecheckEffect
  <2>3. QED
      BY <2>2 DEF StageGrows, Grows, Extend
<1>5. CASE ReuseInstance
  <2>1. UNCHANGED <<names, code, exprs, nodes, vals, types, mappings, codegenMapping, polyParents>>
      BY <1>5, ReuseEffect
  <2>2. Top'.new = Top.new
      BY <1>5, ReuseEffect
  <2>3. QED
      BY <1>2, <2>1, <2>2
<1>6. CASE NextInQueue \/ StartComponents
    BY <1>2, <1>6, NextEffect, StartComponentsProgress DEF storeVars
<1>7. CASE OrderComponents
  <2>1. ~Panic("graph contained cycles!")
      BY DEF Panic
  <2>2. QED
      BY <1>2, <1>7, <2>1, OrderEffect DEF storeVars, ProgressInv
<1>8. CASE Generate
  <2>1. ~Panic("code gone")
      BY DEF Panic
  <2>2. PICK group :
        /\ codegenMapping' = [u \in DOMAIN codegenMapping \cup group |->
                                IF u \in group THEN group ELSE codegenMapping[u]]
        /\ Top'.new = Top.new
        /\ UNCHANGED <<names, code, exprs, nodes, vals, types, mappings, polyParents>>
      BY <1>8, <2>1, GenerateEffect
  <2>3. DOMAIN codegenMapping \subseteq DOMAIN codegenMapping'
      BY <2>2
  <2>4. QED
      BY <2>2, <2>3 DEF StageGrows, Grows
<1>9. CASE MakeInstance
  <2>1. PICK ref : /\ InstanceBegun(ref, uids + 1)
                   /\ InstanceFailed(ref, uids + 1) \/ InstanceMade(ref, uids + 1)
      BY <1>9, MakeEffect DEF Panic
  <2>2. /\ DOMAIN names' = DOMAIN names \cup {uids + 1} /\ Top'.new = Append(Top.new, uids + 1)
        /\ DOMAIN types \subseteq DOMAIN types'
        /\ UNCHANGED <<code, exprs, nodes, vals, codegenMapping>>
      BY <2>1 DEF InstanceBegun, Extend
  <2>3. DOMAIN mappings \subseteq DOMAIN mappings' /\ DOMAIN polyParents \subseteq DOMAIN polyParents'
      BY <2>1 DEF InstanceFailed, InstanceMade, Extend
  <2>4. Elements(Top'.new) = Elements(Top.new) \cup {uids + 1}
    <3>1. uids + 1 \in Nat /\ Top.new \in Seq(Nat)
        BY <1>1, StageLemma DEF StoreTypeOK
    <3>2. QED
        BY <2>2, <3>1, ElementsLemma
  <2>5. QED
      BY <2>2, <2>3, <2>4 DEF StageGrows, Grows
<1>10. CASE FindComponents
    BY <1>10 DEF FindComponents
<1>11. QED
    BY <1>3, <1>4, <1>5, <1>6, <1>7, <1>8, <1>9, <1>10 DEF Advance

LEMMA StageWhole ==
    ASSUME TypeInv, TypeInv', ProgressInv, WholeInv, StageGrows,
           loads # << >>, NEW frame, SetTop(frame)
    PROVE  WholeInv'
<1>1. loads \in Seq(Frames) /\ loads' \in Seq(Frames)
    BY DEF TypeInv, CompilerTypeOK
<1>2. /\ Len(loads') = Len(loads) /\ Len(loads) \in 1 .. Len(loads)
      /\ Top' = loads'[Len(loads)]
      /\ \A i \in 1 .. Len(loads) : i # Len(loads) => loads'[i] = loads[i]
    BY <1>1, SetTopEffect, TopLemma
<1>3. Elements(Top'.new) \subseteq InProgress'
    BY <1>1, <1>2, InProgressPrimed
<1>4. ASSUME NEW u \in InProgress PROVE u \in InProgress'
  <2>1. PICK i \in 1 .. Len(loads) : u \in Elements(loads[i].new)
      BY <1>1, InProgressLemma
  <2>2. CASE i = Len(loads)
      BY <1>3, <2>1, <2>2 DEF StageGrows, Top
  <2>3. CASE i # Len(loads)
      BY <1>1, <1>2, <2>1, <2>3, InProgressPrimed
  <2>4. QED
      BY <2>2, <2>3
<1>5. Top.unit \in InProgress'
    BY <1>3, TopLemmas DEF ProgressInv, StageGrows
<1>6. \A u \in Unparsed : u \in Unparsed' \/ u \in InProgress'
    BY <1>5 DEF Unparsed, StageGrows
<1>7. Grows /\ vals \subseteq vals'
    BY DEF StageGrows
<1>8. \A u \in DOMAIN names' : u \in DOMAIN names \/ u \in InProgress'
    BY <1>3 DEF StageGrows
<1>9. QED
    BY <1>4, <1>6, <1>7, <1>8, GrowthWhole

LEMMA StutterWhole ==
    ASSUME WholeInv, UNCHANGED <<storeVars, loads>>
    PROVE  WholeInv'
<1>1. /\ UNCHANGED <<names, code, exprs, nodes, types, mappings, codegenMapping, vals, polyParents>>
      /\ InProgress' = InProgress
    BY DEF storeVars, InProgress, Elements, Image
<1>2. QED
    BY <1>1 DEF WholeInv, WholeUnit, Unparsed

\* What is in progress after the end of the innermost load.
LEMMA ReturnedInProgress ==
    ASSUME TypeInv, TypeInv', loads # << >>, Return
    PROVE  \A u \in InProgress : u \in InProgress' \/ u \in Elements(Top.new)
<1>1. loads \in Seq(Frames) /\ loads' \in Seq(Frames)
    BY DEF TypeInv, CompilerTypeOK
<1>2. /\ Len(loads) \in Nat \ {0} /\ Len(loads') = Len(loads) - 1
      /\ \A i \in 1 .. Len(loads') : loads'[i] = loads[i]
    BY <1>1, ReturnEffect
<1>3. ASSUME NEW u \in InProgress PROVE u \in InProgress' \/ u \in Elements(Top.new)
  <2>1. PICK i \in 1 .. Len(loads) : u \in Elements(loads[i].new)
      BY <1>1, InProgressLemma
  <2>2. CASE i = Len(loads)
      BY <2>1, <2>2 DEF Top
  <2>3. CASE i # Len(loads)
    <3>1. i \in 1 .. Len(loads')
        BY <1>2, <2>3
    <3>2. QED
        BY <1>1, <1>2, <2>1, <3>1, InProgressPrimed
  <2>4. QED
      BY <2>2, <2>3
<1>4. QED
    BY <1>3

LEMMA NextKeepsWhole ==
    ASSUME TypeInv, TypeInv', ProgressInv, WholeInv, [CompilerNext]_compilerVars
    PROVE  WholeInv'
<1>1. ASSUME UNCHANGED <<storeVars, loads>> PROVE WholeInv'
    BY <1>1, StutterWhole
<1>2. ASSUME NEW s \in Sources,
             LoadCode(s) \/ \E imps \in SUBSET UsableModules : LoadExpr(s, imps)
      PROVE  WholeInv'
    BY <1>1, <1>2, NewLoadEffect, NewLoadWhole
<1>3. ASSUME NEW u \in UsableModules, Unload(u) \/ UnloadDependents(u)
      PROVE  WholeInv'
  <2>1. PICK S : RemoveUnits(S)
      BY <1>3, UnloadEffect
  <2>2. InProgress' = InProgress
      BY <1>3, UnloadEffect DEF InProgress, Elements, Image
  <2>3. QED
      BY <2>1, <2>2, RemovalWhole
<1>4. CASE CleanUp
  <2>1. loads # << >> /\ Return /\ RemoveUnits(Elements(Top.new))
      BY <1>4 DEF CleanUp, At
  <2>2. QED
      BY <2>1, ReturnedInProgress, RemovalWhole
<1>5. CASE ParseError
  <2>1. loads # << >> /\ Return /\ UNCHANGED storeVars /\ Top.phase = "parse"
      BY <1>5 DEF ParseError, At
  <2>2. FrameOK(Top) /\ Top.new \in Seq(Nat)
      BY <2>1, TopLemmas, StageLemma DEF ProgressInv
  <2>3. Elements(Top.new) = {Top.unit} /\ Top.unit \in code \ DOMAIN exprs
      BY <2>1, <2>2 DEF FrameOK, Elements, Image
  <2>4. Unparsed' = Unparsed /\ Top.unit \in Unparsed
      BY <2>1, <2>3 DEF Unparsed, storeVars
  <2>5. Grows /\ UNCHANGED vals /\ UNCHANGED names
      BY <2>1 DEF Grows, storeVars
  <2>6. \A u \in InProgress : u \in InProgress' \/ u \in Unparsed'
      BY <2>1, <2>3, <2>4, ReturnedInProgress
  <2>7. QED
      BY <2>4, <2>5, <2>6, GrowthWhole
<1>6. CASE Complete
  <2>1. /\ loads # << >> /\ Return /\ Top.phase = "run" /\ vals' = vals \cup {Top.unit}
        /\ UNCHANGED <<names, code, exprs, nodes, types, mappings, codegenMapping, polyParents>>
      BY <1>6 DEF Complete, UserCode, At
  <2>2. FrameOK(Top)
      BY <2>1, TopLemmas DEF ProgressInv
  <2>3. \A u \in Elements(Top.new) : WholeUnit(u)'
      BY <2>1, <2>2 DEF FrameOK, Checked, WholeUnit
  <2>4. Unparsed' = Unparsed
      BY <2>1 DEF Unparsed
  <2>5. Grows /\ vals \subseteq vals'
      BY <2>1 DEF Grows
  <2>6. \A u \in InProgress : u \in InProgress' \/ WholeUnit(u)'
      BY <2>1, <2>3, ReturnedInProgress DEF WholeUnit
  <2>7. QED
      BY <2>1, <2>4, <2>5, <2>6, GrowthWhole DEF WholeUnit
<1>7. CASE UNCHANGED compilerVars
    BY <1>1, <1>7 DEF compilerVars
<1>8. CASE Advance
    BY <1>1, <1>8, AdvanceEffect, AdvanceGrows, StageWhole
<1>9. QED
    BY <1>2, <1>3, <1>4, <1>5, <1>6, <1>7, <1>8
    DEF CompilerNext, Request, CompilerStep, Rest, Advance

-----------------------------------------------------------------------------
(*****************************************************************************)
(* The invariant, and what follows from it however modules are unloaded.     *)
(*****************************************************************************)

UnitsInv ==
    /\ ProgressInv /\ OlderInv /\ YoungOK /\ ResolvedOK /\ InstancesOK /\ InstancedOK
    /\ GroupsOK /\ WholeInv

LEMMA InitUnits == CompilerInit => UnitsInv /\ EdgesLive /\ panic # "import gone"
<1> SUFFICES ASSUME CompilerInit PROVE UnitsInv /\ EdgesLive /\ panic # "import gone"
    OBVIOUS
<1>1. /\ DOMAIN names = {0} /\ imports = {} /\ loads = << >> /\ panic = "none"
      /\ DOMAIN mappings = {} /\ DOMAIN codegenMapping = {} /\ DOMAIN polyInstances = {}
      /\ DOMAIN types = {0} /\ types[0].generics = {}
    BY DEF CompilerInit, EmptyMap, Intrinsics, IntrinsicsInfo, Running
<1>2. ~Making /\ Young = {}
    BY <1>1 DEF Making, Young
<1>3. YoungOK /\ ResolvedOK /\ InstancedOK /\ GroupsOK
    BY <1>1, <1>2 DEF YoungOK, ResolvedOK, InstancedOK, GroupsOK
<1>4. InstancesOK /\ WholeInv /\ EdgesLive
    BY <1>1 DEF InstancesOK, WholeInv, EdgesLive, Intrinsics
<1>5. QED
    BY <1>1, <1>3, <1>4, InitProgress DEF UnitsInv

\* The invariant holds however modules are unloaded.
THEOREM UnitsInvariant == CompilerSpec => []UnitsInv
<1>1. CompilerInit => UnitsInv
    BY InitUnits
<1>2. /\ TypeInv /\ TypeInv' /\ PolyInv /\ UnitsInv /\ [CompilerNext]_compilerVars
      => UnitsInv'
    BY NextKeepsProgress, NextKeepsYoung, NextKeepsResolved, NextKeepsInstances,
       NextKeepsInstanced, NextKeepsGroups, NextKeepsWhole DEF UnitsInv
<1>3. QED
    BY <1>1, <1>2, TypeInvariant, PolyInvariant, PTL DEF CompilerSpec

-----------------------------------------------------------------------------

LEMMA LinksLemma ==
    ASSUME TypeInv, PolyInv, UnitsInv
    PROVE  LinkedAfterGenerated
<1> SUFFICES ASSUME At("generate"), NEW group \in Top.groups, Ready(group),
                    NEW t \in LinkTargets(group)
             PROVE  t \in DOMAIN codegenMapping
    BY DEF LinkedAfterGenerated
<1>1. loads # << >> /\ Top.phase = "generate" /\ Making
    BY DEF At, Making
<1>2. /\ FrameOK(Top) /\ loads \in Seq(Frames)
    BY <1>1, TopLemmas DEF UnitsInv, ProgressInv
<1>3. PICK u \in group : t \in mappings[u].direct \cup Image(polyInstances, mappings[u].poly)
    BY DEF LinkTargets
<1>4. t \notin group
    BY DEF LinkTargets
<1>5. u \in Elements(Top.new) /\ u \in DOMAIN mappings
    BY <1>1, <1>2, <1>3 DEF FrameOK, Checked
<1>6. u \in Young
    BY <1>1, <1>5, NewAreYoung DEF UnitsInv, ProgressInv
<1>7. t \in DOMAIN types /\ t # Intrinsics /\ <<u, t>> \in imports
  <2>1. CASE t \in mappings[u].direct
      BY <1>3, <1>4, <1>5, <1>6, <2>1 DEF UnitsInv, ResolvedOK, Resolved
  <2>2. CASE t \in Image(polyInstances, mappings[u].poly)
    <3>1. PICK ref \in mappings[u].poly : t = polyInstances[ref]
        BY <2>2 DEF Image
    <3>2. ref \in DOMAIN polyInstances /\ <<u, t>> \in imports
        BY <1>1, <1>5, <3>1 DEF UnitsInv, InstancedOK, Instanced
    <3>3. t \in DOMAIN types /\ types[t].instances # {}
        BY <3>1, <3>2 DEF PolyInv, PolyTablesAgree
    <3>4. QED
        BY <3>2, <3>3 DEF UnitsInv, ProgressInv, EntriesOK, IntrinsicsInfo
  <2>3. QED
      BY <1>3, <2>1, <2>2
<1>8. CASE t \in Elements(Top.new)
  <2>1. t \in DOMAIN codegenMapping \/ t \in UNION Top.groups
      BY <1>1, <1>2, <1>8 DEF FrameOK
  <2>2. ASSUME NEW other \in Top.groups, t \in other PROVE FALSE
      BY <1>3, <1>4, <1>7, <2>2 DEF Ready
  <2>3. QED
      BY <2>1, <2>2
<1>9. CASE t \notin Elements(Top.new)
  <2>1. t \in DOMAIN names /\ t \notin Unparsed
      BY <1>7 DEF UnitsInv, ProgressInv, EntriesOK, Unparsed
  <2>2. CASE t \in InProgress
    <3>1. PICK i \in 1 .. Len(loads) : t \in Elements(loads[i].new)
        BY <1>2, <2>2, InProgressLemma
    <3>2. i # Len(loads)
        BY <1>9, <3>1 DEF Top
    <3>3. FrameOK(loads[i]) /\ loads[i].phase = "run"
        BY <3>2 DEF TypeInv, FramesOK, UnitsInv, ProgressInv, LoadsOK
    <3>4. QED
        BY <3>1, <3>3 DEF FrameOK
  <2>3. CASE t \notin InProgress
      BY <1>7, <2>1, <2>3 DEF UnitsInv, WholeInv, WholeUnit
  <2>4. QED
      BY <2>2, <2>3
<1>10. QED
    BY <1>8, <1>9

\* Code is never linked to a unit whose turn to be generated has not come: what
\* a unit refers to it imports, what it imports is older and whole or of the
\* same load, and there the order of the groups follows the imports
\* (compiler.rs:215-257).
THEOREM LinksAreToGeneratedCode == CompilerSpec => []LinkedAfterGenerated
<1>1. TypeInv /\ PolyInv /\ UnitsInv => LinkedAfterGenerated
    BY LinksLemma
<1>2. QED
    BY <1>1, TypeInvariant, PolyInvariant, UnitsInvariant, PTL

-----------------------------------------------------------------------------

LEMMA OnlyCleanUp ==
    ASSUME At("failed"), CompilerNext
    PROVE  CleanUp
<1>1. loads # << >> /\ Top.phase = "failed" /\ panic = Running
    BY DEF At
<1>2. ~Request /\ ~Complete /\ ~Rest
    BY <1>1 DEF Request, LoadCode, LoadExpr, Unload, UnloadDependents, Idle, UserCode, At,
                Complete, Rest
<1>3. ~Advance /\ ~ParseError
    BY <1>1 DEF Advance, ParseError, Parse, Structure, StageError, TypecheckModule,
                ReuseInstance, MakeInstance, NextInQueue, StartComponents, FindComponents,
                OrderComponents, Generate, Execute, At
<1>4. QED
    BY <1>2, <1>3 DEF CompilerNext, CompilerStep, Advance

Mine == {u \in DOMAIN names : u >= Top.unit}

LEMMA FailedUnits ==
    ASSUME TypeInv, UnitsInv, loads # << >>, Top.phase = "failed"
    PROVE  Mine = Elements(Top.new) /\ \A u \in DOMAIN names \ Mine : u \notin Young
<1>1. Making
    BY DEF Making
<1>2. /\ Elements(Top.new) \subseteq DOMAIN names
      /\ \A u \in Elements(Top.new) : Top.unit <= u
      /\ DOMAIN names \subseteq 0 .. uids /\ uids \in Nat /\ Top.unit \in Nat
    BY TopLemmas DEF UnitsInv, ProgressInv
<1>3. Young = {u \in Nat : u >= Top.unit}
    BY <1>1 DEF Young
<1>4. \A u \in DOMAIN names : u \in Young <=> u >= Top.unit
    BY <1>2, <1>3
<1>5. DOMAIN names \cap Young \subseteq Elements(Top.new)
    BY <1>1 DEF UnitsInv, YoungOK
<1>6. \A u \in Elements(Top.new) : u >= Top.unit
    BY <1>2
<1>7. QED
    BY <1>2, <1>4, <1>5, <1>6 DEF Mine

LEMMA CleanUpLemma ==
    ASSUME TypeInv, PolyInv, UnitsInv, CleanUp
    PROVE  /\ DOMAIN names' = DOMAIN names \ Mine
           /\ types' = Without(types, Mine)
           /\ mappings' = Without(mappings, Mine)
           /\ \A u \in DOMAIN names \ Mine : HasLlvmUnit(u)' <=> HasLlvmUnit(u)
           /\ \A k \in DOMAIN polyInstances :
                 k \in DOMAIN polyInstances' <=> polyInstances[k] \notin Mine
           /\ \A u \in DOMAIN names \ Mine : u \in vals' <=> u \in vals
<1>1. loads # << >> /\ Top.phase = "failed" /\ RemoveUnits(Elements(Top.new)) /\ Making
    BY DEF CleanUp, At, Making
<1>2. Mine = Elements(Top.new) /\ \A u \in DOMAIN names \ Mine : u \notin Young
    BY <1>1, FailedUnits
<1>3. RemoveUnits(Mine)
    BY <1>1, <1>2
<1>4. Mine \subseteq Young
    BY <1>1, <1>2, NewAreYoung DEF UnitsInv, ProgressInv
<1>5. PICK S : S = Mine
    OBVIOUS
<1>6. RemoveUnits(S)
    BY <1>3, <1>5
<1>7. /\ DOMAIN names' = DOMAIN names \ S /\ types' = Without(types, S)
      /\ mappings' = Without(mappings, S) /\ vals' = vals \ S
    BY <1>6 DEF RemoveUnits, Without
<1>8. \A k \in DOMAIN polyInstances :
         k \in DOMAIN polyInstances' <=> polyInstances[k] \notin S
    BY <1>6 DEF RemoveUnits, Without, PolyInv, PolyTablesAgree
<1>9. ASSUME NEW u \in DOMAIN names \ S
      PROVE  HasLlvmUnit(u)' <=> HasLlvmUnit(u)
  <2>1. /\ DOMAIN codegenMapping' = DOMAIN codegenMapping \ S
        /\ u \in DOMAIN codegenMapping => codegenMapping'[u] = codegenMapping[u]
        /\ llvmUnits' = llvmUnits \ {codegenMapping[w] : w \in S \cap DOMAIN codegenMapping}
      BY <1>6 DEF RemoveUnits, Without
  <2>2. ASSUME u \in DOMAIN codegenMapping, NEW w \in S \cap DOMAIN codegenMapping,
               codegenMapping[u] = codegenMapping[w]
        PROVE  FALSE
    <3>1. w \in codegenMapping[w] /\ w \in Young
        BY <1>4, <1>5, <2>2 DEF UnitsInv, GroupsOK
    <3>2. u \notin Young
        BY <1>2, <1>5
    <3>3. codegenMapping[u] \cap Young = {}
        BY <2>2, <3>2 DEF UnitsInv, GroupsOK
    <3>4. QED
        BY <2>2, <3>1, <3>3
  <2>3. QED
      BY <2>1, <2>2 DEF HasLlvmUnit
<1>10. QED
    BY <1>5, <1>7, <1>8, <1>9 DEF HasLlvmUnit

\* A failed load is undone completely, and nothing else: the units named since
\* it began are its new units, and no older unit shares code with them
\* (compiler.rs:120-130, code_store.rs:63-80).
THEOREM FailuresAreUndone == CompilerSpec => FailureLeavesOthersAlone
<1> DEFINE Undone ==
        At("failed") =>
          LET mine == {u \in DOMAIN names : u >= Top.unit}
          IN  /\ DOMAIN names' = DOMAIN names \ mine
              /\ types' = Without(types, mine)
              /\ mappings' = Without(mappings, mine)
              /\ \A u \in DOMAIN names' : HasLlvmUnit(u)' <=> HasLlvmUnit(u)
              /\ \A k \in DOMAIN polyInstances :
                    k \in DOMAIN polyInstances' <=> polyInstances[k] \notin mine
              /\ \A u \in DOMAIN names' : u \in vals' <=> u \in vals
<1>1. ASSUME TypeInv, PolyInv, UnitsInv, [CompilerNext]_compilerVars
      PROVE  [Undone]_compilerVars
  <2>1. SUFFICES ASSUME CompilerNext, At("failed") PROVE Undone
      BY <1>1
  <2>2. CleanUp
      BY <2>1, OnlyCleanUp
  <2>3. /\ DOMAIN names' = DOMAIN names \ Mine
        /\ types' = Without(types, Mine)
        /\ mappings' = Without(mappings, Mine)
        /\ \A u \in DOMAIN names \ Mine : HasLlvmUnit(u)' <=> HasLlvmUnit(u)
        /\ \A k \in DOMAIN polyInstances :
              k \in DOMAIN polyInstances' <=> polyInstances[k] \notin Mine
        /\ \A u \in DOMAIN names \ Mine : u \in vals' <=> u \in vals
      BY <1>1, <2>2, CleanUpLemma
  <2>4. QED
      BY <2>3 DEF Mine, HasLlvmUnit
<1> HIDE DEF Undone
<1>2. CompilerSpec => [][Undone]_compilerVars
    BY <1>1, TypeInvariant, PolyInvariant, UnitsInvariant, PTL DEF CompilerSpec
<1>3. QED
    BY <1>2, PTL DEF FailureLeavesOthersAlone, Undone

-----------------------------------------------------------------------------
(*****************************************************************************)
(* What holds if modules are unloaded with their dependents.                 *)
(*****************************************************************************)

\* Unloading with dependents only, as code/tetris/loader.code does.
DependentsOnly == "single" \notin UnloadKinds

EdgesInv == EdgesLive /\ panic # "import gone"

\* What a loaded unit imports is loaded, and typechecking never looks for a unit
\* that is gone (constraints.rs:776-779).
THEOREM EdgesInvariant ==
    ASSUME DependentsOnly
    PROVE  CompilerSpec => []EdgesInv
<1>1. CompilerInit => EdgesInv
    BY InitUnits DEF EdgesInv
<1>2. TypeInv /\ PolyInv /\ UnitsInv /\ EdgesInv /\ [CompilerNext]_compilerVars => EdgesInv'
    BY NextKeepsEdges, ImportsThere DEF UnitsInv, DependentsOnly, EdgesInv
<1>3. QED
    BY <1>1, <1>2, TypeInvariant, PolyInvariant, UnitsInvariant, PTL DEF CompilerSpec

\* With unloading by dependents nothing that is loaded imports a unit that is
\* gone, and neither do the modules of the interpreter (compiler.rs:76-90).
THEOREM ImportsDoNotDangle ==
    ASSUME DependentsOnly
    PROVE  CompilerSpec => []NoDanglingImport
<1>1. UnitsInv /\ EdgesInv => NoDanglingImport
    BY DEF UnitsInv, EdgesInv, ProgressInv, EntriesOK, EdgesLive, NoDanglingImport
<1>2. QED
    BY <1>1, UnitsInvariant, EdgesInvariant, PTL

LEMMA LiveInstances ==
    ASSUME PolyInv, UnitsInv, EdgesLive
    PROVE  InstancesAreOfLiveCode
<1> SUFFICES ASSUME NEW k \in DOMAIN polyInstances
             PROVE  k[1][1] \in nodes /\ UnitsReferenced(k[2]) \subseteq DOMAIN types
    BY DEF InstancesAreOfLiveCode
<1>1. polyInstances[k] \in DOMAIN types
    BY DEF PolyInv, PolyTablesAgree
<1>2. QED
    BY <1>1 DEF UnitsInv, InstancesOK, EdgesLive

\* With unloading by dependents an instance goes with its generic function and
\* with the types it is made for, as it imports the units of both
\* (compiler.rs:155-158, 168-180).
THEOREM InstancesOutliveNothing ==
    ASSUME DependentsOnly
    PROVE  CompilerSpec => []InstancesAreOfLiveCode
<1>1. PolyInv /\ UnitsInv /\ EdgesInv => InstancesAreOfLiveCode
    BY LiveInstances DEF EdgesInv
<1>2. QED
    BY <1>1, PolyInvariant, UnitsInvariant, EdgesInvariant, PTL

LEMMA WholeUnits ==
    ASSUME PolyInv, UnitsInv, InstancesAreOfLiveCode
    PROVE  LoadedUnitsAreWhole
<1> SUFFICES ASSUME NEW u \in DOMAIN names \ (InProgress \cup Unparsed \cup {Intrinsics})
             PROVE  /\ u \in DOMAIN types /\ u \in DOMAIN mappings
                    /\ u \in DOMAIN codegenMapping
                    /\ HasNodes(u)
                    /\ u \in DOMAIN polyParents \/ u \in vals
    BY DEF LoadedUnitsAreWhole
<1>1. WholeUnit(u)
    BY DEF UnitsInv, WholeInv
<1>2. ASSUME u \in DOMAIN polyParents PROVE polyParents[u][1] \in nodes
    BY <1>2 DEF PolyInv, PolyTablesAgree, InstancesAreOfLiveCode
<1>3. QED
    BY <1>1, <1>2 DEF WholeUnit, HasNodes

\* With unloading by dependents what the tables are asked about a unit that no
\* load is working on is there, the nodes of an instance's parent included
\* (code_store.rs:82-111).
THEOREM UnitsAreWhole ==
    ASSUME DependentsOnly
    PROVE  CompilerSpec => []LoadedUnitsAreWhole
<1>1. PolyInv /\ UnitsInv /\ InstancesAreOfLiveCode => LoadedUnitsAreWhole
    BY WholeUnits
<1>2. QED
    BY <1>1, PolyInvariant, UnitsInvariant, InstancesOutliveNothing, PTL

-----------------------------------------------------------------------------
(*****************************************************************************)
(* What the loss of generated code takes.                                    *)
(*****************************************************************************)

\* What the search for dependents finds is in every set that has, with a unit,
\* all that import it.
SearchStays ==
    uids \in Nat =>
        \A u, C : u \in C /\ (\A e \in imports : e[2] \in C => e[1] \in C)
                     => FindAllDependents(u) \subseteq C

LEMMA SearchStaysNext == SearchStays'
<1>1. SearchStays
    BY FindsOnlyDependents DEF SearchStays
<1>2. QED
    BY <1>1, PTL

LEMMA SearchKept ==
    ASSUME uids' \in Nat, NEW u, NEW C, u \in C, \A e \in imports' : e[2] \in C => e[1] \in C
    PROVE  FindAllDependents(u)' \subseteq C
    BY SearchStaysNext DEF SearchStays

-----------------------------------------------------------------------------

\* No code is removed, and what is new is of units in the making: edges,
\* code, and membership in a group.
Builds ==
    /\ llvmUnits \subseteq llvmUnits'
    /\ DOMAIN codegenMapping \subseteq DOMAIN codegenMapping'
    /\ \A u \in DOMAIN codegenMapping' :
          \/ u \in DOMAIN codegenMapping /\ codegenMapping'[u] = codegenMapping[u]
          \/ u \in Young' /\ codegenMapping'[u] \in llvmUnits'
    /\ imports \subseteq imports'
    /\ \A e \in imports' : e \in imports \/ e[1] \in Young'

LEMMA QuietBuilds ==
    ASSUME UNCHANGED <<codegenMapping, llvmUnits>>, imports \subseteq imports',
           \A e \in imports' : e \in imports \/ e[1] \in Young'
    PROVE  Builds
    BY DEF Builds

LEMMA ParseBuilds ==
    ASSUME TypeInv, UnitsInv, Parse
    PROVE  Builds
<1>1. /\ loads # << >> /\ Top.phase = "parse" /\ Making /\ loads \in Seq(Frames)
      /\ imports' = imports \cup ({Top.unit} \X Top.imports)
      /\ UNCHANGED <<codegenMapping, llvmUnits>>
      /\ GoTo("structure") /\ "structure" \in Phases
    BY DEF Parse, At, Making, TypeInv, CompilerTypeOK, Phases
<1>2. Making' /\ Top'.unit = Top.unit
    BY <1>1, GoToEffect DEF Making
<1>3. Top.unit \in Young'
    BY <1>1, <1>2, YoungSame, NewAreYoung DEF UnitsInv, ProgressInv
<1>4. QED
    BY <1>1, <1>3, QuietBuilds

LEMMA ReuseBuilds ==
    ASSUME TypeInv, UnitsInv, ReuseInstance
    PROVE  Builds
<1>1. PICK ref \in Top.refs :
        /\ imports' = imports \cup {<<Top.queue[1], polyInstances[ref]>>}
        /\ Top'.unit = Top.unit /\ Top'.phase = "instances"
    BY ReuseEffect
<1>2. /\ loads # << >> /\ Top.phase = "instances" /\ UNCHANGED <<codegenMapping, llvmUnits>>
      /\ \E frame : SetTop(frame)
    BY ReuseEffect
<1>3. Making /\ Making'
    BY <1>1, <1>2, SetTopEffect DEF Making, TypeInv, CompilerTypeOK
<1>4. Top.queue[1] \in Young'
    BY <1>1, <1>2, <1>3, YoungSame, CurrentReference, NewAreYoung DEF UnitsInv, ProgressInv
<1>5. QED
    BY <1>1, <1>2, <1>4, QuietBuilds

LEMMA MakeBuilds ==
    ASSUME TypeInv, UnitsInv, MakeInstance
    PROVE  Builds
<1>1. loads # << >> /\ Top.phase = "instances" /\ Making
    BY MakeEffect DEF Making
<1>2. PICK ref \in Top.refs :
        \/ UNCHANGED storeVars
        \/ /\ InstanceBegun(ref, uids + 1)
           /\ InstanceFailed(ref, uids + 1) \/ InstanceMade(ref, uids + 1)
    BY MakeEffect DEF Panic
<1>3. CASE UNCHANGED storeVars
    BY <1>3, QuietBuilds DEF storeVars
<1>4. CASE /\ InstanceBegun(ref, uids + 1)
           /\ InstanceFailed(ref, uids + 1) \/ InstanceMade(ref, uids + 1)
  <2>1. UNCHANGED <<codegenMapping, llvmUnits>>
      BY <1>4 DEF InstanceBegun
  <2>2. /\ imports \subseteq imports'
        /\ imports' \subseteq imports \cup ({uids + 1} \X InstanceDependencies(ref))
                                      \cup {<<Top.queue[1], uids + 1>>}
      BY <1>4 DEF InstanceFailed, InstanceMade
  <2>3. Making' /\ Top'.unit = Top.unit
      BY <1>1, <1>4, SetTopEffect
         DEF InstanceBegun, InstanceFailed, InstanceMade, Making, TypeInv, CompilerTypeOK
  <2>4. {Top.queue[1], uids + 1} \subseteq Young'
      BY <1>1, <2>3, YoungSame, CurrentReference, NewAreYoung DEF UnitsInv, ProgressInv
  <2>5. QED
      BY <2>1, <2>2, <2>4, QuietBuilds
<1>5. QED
    BY <1>2, <1>3, <1>4

LEMMA GenerateBuilds ==
    ASSUME TypeInv, UnitsInv, Generate
    PROVE  Builds
<1>1. /\ loads # << >> /\ Top.phase = "generate" /\ Making /\ loads \in Seq(Frames)
    BY GenerateEffect DEF Making
<1>2. PICK group \in Top.groups :
        \/ UNCHANGED storeVars
        \/ /\ codegenMapping' = [u \in DOMAIN codegenMapping \cup group |->
                                   IF u \in group THEN group ELSE codegenMapping[u]]
           /\ llvmUnits' = llvmUnits \cup {group} /\ UNCHANGED imports
           /\ Top'.unit = Top.unit /\ Top'.phase = "generate" /\ \E frame : SetTop(frame)
    BY GenerateEffect DEF Panic
<1>3. CASE UNCHANGED storeVars
    BY <1>3, QuietBuilds DEF storeVars
<1>4. CASE /\ codegenMapping' = [u \in DOMAIN codegenMapping \cup group |->
                                   IF u \in group THEN group ELSE codegenMapping[u]]
           /\ llvmUnits' = llvmUnits \cup {group} /\ UNCHANGED imports
           /\ Top'.unit = Top.unit /\ Top'.phase = "generate" /\ \E frame : SetTop(frame)
  <2>1. Making'
      BY <1>1, <1>4, SetTopEffect DEF Making
  <2>2. group \subseteq Young'
      BY <1>1, <1>4, <2>1, YoungSame, TopLemmas, NewAreYoung DEF UnitsInv, ProgressInv, FrameOK
  <2>3. QED
      BY <1>4, <2>2 DEF Builds
<1>5. QED
    BY <1>2, <1>3, <1>4

LEMMA NewLoadBuilds ==
    ASSUME TypeInv, UnitsInv, NEW s, NewLoad(s)
    PROVE  Builds
<1>1. uids + 1 \in Young'
    BY YoungWhenNew
<1>2. QED
    BY <1>1, QuietBuilds DEF NewLoad

LEMMA BuildKinds ==
    ASSUME TypeInv, UnitsInv, [CompilerNext]_compilerVars
    PROVE  Builds \/ CleanUp \/ \E u \in UsableModules : Removing(u)
<1>1. CASE LoadsBegin
  <2>1. PICK s \in Sources : LoadCode(s) \/ \E imps \in SUBSET UsableModules : LoadExpr(s, imps)
      BY <1>1 DEF LoadsBegin
  <2>2. CASE UNCHANGED <<storeVars, loads, interpImports>>
      BY <2>2, QuietBuilds DEF storeVars
  <2>3. QED
      BY <2>1, <2>2, NewLoadEffect, NewLoadBuilds DEF UnitsInv
<1>2. CASE Parse \/ ReuseInstance \/ MakeInstance \/ Generate
    BY <1>2, ParseBuilds, ReuseBuilds, MakeBuilds, GenerateBuilds
<1>3. CASE \/ ParseError \/ Structure \/ StageError \/ TypecheckModule \/ NextInQueue
           \/ StartComponents \/ FindComponents \/ OrderComponents \/ Execute \/ Complete
  <2>1. UNCHANGED <<codegenMapping, llvmUnits, imports>>
      BY <1>3, TypecheckEffect
         DEF ParseError, Structure, StageError, NextInQueue, StartComponents,
             FindComponents, OrderComponents, Execute, Complete, Panic, storeVars
  <2>2. QED
      BY <2>1, QuietBuilds
<1>4. CASE UNCHANGED compilerVars
    BY <1>4, QuietBuilds DEF compilerVars, storeVars
<1>5. CASE \E u \in UsableModules :
              ("single" \in UnloadKinds /\ Unload(u)) \/ UnloadDependents(u)
    BY <1>5 DEF Removing
<1>6. Request => LoadsBegin \/ \E u \in UsableModules :
              ("single" \in UnloadKinds /\ Unload(u)) \/ UnloadDependents(u)
    BY DEF Request, LoadsBegin
<1>7. QED
    BY <1>1, <1>2, <1>3, <1>4, <1>5, <1>6 DEF CompilerNext, CompilerStep, Rest

-----------------------------------------------------------------------------

LEMMA BuildsLoseNothing ==
    ASSUME TypeInv, TypeInv', UnitsInv, UnitsInv', CodeLostOnlyByMisgrouping, Builds
    PROVE  CodeLostOnlyByMisgrouping'
<1> SUFFICES ASSUME NEW u \in DOMAIN codegenMapping', ~HasLlvmUnit(u)'
             PROVE  \E w \in codegenMapping'[u] : u \notin FindAllDependents(w)'
    BY DEF CodeLostOnlyByMisgrouping
<1>1. u \notin Young' /\ codegenMapping'[u] \notin llvmUnits'
    BY DEF HasLlvmUnit, UnitsInv, GroupsOK
<1>2. u \in DOMAIN codegenMapping /\ codegenMapping'[u] = codegenMapping[u] /\ ~HasLlvmUnit(u)
    BY <1>1 DEF Builds, HasLlvmUnit
<1>3. PICK w \in codegenMapping[u] : u \notin FindAllDependents(w)
    BY <1>2 DEF CodeLostOnlyByMisgrouping
<1>4. w \in 0 .. uids /\ uids \in Nat /\ uids' \in Nat
      /\ imports \subseteq (1 .. uids) \X (0 .. uids)
    BY <1>2 DEF UnitsInv, GroupsOK, ProgressInv, EntriesOK, TypeInv, CompilerTypeOK, StoreTypeOK
<1>5. PICK C : C = FindAllDependents(w) \cup Young'
    OBVIOUS
<1>6. w \in C /\ u \notin C
    BY <1>1, <1>3, <1>4, <1>5, FindsFirst
<1>7. \A e \in imports : e[2] \in FindAllDependents(w) => e[1] \in FindAllDependents(w)
    BY <1>4, FindsAllDependents
<1>8. \A e \in imports' : e[2] \in C => e[1] \in C
    BY <1>5, <1>7 DEF Builds, UnitsInv, YoungOK
<1>9. FindAllDependents(w)' \subseteq C
    BY <1>4, <1>6, <1>8, SearchKept
<1>10. QED
    BY <1>2, <1>6, <1>9

\* What a search finds does not grow unless edges do.
LEMMA SearchSame ==
    ASSUME TypeInv, TypeInv', ProgressInv, UNCHANGED imports, NEW w \in 0 .. uids
    PROVE  FindAllDependents(w)' \subseteq FindAllDependents(w)
<1>1. uids \in Nat /\ uids' \in Nat /\ imports \subseteq (1 .. uids) \X (0 .. uids)
    BY DEF ProgressInv, EntriesOK, TypeInv, CompilerTypeOK, StoreTypeOK
<1>2. PICK C : C = FindAllDependents(w)
    OBVIOUS
<1>3. w \in C /\ \A e \in imports' : e[2] \in C => e[1] \in C
    BY <1>1, <1>2, FindsFirst, FindsAllDependents
<1>4. QED
    BY <1>1, <1>2, <1>3, SearchKept

\* Whose code goes with that of another, unloaded unit does not depend on it,
\* or else it would be unloaded as well.
LEMMA RemovalLosesByMisgrouping ==
    ASSUME TypeInv, TypeInv', UnitsInv, CodeLostOnlyByMisgrouping,
           NEW S, RemoveUnits(S),
           \A u \in DOMAIN codegenMapping \ S : \A w \in S \cap DOMAIN codegenMapping :
              codegenMapping[u] = codegenMapping[w] => u \notin FindAllDependents(w)
    PROVE  CodeLostOnlyByMisgrouping'
<1> SUFFICES ASSUME NEW u \in DOMAIN codegenMapping', ~HasLlvmUnit(u)'
             PROVE  \E w \in codegenMapping'[u] : u \notin FindAllDependents(w)'
    BY DEF CodeLostOnlyByMisgrouping
<1>1. /\ u \in DOMAIN codegenMapping \ S /\ codegenMapping'[u] = codegenMapping[u]
      /\ llvmUnits' = llvmUnits \ {codegenMapping[w] : w \in S \cap DOMAIN codegenMapping}
      /\ UNCHANGED imports
    BY DEF RemoveUnits, Without
<1>2. \/ ~HasLlvmUnit(u)
      \/ \E w \in S \cap DOMAIN codegenMapping : codegenMapping[u] = codegenMapping[w]
    BY <1>1 DEF HasLlvmUnit
<1>3. PICK w \in codegenMapping[u] : u \notin FindAllDependents(w)
  <2>1. CASE ~HasLlvmUnit(u)
      BY <1>1, <2>1 DEF CodeLostOnlyByMisgrouping
  <2>2. ASSUME NEW w \in S \cap DOMAIN codegenMapping, codegenMapping[u] = codegenMapping[w]
        PROVE  w \in codegenMapping[u] /\ u \notin FindAllDependents(w)
      BY <1>1, <2>2 DEF UnitsInv, GroupsOK
  <2>3. QED
      BY <1>2, <2>1, <2>2
<1>4. w \in 0 .. uids
    BY <1>1 DEF UnitsInv, GroupsOK
<1>5. FindAllDependents(w)' \subseteq FindAllDependents(w)
    BY <1>1, <1>4, SearchSame DEF UnitsInv
<1>6. QED
    BY <1>1, <1>3, <1>5

LEMMA UnloadLosesByMisgrouping ==
    ASSUME TypeInv, TypeInv', UnitsInv, CodeLostOnlyByMisgrouping,
           NEW x \in UsableModules, UnloadDependents(x)
    PROVE  CodeLostOnlyByMisgrouping'
<1>1. x \in 0 .. uids /\ uids \in Nat /\ imports \subseteq (1 .. uids) \X (0 .. uids)
    BY UnloadEffect DEF TypeInv, CompilerTypeOK, StoreTypeOK, UnitsInv, ProgressInv, EntriesOK
<1>2. PICK S : S = FindAllDependents(x) /\ RemoveUnits(S)
    BY DEF UnloadDependents
<1>3. \A e \in imports : e[2] \in S => e[1] \in S
    BY <1>1, <1>2, FindsAllDependents
<1>4. ASSUME NEW u, NEW w \in S, u \notin S PROVE u \notin FindAllDependents(w)
    BY <1>1, <1>3, <1>4, FindsOnlyDependents
<1>5. QED
    BY <1>2, <1>4, RemovalLosesByMisgrouping

LEMMA CleanUpLosesNothing ==
    ASSUME TypeInv, TypeInv', PolyInv, UnitsInv, CodeLostOnlyByMisgrouping, CleanUp
    PROVE  CodeLostOnlyByMisgrouping'
<1>1. loads # << >> /\ Top.phase = "failed" /\ RemoveUnits(Elements(Top.new)) /\ Making
    BY DEF CleanUp, At, Making
<1>2. Mine = Elements(Top.new)
    BY <1>1, FailedUnits
<1>3. PICK S : S = Mine /\ RemoveUnits(S)
    BY <1>1, <1>2
<1>4. ASSUME NEW u \in DOMAIN codegenMapping \ S, NEW w \in S \cap DOMAIN codegenMapping,
             codegenMapping[u] = codegenMapping[w]
      PROVE  u \notin FindAllDependents(w)
  <2>1. w \in Young /\ u \in DOMAIN names \ Mine
      BY <1>1, <1>2, <1>3, NewAreYoung DEF UnitsInv, ProgressInv, EntriesOK
  <2>2. u \notin Young
      BY <1>1, <2>1, FailedUnits
  <2>3. w \in codegenMapping[w] /\ codegenMapping[u] \cap Young = {}
      BY <1>4, <2>2 DEF UnitsInv, GroupsOK
  <2>4. QED
      BY <1>4, <2>1, <2>3
<1>5. QED
    BY <1>3, <1>4, RemovalLosesByMisgrouping

\* With unloading by dependents a unit loses its code only if it was generated
\* with a unit it does not depend on (code_store.rs:70-73).
THEOREM OnlyMisgroupingLosesCode ==
    ASSUME DependentsOnly
    PROVE  CompilerSpec => []CodeLostOnlyByMisgrouping
<1>1. CompilerInit => CodeLostOnlyByMisgrouping
    BY DEF CompilerInit, EmptyMap, CodeLostOnlyByMisgrouping
<1>2. /\ TypeInv /\ TypeInv' /\ PolyInv /\ UnitsInv /\ UnitsInv'
      /\ CodeLostOnlyByMisgrouping /\ [CompilerNext]_compilerVars
      => CodeLostOnlyByMisgrouping'
    BY BuildKinds, BuildsLoseNothing, UnloadLosesByMisgrouping, CleanUpLosesNothing
       DEF Removing, DependentsOnly
<1>3. QED
    BY <1>1, <1>2, TypeInvariant, PolyInvariant, UnitsInvariant, PTL DEF CompilerSpec

-----------------------------------------------------------------------------
(*****************************************************************************)
(* The refinement: a load is one step of UnitTable, and so is its failure.   *)
(*****************************************************************************)

LEMMA InProgressFrames ==
    ASSUME TypeInv, UnitsInv
    PROVE  \A u \in InProgress : \E i \in 1 .. Len(loads) :
              /\ u \in Elements(loads[i].new) /\ FrameOK(loads[i])
              /\ i # Len(loads) => loads[i].phase = "run"
<1>1. loads \in Seq(Frames) /\ LoadsOK /\ FramesOK
    BY DEF TypeInv, CompilerTypeOK, UnitsInv, ProgressInv
<1>2. QED
    BY <1>1, InProgressLemma DEF LoadsOK, FramesOK

\* Those that can be referred to are the generated units that are not young.
LEMMA LiveLemma ==
    ASSUME TypeInv, UnitsInv
    PROVE  /\ LiveUnits = {Intrinsics} \cup (DOMAIN codegenMapping \ Young)
           /\ LiveUnits \subseteq 0 .. uids
           /\ LiveUnits \ {Intrinsics} \subseteq DOMAIN names
<1>1. loads \in Seq(Frames) /\ LoadsOK /\ FramesOK
    BY DEF TypeInv, CompilerTypeOK, UnitsInv, ProgressInv
<1>2. /\ DOMAIN codegenMapping \subseteq DOMAIN names /\ DOMAIN names \subseteq 0 .. uids
      /\ uids \in Nat
    BY DEF TypeInv, CompilerTypeOK, StoreTypeOK, UnitsInv, ProgressInv, EntriesOK
<1>3. PICK Unfinished :
        Unfinished = UNION {Elements(loads[i].new) :
                               i \in {i \in DOMAIN loads : loads[i].phase # "run"}}
    OBVIOUS
<1>4. LiveUnits = {Intrinsics} \cup (DOMAIN codegenMapping \ Unfinished)
    BY <1>3 DEF LiveUnits
<1>5. ASSUME Making PROVE DOMAIN codegenMapping \ Unfinished = DOMAIN codegenMapping \ Young
  <2>1. Len(loads) \in DOMAIN loads /\ Len(loads) \in 1 .. Len(loads) /\ Top.phase # "run"
      BY <1>1, <1>5, TopLemma DEF Making
  <2>2. \A i \in DOMAIN loads : loads[i].phase # "run" => i = Len(loads)
      BY <1>1 DEF FramesOK
  <2>3. Unfinished = Elements(Top.new)
      BY <1>3, <2>1, <2>2 DEF Top
  <2>4. Elements(Top.new) \subseteq Young /\ DOMAIN names \cap Young \subseteq Elements(Top.new)
      BY <1>1, <1>5, NewAreYoung DEF UnitsInv, YoungOK
  <2>5. QED
      BY <1>2, <2>3, <2>4
<1>6. ASSUME ~Making PROVE DOMAIN codegenMapping \ Unfinished = DOMAIN codegenMapping \ Young
  <2>1. \A i \in DOMAIN loads : loads[i].phase = "run"
    <3>1. ASSUME NEW i \in DOMAIN loads PROVE loads[i].phase = "run"
      <4>1. CASE i = Len(loads)
          BY <1>1, <1>6, <4>1 DEF Making, Top
      <4>2. CASE i # Len(loads)
          BY <1>1, <4>2 DEF FramesOK
      <4>3. QED
          BY <4>1, <4>2
    <3>2. QED
        BY <3>1
  <2>2. Unfinished = {} /\ Young = {}
      BY <1>3, <1>6, <2>1 DEF Young
  <2>3. QED
      BY <2>2
<1>7. LiveUnits = {Intrinsics} \cup (DOMAIN codegenMapping \ Young)
    BY <1>4, <1>5, <1>6
<1>8. 0 \in 0 .. uids
    BY <1>2
<1>9. QED
    BY <1>2, <1>7, <1>8 DEF Intrinsics

Retired == (1 .. uids) \ DOMAIN names

\* The same, of the state after a step.
LiveSet ==
    TypeInv /\ UnitsInv =>
        /\ LiveUnits = {Intrinsics} \cup (DOMAIN codegenMapping \ Young)
        /\ LiveUnits \subseteq 0 .. uids
        /\ LiveUnits \ {Intrinsics} \subseteq DOMAIN names

LEMMA LiveSetNext == LiveSet'
<1>1. LiveSet
    BY LiveLemma DEF LiveSet
<1>2. QED
    BY <1>1, PTL

LEMMA LiveNext ==
    ASSUME TypeInv', UnitsInv'
    PROVE  /\ LiveUnits' = {Intrinsics} \cup (DOMAIN codegenMapping' \ Young')
           /\ LiveUnits' \subseteq 0 .. uids'
           /\ LiveUnits' \ {Intrinsics} \subseteq DOMAIN names'
    BY LiveSetNext DEF LiveSet, Intrinsics

-----------------------------------------------------------------------------

\* No unit comes of age, and no id is given up.
AgesKept ==
    /\ \A u \in DOMAIN codegenMapping : u \in Young' <=> u \in Young
    /\ Retired' = Retired

LEMMA OneMoreId ==
    ASSUME TypeInv, uids' = uids + 1, DOMAIN names' = DOMAIN names \cup {uids + 1}
    PROVE  Retired' = Retired
<1>1. uids \in Nat
    BY DEF TypeInv, CompilerTypeOK, StoreTypeOK
<1>2. 1 .. uids + 1 = (1 .. uids) \cup {uids + 1}
    BY <1>1
<1>3. uids + 1 \notin 1 .. uids
    BY <1>1
<1>4. QED
    BY <1>2, <1>3 DEF Retired

LEMMA SameAges ==
    ASSUME Young' = Young, UNCHANGED <<uids, names>>
    PROVE  AgesKept
    BY DEF AgesKept, Retired

LEMMA StageKeepsAges ==
    ASSUME TypeInv, ProgressInv, Advance, ~Execute
    PROVE  AgesKept
<1>1. /\ loads # << >> /\ loads \in Seq(Frames) /\ Top.phase # "run" /\ Making
      /\ \/ UNCHANGED <<storeVars, loads>>
         \/ \E frame : SetTop(frame) /\ frame.unit = Top.unit
    BY AdvanceEffect DEF Making
<1>2. CASE UNCHANGED <<storeVars, loads>>
    BY <1>2, YoungStutter, SameAges DEF storeVars
<1>3. CASE ~UNCHANGED <<storeVars, loads>>
  <2>1. loads' # << >> /\ Top'.unit = Top.unit
      BY <1>1, <1>3, SetTopEffect
  <2>2. ASSUME Top'.phase # "run" PROVE Young' = Young
      BY <1>1, <2>1, <2>2, YoungSame DEF Making
  <2>3. CASE Parse \/ Structure \/ StageError
    <3>1. PICK phase \in {"structure", "typecheck", "failed"} :
            GoTo(phase) /\ UNCHANGED <<uids, names>>
        BY <2>3 DEF Parse, Structure, StageError, storeVars
    <3>2. Top'.phase = phase
        BY <1>1, <3>1, GoToEffect DEF Phases
    <3>3. QED
        BY <2>2, <3>1, <3>2, SameAges
  <2>4. CASE \/ TypecheckModule \/ ReuseInstance \/ NextInQueue \/ StartComponents
             \/ OrderComponents \/ Generate
    <3>1. /\ Top'.phase \in {"failed", "instances", "components", "generate"}
          /\ UNCHANGED <<uids, names>>
        BY <1>3, <2>4, TypecheckEffect, ReuseEffect, NextEffect, StartComponentsProgress,
           OrderEffect, GenerateEffect DEF storeVars, Panic, ProgressInv
    <3>2. QED
        BY <2>2, <3>1, SameAges
  <2>5. CASE MakeInstance
    <3>1. PICK ref : /\ InstanceBegun(ref, uids + 1)
                     /\ InstanceFailed(ref, uids + 1) \/ InstanceMade(ref, uids + 1)
        BY <1>3, <2>5, MakeEffect DEF Panic
    <3>2. /\ uids' = uids + 1 /\ DOMAIN names' = DOMAIN names \cup {uids + 1}
          /\ Top'.phase \in {"failed", "instances"}
        BY <3>1 DEF InstanceBegun, InstanceFailed, InstanceMade
    <3>3. QED
        BY <2>2, <3>2, OneMoreId DEF AgesKept
  <2>6. CASE FindComponents
      BY <1>3, <2>6 DEF FindComponents
  <2>7. QED
      BY <2>3, <2>4, <2>5, <2>6 DEF Advance
<1>4. QED
    BY <1>2, <1>3

LEMMA AgeKinds ==
    ASSUME TypeInv, UnitsInv, [CompilerNext]_compilerVars
    PROVE  AgesKept \/ Execute \/ CleanUp \/ \E u \in UsableModules : Removing(u)
<1>1. CASE UNCHANGED <<storeVars, loads>>
    BY <1>1, YoungStutter, SameAges DEF storeVars
<1>2. CASE LoadsBegin
  <2>1. PICK s \in Sources : LoadCode(s) \/ \E imps \in SUBSET UsableModules : LoadExpr(s, imps)
      BY <1>2 DEF LoadsBegin
  <2>2. CASE NewLoad(s)
    <3>1. DOMAIN codegenMapping \subseteq 0 .. uids
        BY DEF TypeInv, CompilerTypeOK, StoreTypeOK, UnitsInv, ProgressInv, EntriesOK
    <3>2. \A u \in DOMAIN codegenMapping : u \notin Young' /\ u \notin Young
        BY <2>2, <3>1, YoungWhenNew
    <3>3. Retired' = Retired
        BY <2>2, OneMoreId DEF NewLoad
    <3>4. QED
        BY <3>2, <3>3 DEF AgesKept
  <2>3. QED
      BY <1>1, <2>1, <2>2, NewLoadEffect DEF UnitsInv
<1>3. CASE ParseError \/ Complete
  <2>1. Young' = {} /\ UNCHANGED <<uids, names>>
      BY <1>3, YoungGone DEF ParseError, Complete, UserCode, At, storeVars
  <2>2. DOMAIN codegenMapping \cap Young = {}
    <3>1. CASE ParseError
      <4>1. Making /\ Top.phase = "parse"
          BY <3>1 DEF ParseError, At, Making
      <4>2. QED
          BY <4>1 DEF UnitsInv, GroupsOK
    <3>2. CASE Complete
        BY <3>2 DEF Complete, UserCode, At, Young, Making
    <3>3. QED
        BY <1>3, <3>1, <3>2
  <2>3. Retired' = Retired
      BY <2>1 DEF Retired
  <2>4. QED
      BY <2>1, <2>2, <2>3 DEF AgesKept
<1>4. CASE \E u \in UsableModules :
              ("single" \in UnloadKinds /\ Unload(u)) \/ UnloadDependents(u)
    BY <1>4 DEF Removing
<1>5. Request => LoadsBegin \/ \E u \in UsableModules :
              ("single" \in UnloadKinds /\ Unload(u)) \/ UnloadDependents(u)
    BY DEF Request, LoadsBegin
<1>6. UNCHANGED compilerVars => UNCHANGED <<storeVars, loads>>
    BY DEF compilerVars
<1>7. QED
    BY <1>1, <1>2, <1>3, <1>4, <1>5, <1>6, StageKeepsAges
       DEF CompilerNext, CompilerStep, Rest, Advance, UnitsInv

-----------------------------------------------------------------------------

\* Steps that change nothing of what the holders of ids know.
LEMMA TableKept ==
    ASSUME TypeInv, TypeInv', UnitsInv, UnitsInv', Builds, AgesKept
    PROVE  /\ LiveUnits' = LiveUnits
           /\ \A u \in LiveUnits : GetImports(u)' = GetImports(u)
           /\ Retired' = Retired
<1>1. LiveUnits = {Intrinsics} \cup (DOMAIN codegenMapping \ Young)
    BY LiveLemma
<1>2. LiveUnits' = {Intrinsics} \cup (DOMAIN codegenMapping' \ Young')
    BY LiveNext
<1>3. LiveUnits' = LiveUnits
    BY <1>1, <1>2 DEF Builds, AgesKept
<1>4. ASSUME NEW u \in LiveUnits PROVE \A e \in imports' : e[1] = u => e \in imports
  <2>1. u = Intrinsics \/ u \notin Young'
      BY <1>2, <1>3
  <2>2. \A e \in imports' : e[1] # Intrinsics
      BY DEF UnitsInv, ProgressInv, EntriesOK, Intrinsics
  <2>3. QED
      BY <2>1, <2>2 DEF Builds
<1>5. ASSUME NEW u \in LiveUnits PROVE GetImports(u)' = GetImports(u)
    BY <1>4 DEF Builds, GetImports
<1>6. QED
    BY <1>3, <1>5 DEF AgesKept

-----------------------------------------------------------------------------

\* What a unit that is generated and not young imports is generated, too.
LEMMA ImportsGenerated ==
    ASSUME TypeInv, UnitsInv, EdgesLive, NEW e \in imports, e[1] \in DOMAIN codegenMapping,
           e[2] \notin InProgress \/ e[2] \in DOMAIN codegenMapping
    PROVE  e[2] \in DOMAIN codegenMapping \cup {Intrinsics}
<1>1. e[2] \in DOMAIN types /\ e[2] \in DOMAIN names /\ e[2] \notin Unparsed
    BY DEF UnitsInv, ProgressInv, EntriesOK, EdgesLive, Unparsed
<1>2. QED
    BY <1>1 DEF UnitsInv, WholeInv, WholeUnit

\* The units of the module that begins to run come into being.
LEMMA ExecuteLoads ==
    ASSUME TypeInv, TypeInv', UnitsInv, UnitsInv', EdgesLive, Execute
    PROVE  /\ LiveUnits' # LiveUnits /\ LiveUnits \subseteq LiveUnits'
           /\ (LiveUnits' \ LiveUnits) \cap Retired = {}
           /\ \A u \in LiveUnits' : GetImports(u)' \subseteq LiveUnits'
           /\ \A u \in LiveUnits : GetImports(u)' = GetImports(u)
           /\ Retired' = Retired
<1>1. /\ loads # << >> /\ Top.phase = "generate" /\ Making /\ loads \in Seq(Frames)
      /\ Top.groups = {} /\ GoTo("run") /\ UNCHANGED storeVars /\ "run" \in Phases
    BY DEF Execute, At, Making, TypeInv, CompilerTypeOK, Phases
<1>2. ~Making' /\ Young' = {}
    BY <1>1, GoToEffect DEF Making, Young
<1>3. UNCHANGED <<uids, names, imports, codegenMapping>>
    BY <1>1 DEF storeVars
<1>4. /\ LiveUnits = {Intrinsics} \cup (DOMAIN codegenMapping \ Young)
      /\ LiveUnits' = {Intrinsics} \cup DOMAIN codegenMapping
    BY <1>2, <1>3, LiveLemma, LiveNext
<1>5. Elements(Top.new) \subseteq DOMAIN codegenMapping /\ Top.unit \in Elements(Top.new)
    BY <1>1, TopLemmas DEF UnitsInv, ProgressInv, FrameOK
<1>6. Top.unit \in Young /\ Top.unit # Intrinsics
    BY <1>1, NewAreYoung DEF UnitsInv, ProgressInv
<1>7. Top.unit \in LiveUnits' \ LiveUnits
    BY <1>4, <1>5, <1>6
<1>8. (LiveUnits' \ LiveUnits) \cap Retired = {}
    BY <1>4 DEF Retired, UnitsInv, ProgressInv, EntriesOK
<1>9. \A u \in InProgress : u \in DOMAIN codegenMapping
  <2>1. ASSUME NEW i \in 1 .. Len(loads), NEW u \in Elements(loads[i].new), FrameOK(loads[i]),
               i # Len(loads) => loads[i].phase = "run"
        PROVE  u \in DOMAIN codegenMapping
    <3>1. CASE i = Len(loads)
        BY <1>5, <2>1, <3>1 DEF Top
    <3>2. CASE i # Len(loads)
        BY <2>1, <3>2 DEF FrameOK
    <3>3. QED
        BY <3>1, <3>2
  <2>2. QED
      BY <2>1, InProgressFrames
<1>10. ASSUME NEW u \in LiveUnits', NEW e \in imports, e[1] = u PROVE e[2] \in LiveUnits'
  <2>1. e[1] # Intrinsics
      BY DEF UnitsInv, ProgressInv, EntriesOK, Intrinsics
  <2>2. QED
      BY <1>4, <1>9, <1>10, <2>1, ImportsGenerated
<1>11. \A u \in LiveUnits' : GetImports(u)' \subseteq LiveUnits'
    BY <1>3, <1>10 DEF GetImports
<1>12. \A u : GetImports(u)' = GetImports(u)
    BY <1>3 DEF GetImports
<1>13. QED
    BY <1>3, <1>4, <1>7, <1>8, <1>11, <1>12 DEF Retired

\* The units of a failed load never came into being.
LEMMA CleanUpDiscards ==
    ASSUME TypeInv, TypeInv', PolyInv, UnitsInv, UnitsInv', CleanUp
    PROVE  /\ LiveUnits' = LiveUnits /\ \A u \in LiveUnits : GetImports(u)' = GetImports(u)
           /\ Retired \subseteq Retired' /\ Retired' \cap LiveUnits = {}
<1>1. loads # << >> /\ Top.phase = "failed" /\ RemoveUnits(Elements(Top.new)) /\ Making /\ Return
    BY DEF CleanUp, At, Making
<1>2. PICK S : S = Mine /\ S = Elements(Top.new) /\ RemoveUnits(S)
    BY <1>1, FailedUnits
<1>3. /\ DOMAIN codegenMapping' = DOMAIN codegenMapping \ S
      /\ DOMAIN names' = DOMAIN names \ S /\ UNCHANGED <<uids, imports>>
    BY <1>2 DEF RemoveUnits, Without
<1>4. Young' = {}
    BY <1>1, YoungGone
<1>5. S \subseteq Young /\ \A u \in DOMAIN names \ S : u \notin Young
    BY <1>1, <1>2, NewAreYoung, FailedUnits DEF UnitsInv, ProgressInv
<1>6. DOMAIN codegenMapping \subseteq DOMAIN names
    BY DEF UnitsInv, ProgressInv, EntriesOK
<1>7. LiveUnits' = LiveUnits
    BY <1>3, <1>4, <1>5, <1>6, LiveLemma, LiveNext
<1>8. \A u : GetImports(u)' = GetImports(u)
    BY <1>3 DEF GetImports
<1>9. Retired \subseteq Retired'
    BY <1>3 DEF Retired
<1>10. Retired' \cap LiveUnits' = {}
  <2>1. LiveUnits' \subseteq {Intrinsics} \cup DOMAIN names'
      BY LiveNext
  <2>2. Intrinsics \notin 1 .. uids'
      BY DEF Intrinsics
  <2>3. QED
      BY <2>1, <2>2 DEF Retired
<1>11. QED
    BY <1>7, <1>8, <1>9, <1>10

\* All that is unloaded had come into being, and what depends on it goes, too.
LEMMA UnloadUnloads ==
    ASSUME TypeInv, TypeInv', UnitsInv, UnitsInv', NEW x \in UsableModules, UnloadDependents(x)
    PROVE  /\ LiveUnits' # LiveUnits /\ LiveUnits' \subseteq LiveUnits
           /\ \A u \in LiveUnits' : /\ GetImports(u)' = GetImports(u)
                                    /\ GetImports(u) \cap (LiveUnits \ LiveUnits') = {}
           /\ Retired' = Retired \cup (LiveUnits \ LiveUnits')
<1>1. /\ loads # << >> /\ Top.phase = "run" /\ UNCHANGED loads
      /\ x \in DOMAIN exprs /\ x \in DOMAIN codegenMapping
      /\ x \in 0 .. uids /\ uids \in Nat /\ imports \subseteq (1 .. uids) \X (0 .. uids)
      /\ DOMAIN names \subseteq 0 .. uids /\ DOMAIN codegenMapping \subseteq DOMAIN names
      /\ Intrinsics \notin DOMAIN codegenMapping
    BY UnloadEffect DEF UsableModules, TypeInv, CompilerTypeOK, StoreTypeOK, UnitsInv,
                        ProgressInv, EntriesOK
<1>2. PICK S : /\ S = FindAllDependents(x) /\ RemoveUnits(S) /\ Intrinsics \notin S
               /\ S \subseteq 1 .. uids /\ S \cap InProgress = {}
  <2>1. PICK C : C = 1 .. uids
      OBVIOUS
  <2>2. x \in C /\ \A e \in imports : e[1] \in C
      BY <1>1, <2>1, UnloadEffect DEF UnitsInv
  <2>3. FindAllDependents(x) \subseteq C
      BY <1>1, <2>2, FindsOnlyDependents
  <2>4. RemoveUnits(FindAllDependents(x)) /\ FindAllDependents(x) \cap InProgress = {}
      BY DEF UnloadDependents, MayUnload
  <2>5. QED
      BY <2>1, <2>3, <2>4 DEF Intrinsics
<1>3. /\ x \in S /\ \A e \in imports : e[2] \in S => e[1] \in S
    BY <1>1, <1>2, FindsFirst, FindsAllDependents
<1>4. ~Making /\ Young = {} /\ Young' = {}
    BY <1>1, YoungStutter DEF Making, Young
<1>5. /\ DOMAIN codegenMapping' = DOMAIN codegenMapping \ S
      /\ DOMAIN names' = DOMAIN names \ S /\ UNCHANGED <<uids, imports>>
    BY <1>2 DEF RemoveUnits, Without
<1>6. /\ LiveUnits = {Intrinsics} \cup DOMAIN codegenMapping
      /\ LiveUnits' = LiveUnits \ S
    BY <1>2, <1>4, <1>5, LiveLemma, LiveNext
<1>7. S \subseteq {x} \cup {e[1] : e \in imports}
  <2>1. PICK C : C = {x} \cup {e[1] : e \in imports}
      OBVIOUS
  <2>2. x \in C /\ \A e \in imports : e[1] \in C
      BY <2>1
  <2>3. FindAllDependents(x) \subseteq C
      BY <1>1, <2>2, FindsOnlyDependents
  <2>4. QED
      BY <1>2, <2>1, <2>3
<1>8. ASSUME NEW u \in S, u \in DOMAIN names PROVE u \in DOMAIN codegenMapping
  <2>1. u \notin Unparsed
      BY <1>1, <1>7, <1>8 DEF Unparsed, UnitsInv, ProgressInv, EntriesOK
  <2>2. QED
      BY <1>2, <1>8, <2>1 DEF UnitsInv, WholeInv, WholeUnit
<1>9. LiveUnits \ LiveUnits' = S \cap DOMAIN names
    BY <1>1, <1>2, <1>6, <1>8
<1>10. \A u : GetImports(u)' = GetImports(u)
    BY <1>5 DEF GetImports
<1>11. \A u \in LiveUnits' : GetImports(u) \cap (LiveUnits \ LiveUnits') = {}
    BY <1>3, <1>6 DEF GetImports
<1>12. Retired' = Retired \cup (S \cap DOMAIN names)
    BY <1>2, <1>5 DEF Retired
<1>13. x \in LiveUnits \ LiveUnits'
    BY <1>1, <1>3, <1>6
<1>14. QED
    BY <1>6, <1>9, <1>10, <1>11, <1>12, <1>13

-----------------------------------------------------------------------------

\* A step of UnitTable, in terms of what the steps of the compiler do.
LEMMA LoadStep ==
    ASSUME LiveUnits' # LiveUnits, LiveUnits \subseteq LiveUnits',
           (LiveUnits' \ LiveUnits) \cap Retired = {},
           \A u \in LiveUnits' : GetImports(u)' \subseteq LiveUnits',
           \A u \in LiveUnits : GetImports(u)' = GetImports(u),
           Retired' = Retired
    PROVE  Table!Load
    BY DEF Table!Load, Table!NewUnits, Table!GoneUnits, Retired

LEMMA UnloadStep ==
    ASSUME LiveUnits' # LiveUnits, LiveUnits' \subseteq LiveUnits,
           \A u \in LiveUnits' : /\ GetImports(u)' = GetImports(u)
                                 /\ GetImports(u) \cap (LiveUnits \ LiveUnits') = {},
           Retired' = Retired \cup (LiveUnits \ LiveUnits')
    PROVE  Table!Unload
    BY DEF Table!Unload, Table!NewUnits, Table!GoneUnits, Retired

LEMMA DiscardStep ==
    ASSUME LiveUnits' = LiveUnits, \A u \in LiveUnits : GetImports(u)' = GetImports(u),
           Retired \subseteq Retired', Retired' \cap LiveUnits = {}
    PROVE  Table!Discard
    BY DEF Table!Discard, Retired

LEMMA TableUnchanged ==
    ASSUME LiveUnits' = LiveUnits, \A u \in LiveUnits : GetImports(u)' = GetImports(u),
           Retired' = Retired
    PROVE  UNCHANGED Table!tableVars
    BY DEF Table!tableVars, Retired

LEMMA StepsAreTableSteps ==
    ASSUME TypeInv, TypeInv', PolyInv, UnitsInv, UnitsInv', EdgesInv, DependentsOnly,
           [CompilerNext]_compilerVars
    PROVE  [Table!TableNext]_(Table!tableVars)
<1>1. CASE Execute
    BY <1>1, ExecuteLoads, LoadStep DEF EdgesInv, Table!TableNext
<1>2. CASE CleanUp
    BY <1>2, CleanUpDiscards, DiscardStep DEF Table!TableNext
<1>3. ASSUME NEW u \in UsableModules, Removing(u) PROVE Table!TableNext
    BY <1>3, UnloadUnloads, UnloadStep DEF Removing, DependentsOnly, Table!TableNext
<1>4. CASE Builds /\ AgesKept
    BY <1>4, TableKept, TableUnchanged
<1>5. QED
    BY <1>1, <1>2, <1>3, <1>4, BuildKinds, AgeKinds

LEMMA InitTable == CompilerInit => Table!TableInit
<1> SUFFICES ASSUME CompilerInit PROVE Table!TableInit
    OBVIOUS
<1>1. /\ uids = 0 /\ DOMAIN names = {0} /\ imports = {} /\ loads = << >>
      /\ DOMAIN codegenMapping = {}
    BY DEF CompilerInit, EmptyMap, Intrinsics
<1>2. LiveUnits = {0}
    BY <1>1 DEF LiveUnits, Intrinsics
<1>3. [u \in LiveUnits |-> GetImports(u)] = [u \in {0} |-> {}]
    BY <1>1, <1>2 DEF GetImports
<1>4. (1 .. uids) \ DOMAIN names = {}
    BY <1>1
<1>5. QED
    BY <1>2, <1>3, <1>4 DEF Table!TableInit, Table!Intrinsics

\* With unloading by dependents the compiler implements UnitTable: however its
\* stages interleave with nested loads, units come into being, fail and go as if
\* each load and each unloading were one step (compiler.rs:102-266).
THEOREM LoadingIsAtomic ==
    ASSUME DependentsOnly
    PROVE  CompilerSpec => LoadsAreAtomic
<1>1. CompilerInit => Table!TableInit
    BY InitTable
<1>2. /\ TypeInv /\ TypeInv' /\ PolyInv /\ UnitsInv /\ UnitsInv' /\ EdgesInv
      /\ [CompilerNext]_compilerVars
      => [Table!TableNext]_(Table!tableVars)
    BY StepsAreTableSteps
<1>3. QED
    BY <1>1, <1>2, TypeInvariant, PolyInvariant, UnitsInvariant, EdgesInvariant, PTL
       DEF CompilerSpec, LoadsAreAtomic, Table!TableSpec

-----------------------------------------------------------------------------
(***************************************************************************)
(* What a load hands to the component search, and what it gets back: the   *)
(* search runs on the graph of the units it has made, whatever else the    *)
(* loads around it have done, so that what is true of the search on any    *)
(* graph is true of the groups (SearchInv).                                *)
(***************************************************************************)

\* A load that makes units has made all that were handed out since it began;
\* while it searches for components the search is on the graph of these units,
\* and the account of its paths holds.
SearchInv ==
    /\ Making => \A u \in 0 .. uids : u >= Top.unit => u \in Elements(Top.new)
    /\ loads # << >> /\ Top.phase = "components" =>
          Search!OrderInv /\ graph = UnitGraphOf(Top.new)

\* What a step of the innermost load does to its units, its graph and its search.
LEMMA AdvanceSearch ==
    ASSUME TypeInv, ProgressInv, Advance
    PROVE  /\ loads # << >> /\ Top.phase # "run"
           /\ \/ UNCHANGED <<uids, imports, loads, sccVars>>
              \/ FindComponents
              \/ /\ StartComponents /\ UNCHANGED <<uids, imports>>
                 /\ Top'.unit = Top.unit /\ Top'.new = Top.new
              \/ /\ Top'.phase # "components"
                 /\ \/ uids' = uids /\ Top'.unit = Top.unit /\ Top'.new = Top.new
                    \/ /\ uids' = uids + 1 /\ Top'.unit = Top.unit
                       /\ Top'.new = Append(Top.new, uids + 1)
<1>1. loads # << >> /\ Top.phase # "run" /\ loads \in Seq(Frames)
    BY AdvanceEffect
<1> DEFINE Same == UNCHANGED <<uids, imports, loads, sccVars>>
           Quiet == /\ Top'.phase # "components" /\ uids' = uids
                    /\ Top'.unit = Top.unit /\ Top'.new = Top.new
           Made == /\ Top'.phase # "components" /\ uids' = uids + 1 /\ Top'.unit = Top.unit
                   /\ Top'.new = Append(Top.new, uids + 1)
           Started == /\ StartComponents /\ UNCHANGED <<uids, imports>>
                      /\ Top'.unit = Top.unit /\ Top'.new = Top.new
<1> SUFFICES Same \/ FindComponents \/ Started \/ Quiet \/ Made
    BY <1>1
<1>2. ASSUME NEW assertion, Panic(assertion) PROVE Same
    BY <1>2 DEF Panic, storeVars
<1>3. CASE Parse \/ Structure \/ StageError \/ Execute
  <2>1. /\ \E phase \in Phases \ {"components"} : GoTo(phase)
        /\ uids' = uids
      BY <1>3 DEF Parse, Structure, StageError, Execute, Phases, storeVars
  <2>2. Quiet
      BY <1>1, <2>1, GoToEffect
  <2>3. QED
      BY <2>2
<1>4. CASE TypecheckModule
  <2>1. Same \/ Quiet
      BY <1>2, <1>4, TypecheckEffect
  <2>2. QED
      BY <2>1
<1>5. CASE ReuseInstance
  <2>1. Quiet
      BY <1>5, ReuseEffect
  <2>2. QED
      BY <2>1
<1>6. CASE MakeInstance
  <2>1. Same \/ Made
      BY <1>2, <1>6, MakeEffect DEF InstanceBegun, InstanceFailed, InstanceMade
  <2>2. QED
      BY <2>1
<1>7. CASE NextInQueue
  <2>1. Quiet
      BY <1>7, NextEffect DEF storeVars
  <2>2. QED
      BY <2>1
<1>8. CASE StartComponents
    BY <1>8, StartComponentsProgress DEF storeVars
<1>9. CASE OrderComponents
  <2>1. Same \/ Quiet
      BY <1>2, <1>9, OrderEffect DEF ProgressInv, storeVars
  <2>2. QED
      BY <2>1
<1>10. CASE Generate
  <2>1. Same \/ Quiet
      BY <1>2, <1>10, GenerateEffect
  <2>2. QED
      BY <2>1
<1>11. QED
    BY <1>3, <1>4, <1>5, <1>6, <1>7, <1>8, <1>9, <1>10 DEF Advance

\* Neither a step that leaves the load and its search alone, nor one after
\* which no load makes units, disturbs the account.
LEMMA StutterSearch ==
    ASSUME SearchInv, UNCHANGED <<uids, imports, loads, sccVars>>
    PROVE  SearchInv'
<1>1. Top' = Top /\ Making' = Making /\ UNCHANGED <<uids, imports, loads>>
    BY DEF Top, Making
<1>2. graph' = graph /\ UNCHANGED Search!tarjanVars
    BY DEF sccVars, Search!tarjanVars
<1>3. Search!OrderInv => Search!OrderInv'
    BY <1>2, Search!OrderInvStutter
<1>4. UnitGraphOf(Top.new)' = UnitGraphOf(Top.new)
    BY <1>1 DEF UnitGraphOf
<1>5. QED
    BY <1>1, <1>2, <1>3, <1>4 DEF SearchInv

LEMMA QuietSearch ==
    ASSUME ~Making'
    PROVE  SearchInv'
    BY DEF SearchInv, Making

LEMMA NewLoadSearch ==
    ASSUME TypeInv, NEW s, NewLoad(s)
    PROVE  SearchInv'
<1>1. uids \in Nat
    BY DEF TypeInv, CompilerTypeOK, StoreTypeOK
<1>2. /\ uids' = uids + 1 /\ Top'.unit = uids + 1 /\ Top'.new = <<uids + 1>>
      /\ Top'.phase # "components"
    BY DEF NewLoad
<1>3. uids + 1 \in Elements(<<uids + 1>>)
    BY DEF Elements, Image
<1>4. \A u \in 0 .. uids' : u >= Top'.unit => u = uids + 1
    BY <1>1, <1>2
<1>5. Elements(Top.new)' = Elements(<<uids + 1>>)
    BY <1>2 DEF Elements, Image
<1>6. QED
    BY <1>2, <1>3, <1>4, <1>5 DEF SearchInv

LEMMA StartSearch ==
    ASSUME TypeInv, SearchInv, Making, StartComponents, UNCHANGED <<uids, imports>>,
           Top'.unit = Top.unit, Top'.new = Top.new
    PROVE  SearchInv'
<1>1. Scc!StartOn(UnitGraphOf(Top.new)) /\ Top.new \in Seq(Nat)
    BY StageLemma DEF StartComponents, At
<1>2. Search!StartOn(UnitGraphOf(Top.new)) /\ Search!IsDirectedGraph(UnitGraphOf(Top.new))
    BY <1>1, SameSearch, UnitGraphLemma
<1>3. Search!OrderInv'
    BY <1>2, Search!OrderInvStart
<1>4. graph' = UnitGraphOf(Top.new)
    BY <1>2 DEF Search!StartOn
<1>5. UnitGraphOf(Top.new)' = UnitGraphOf(Top.new) /\ Elements(Top.new)' = Elements(Top.new)
    BY DEF UnitGraphOf, Elements, Image
<1>6. QED
    BY <1>3, <1>4, <1>5 DEF SearchInv

LEMMA FindSearch ==
    ASSUME TypeInv, SearchInv, FindComponents
    PROVE  SearchInv'
<1>1. /\ loads # << >> /\ Top.phase = "components" /\ Search!TarjanStep
      /\ UNCHANGED <<uids, imports, loads>>
    BY SameSearch DEF FindComponents, At, storeVars
<1>2. Search!TarjanInv
    BY <1>1 DEF TypeInv, FramesOK
<1>3. Search!OrderInv'
    BY <1>1, <1>2, Search!OrderInvStep DEF SearchInv
<1>4. graph' = graph
    BY <1>1 DEF Search!TarjanStep, Search!StartRoot, Search!Recurse, Search!SkipEdge,
                Search!Return
<1>5. Top' = Top /\ Making' = Making
    BY <1>1 DEF Top, Making
<1>6. UnitGraphOf(Top.new)' = UnitGraphOf(Top.new)
    BY <1>1, <1>5 DEF UnitGraphOf
<1>7. QED
    BY <1>1, <1>3, <1>4, <1>5, <1>6 DEF SearchInv

LEMMA AdvanceKeepsSearch ==
    ASSUME TypeInv, ProgressInv, SearchInv, Advance
    PROVE  SearchInv'
<1>1. loads # << >> /\ Top.phase # "run" /\ Making
    BY AdvanceSearch DEF Making
<1>2. uids \in Nat /\ Top.new \in Seq(Nat) /\ Top.unit \in Nat
    BY <1>1, StageLemma DEF StoreTypeOK
<1>3. \A u \in 0 .. uids : u >= Top.unit => u \in Elements(Top.new)
    BY <1>1 DEF SearchInv
<1>4. CASE Top'.phase # "components" /\ uids' = uids /\ Top'.unit = Top.unit /\ Top'.new = Top.new
  <2>1. Elements(Top.new)' = Elements(Top.new)
      BY <1>4 DEF Elements, Image
  <2>2. QED
      BY <1>3, <1>4, <2>1 DEF SearchInv
<1>5. CASE /\ Top'.phase # "components" /\ uids' = uids + 1 /\ Top'.unit = Top.unit
           /\ Top'.new = Append(Top.new, uids + 1)
  <2>1. Elements(Top.new)' = Elements(Top.new) \cup {uids + 1}
    <3>1. Elements(Append(Top.new, uids + 1)) = Elements(Top.new) \cup {uids + 1}
        BY <1>2, ElementsLemma
    <3>2. Elements(Top.new)' = Elements(Append(Top.new, uids + 1))
        BY <1>5 DEF Elements, Image
    <3>3. QED
        BY <3>1, <3>2
  <2>2. \A u \in 0 .. uids' : u \in 0 .. uids \/ u = uids + 1
      BY <1>2, <1>5
  <2>3. QED
      BY <1>3, <1>5, <2>1, <2>2 DEF SearchInv
<1>6. QED
    BY <1>1, <1>4, <1>5, AdvanceSearch, StutterSearch, StartSearch, FindSearch

LEMMA NextKeepsSearch ==
    ASSUME TypeInv, TypeInv', ProgressInv, SearchInv, [CompilerNext]_compilerVars
    PROVE  SearchInv'
<1>1. ASSUME NEW s \in Sources,
             LoadCode(s) \/ \E imps \in SUBSET UsableModules : LoadExpr(s, imps)
      PROVE  SearchInv'
  <2>1. CASE NewLoad(s)
      BY <2>1, NewLoadSearch
  <2>2. CASE UNCHANGED <<storeVars, loads, interpImports>>
      BY <1>1, <2>2, StutterSearch DEF LoadCode, LoadExpr, Panic, storeVars
  <2>3. QED
      BY <1>1, <2>1, <2>2, NewLoadEffect
<1>2. ASSUME NEW u \in UsableModules, Unload(u) \/ UnloadDependents(u)
      PROVE  SearchInv'
  <2>1. ~Making'
      BY <1>2, UnloadEffect, YoungStutter DEF Making
  <2>2. QED
      BY <2>1, QuietSearch
<1>3. CASE ParseError \/ Complete \/ CleanUp
  <2>1. ~Making'
      BY <1>3, YoungGone DEF ParseError, Complete, CleanUp, UserCode, At
  <2>2. QED
      BY <2>1, QuietSearch
<1>4. CASE UNCHANGED compilerVars
    BY <1>4, StutterSearch DEF compilerVars, storeVars
<1>5. QED
    BY <1>1, <1>2, <1>3, <1>4, AdvanceKeepsSearch
    DEF CompilerNext, Request, CompilerStep, Rest, Advance

LEMMA SearchInvariant == CompilerSpec => []SearchInv
<1>1. CompilerInit => SearchInv
    BY DEF CompilerInit, SearchInv, Making
<1>2. TypeInv /\ TypeInv' /\ ProgressInv /\ SearchInv /\ [CompilerNext]_compilerVars => SearchInv'
    BY NextKeepsSearch
<1>3. QED
    BY <1>1, <1>2, TypeInvariant, ProgressInvariant, PTL DEF CompilerSpec

-----------------------------------------------------------------------------

\* New units are distinct.
LEMMA UnitsDiffer ==
    ASSUME TypeInv, ProgressInv, loads # << >>,
           NEW x \in 0 .. Len(Top.new) - 1, NEW y \in 0 .. Len(Top.new) - 1,
           Top.new[x + 1] = Top.new[y + 1]
    PROVE  x = y
<1>1. FrameOK(Top) /\ Top.new \in Seq(Nat)
    BY TopLemmas, StageLemma DEF ProgressInv
<1>2. x + 1 \in 1 .. Len(Top.new) /\ y + 1 \in 1 .. Len(Top.new) /\ x \in Int /\ y \in Int
    BY <1>1
<1>3. /\ x + 1 < y + 1 => Top.new[x + 1] < Top.new[y + 1]
      /\ y + 1 < x + 1 => Top.new[y + 1] < Top.new[x + 1]
    BY <1>1, <1>2 DEF FrameOK
<1>4. Top.new[x + 1] \in Nat
    BY <1>1, <1>2
<1>5. QED
    BY <1>2, <1>3, <1>4

\* Among the new units, a path of the graph is a dependency.
LEMMA PathsAreDependencies ==
    ASSUME TypeInv, ProgressInv, YoungOK, SearchInv, loads # << >>, Top.phase = "components",
           NEW x \in 0 .. Len(Top.new) - 1, NEW y \in 0 .. Len(Top.new) - 1
    PROVE  y \in Search!ReachableFrom(x, graph)
               <=> Top.new[x + 1] \in FindAllDependents(Top.new[y + 1])
<1> DEFINE W == 0 .. Len(Top.new) - 1
           unit(i) == Top.new[i + 1]
           found == FindAllDependents(unit(y))
<1>1. /\ Making /\ Top.new \in Seq(Nat) /\ uids \in Nat /\ Top.unit \in Nat
      /\ Elements(Top.new) \subseteq DOMAIN names /\ DOMAIN names \subseteq 0 .. uids
      /\ imports \subseteq (1 .. uids) \X (0 .. uids)
    BY StageLemma, TopLemmas DEF Making, StoreTypeOK, ProgressInv, EntriesOK
<1>2. graph = [i \in W |-> {j \in W : <<unit(i), unit(j)>> \in imports}]
    BY DEF SearchInv, UnitGraphOf
<1>3. Search!Vertices(graph) = W /\ graph \in [W -> SUBSET W]
    BY <1>2 DEF Search!Vertices
<1>4. /\ \A i \in W : unit(i) \in Elements(Top.new) /\ unit(i) \in 0 .. uids
      /\ \A u \in Elements(Top.new) : \E i \in W : u = unit(i)
  <2>1. /\ \A i \in W : i + 1 \in 1 .. Len(Top.new)
        /\ \A k \in 1 .. Len(Top.new) : k - 1 \in W /\ (k - 1) + 1 = k
      BY <1>1
  <2>2. Elements(Top.new) = {Top.new[k] : k \in 1 .. Len(Top.new)}
      BY <1>1, ElementsLemma
  <2>3. QED
      BY <1>1, <2>1, <2>2
<1>5. /\ unit(y) \in found
      /\ \A e \in imports : e[2] \in found => e[1] \in found
    BY <1>1, <1>4, FindsFirst, FindsAllDependents
<1> HIDE DEF unit, found
<1>6. ASSUME y \in Search!ReachableFrom(x, graph), unit(x) \notin found PROVE FALSE
  <2> DEFINE S == {i \in W : unit(i) \notin found}
  <2>1. Search!IsClosed(S, graph)
    <3>1. ASSUME NEW i \in S, NEW j \in graph[i] PROVE j \in S
      <4>1. i \in W /\ j \in W /\ <<unit(i), unit(j)>> \in imports /\ unit(i) \notin found
          BY <1>2
      <4>2. QED
          BY <1>5, <4>1
    <3>2. QED
        BY <3>1 DEF Search!IsClosed
  <2>2. y \in S
    <3>1. x \in S /\ S \in SUBSET Search!Vertices(graph)
        BY <1>3, <1>6
    <3>2. QED
        BY <1>6, <2>1, <3>1, Search!ReachClosed
  <2>3. QED
      BY <1>5, <2>2
<1>7. ASSUME unit(x) \in found PROVE y \in Search!ReachableFrom(x, graph)
  <2> DEFINE C == {unit(i) : i \in {i \in W : y \in Search!ReachableFrom(i, graph)}}
  <2>1. unit(y) \in C
      BY <1>3, Search!ReachSelf
  <2>2. ASSUME NEW e \in imports, e[2] \in C PROVE e[1] \in C
    <3>1. PICK j \in W : e[2] = unit(j) /\ y \in Search!ReachableFrom(j, graph)
        BY <2>2
    <3>2. e[1] \in Elements(Top.new)
      <4>1. e[2] \in Young
          BY <1>1, <1>4, <3>1, NewAreYoung DEF ProgressInv
      <4>2. e[1] \in Young /\ e[1] \in 0 .. uids
          BY <1>1, <4>1 DEF YoungOK
      <4>3. e[1] >= Top.unit
          BY <1>1, <4>2 DEF Young
      <4>4. QED
          BY <1>1, <4>2, <4>3 DEF SearchInv
    <3>3. PICK i \in W : e[1] = unit(i)
        BY <1>4, <3>2
    <3>4. e = <<e[1], e[2]>>
        BY <1>1
    <3>5. j \in graph[i]
        BY <1>2, <3>1, <3>3, <3>4
    <3>6. j \in Search!ReachableFrom(i, graph)
        BY <1>3, <3>5, Search!ReachEdge
    <3>7. y \in Search!ReachableFrom(i, graph)
        BY <3>1, <3>6, Search!ReachTrans
    <3>8. QED
        BY <3>3, <3>7
  <2>3. found \subseteq C
    <3>1. FindAllDependents(unit(y)) \subseteq C
      <4> HIDE DEF C
      <4>1. QED
          BY <1>1, <2>1, <2>2, FindsOnlyDependents
    <3>2. QED
        BY <3>1 DEF found
  <2>4. PICK i \in W : unit(x) = unit(i) /\ y \in Search!ReachableFrom(i, graph)
      BY <1>7, <2>3
  <2>5. i = x
      BY <2>4, UnitsDiffer DEF unit
  <2>6. QED
      BY <2>4, <2>5
<1>8. QED
    BY <1>6, <1>7 DEF unit, found

\* The operators of the search mean the same in both instances.
LEMMA SameGraphs ==
    /\ Scc!TarjanDone => Search!TarjanDone
    /\ Scc!DiscoveredInOrder => Search!DiscoveredInOrder
    /\ \A s, g : Scc!GraphOfDisjointSubgraphs(s, g) = Search!GraphOfDisjointSubgraphs(s, g)
    /\ \A g : Search!IsAcyclic(g) => Scc!IsAcyclic(g)
<1>1. Scc!TarjanDone => Search!TarjanDone
    BY DEF Scc!TarjanDone, Search!TarjanDone, Scc!Visited, Search!Visited,
           Scc!InSeq, Search!InSeq, Scc!Vertices, Search!Vertices
<1>2. Scc!DiscoveredInOrder => Search!DiscoveredInOrder
    BY DEF Scc!DiscoveredInOrder, Search!DiscoveredInOrder
<1>3. \A s, g : Scc!GraphOfDisjointSubgraphs(s, g) = Search!GraphOfDisjointSubgraphs(s, g)
    BY DEF Scc!GraphOfDisjointSubgraphs, Search!GraphOfDisjointSubgraphs
<1>4. \A g : Search!IsAcyclic(g) => Scc!IsAcyclic(g)
    BY DEF Scc!IsAcyclic, Search!IsAcyclic, Scc!ReachableFrom, Search!ReachableFrom,
           Scc!IsClosed, Search!IsClosed, Scc!Vertices, Search!Vertices
<1>5. QED
    BY <1>1, <1>2, <1>3, <1>4

\* The groups that the search arrives at in order.
LEMMA ExactGroups ==
    ASSUME TypeInv, ProgressInv, YoungOK, SearchInv, At("components"),
           Scc!TarjanDone, Scc!DiscoveredInOrder, OrderComponents
    PROVE  /\ panic' = Running
           /\ \A a, b \in Elements(Top.new) :
                 (\E group \in Top'.groups : {a, b} \subseteq group)
                     <=> a \in FindAllDependents(b) /\ b \in FindAllDependents(a)
<1> DEFINE W == 0 .. Len(Top.new) - 1
           cg == Search!GraphOfDisjointSubgraphs(components, graph)
           groups == {UnitsOf(components[i]) : i \in DOMAIN components}
<1>1. /\ loads # << >> /\ Top.phase = "components" /\ panic = Running
      /\ loads \in Seq(Frames) /\ Top \in Frames /\ Top.new \in Seq(Nat)
    BY StageLemma DEF At
<1>2. Search!TarjanInv /\ Search!OrderInv /\ Search!TarjanDone /\ Search!DiscoveredInOrder
    BY <1>1, SameGraphs DEF TypeInv, FramesOK, SearchInv
<1>3. Search!Vertices(graph) = W /\ components \in Seq(SUBSET W)
    BY <1>1, <1>2 DEF TypeInv, FramesOK, Search!TarjanInv, Search!TarjanTypeOK, Search!Vertices
<1>4. /\ {components[i] : i \in DOMAIN components} = Search!StronglyConnectedComponents(graph)
      /\ \A i, j \in Search!Vertices(cg) : j \in cg[i] => j < i
    BY <1>2, Search!ExactLemma DEF Search!ExactWhenDiscoveredInOrder
<1>5. Scc!IsAcyclic(Scc!GraphOfDisjointSubgraphs(components, graph))
  <2>1. /\ Search!Vertices(cg) = 0 .. Len(components) - 1
        /\ cg \in [0 .. Len(components) - 1 -> SUBSET (0 .. Len(components) - 1)]
      BY DEF Search!GraphOfDisjointSubgraphs, Search!Vertices
  <2>2. Search!Vertices(cg) \subseteq Nat
      BY <1>3, <2>1
  <2> HIDE DEF cg
  <2>3. \A a \in Search!Vertices(cg) : \A b \in cg[a] : b < a
      BY <1>4, <2>1
  <2>4. Search!IsAcyclic(cg)
      BY <2>1, <2>2, <2>3, Search!DescendingIsAcyclic
  <2>5. QED
      BY <2>4, SameGraphs DEF cg
<1>6. panic' = Running /\ Top'.groups = groups
  <2> DEFINE frame == [Top EXCEPT !.groups = groups, !.phase = "generate"]
  <2>1. SetTop(frame) /\ UNCHANGED panic
      BY <1>5 DEF OrderComponents, hostVars
  <2>2. frame.groups = groups
      BY <1>1 DEF Frames
  <2> HIDE DEF frame
  <2>3. Top' = frame
      BY <1>1, <2>1, SetTopEffect
  <2>4. QED
      BY <1>1, <2>1, <2>2, <2>3
<1>7. ASSUME NEW a \in Elements(Top.new), NEW b \in Elements(Top.new)
      PROVE  (\E group \in groups : {a, b} \subseteq group)
                 <=> a \in FindAllDependents(b) /\ b \in FindAllDependents(a)
  <2>1. ASSUME NEW u \in Elements(Top.new) PROVE \E i \in W : u = Top.new[i + 1]
    <3> DEFINE s == Top.new
    <3>0. s \in Seq(Nat)
        BY <1>1
    <3> HIDE DEF s
    <3>1. Elements(s) = {s[i] : i \in 1 .. Len(s)}
        BY <3>0, ElementsLemma
    <3> USE DEF s
    <3>2. PICK k \in 1 .. Len(Top.new) : u = Top.new[k]
        BY <3>1
    <3>3. k - 1 \in W /\ (k - 1) + 1 = k
        BY <1>1
    <3>4. QED
        BY <3>2, <3>3
  <2>2. PICK x \in W : a = Top.new[x + 1]
      BY <2>1
  <2>3. PICK y \in W : b = Top.new[y + 1]
      BY <2>1
  <2>4. /\ y \in Search!ReachableFrom(x, graph) <=> a \in FindAllDependents(b)
        /\ x \in Search!ReachableFrom(y, graph) <=> b \in FindAllDependents(a)
      BY <1>1, <2>2, <2>3, PathsAreDependencies
  <2>5. ASSUME NEW group \in groups, {a, b} \subseteq group
        PROVE  y \in Search!ReachableFrom(x, graph) /\ x \in Search!ReachableFrom(y, graph)
    <3>1. PICK i \in DOMAIN components : group = UnitsOf(components[i])
        BY <2>5
    <3>2. components[i] \subseteq W
        BY <1>3
    <3>3. x \in components[i] /\ y \in components[i]
      <4>1. PICK v \in components[i], w \in components[i] :
                a = Top.new[v + 1] /\ b = Top.new[w + 1]
          BY <2>5, <3>1 DEF UnitsOf
      <4>2. v \in W /\ w \in W
          BY <3>2
      <4>3. v = x /\ w = y
          BY <1>1, <2>2, <2>3, <4>1, <4>2, UnitsDiffer
      <4>4. QED
          BY <4>3
    <3>4. PICK z \in W : components[i] = Search!ComponentOf(z, graph)
        BY <1>3, <1>4, <3>1 DEF Search!StronglyConnectedComponents
    <3>5. Search!ComponentOf(x, graph) = Search!ComponentOf(z, graph)
        BY <3>3, <3>4, Search!SameComponent
    <3>6. QED
        BY <3>3, <3>4, <3>5 DEF Search!ComponentOf
  <2>6. ASSUME y \in Search!ReachableFrom(x, graph), x \in Search!ReachableFrom(y, graph)
        PROVE  \E group \in groups : {a, b} \subseteq group
    <3>1. x \in Search!ComponentOf(x, graph) /\ y \in Search!ComponentOf(x, graph)
        BY <1>3, <2>6, Search!ReachSelf DEF Search!ComponentOf
    <3>2. PICK i \in DOMAIN components : components[i] = Search!ComponentOf(x, graph)
        BY <1>3, <1>4 DEF Search!StronglyConnectedComponents
    <3>3. a \in UnitsOf(components[i]) /\ b \in UnitsOf(components[i])
        BY <2>2, <2>3, <3>1, <3>2 DEF UnitsOf
    <3>4. QED
        BY <3>3
  <2>7. QED
      BY <2>4, <2>5, <2>6
<1>8. QED
    BY <1>6, <1>7

\* If the hash sets list imports so that units are discovered in the order they
\* were made, the groups are the classes of units that depend on each other, and
\* can be ordered: wrong groups, with all they lead to, take discovery out of
\* order (compiler.rs:211-240, graph.rs:87-166).
THEOREM GroupsInOrder == CompilerSpec => GroupsAreExactInOrder
<1> DEFINE Exact == At("components") /\ Scc!TarjanDone /\ Scc!DiscoveredInOrder =>
          /\ panic' = Running
          /\ \A a, b \in Elements(Top.new) :
                (\E group \in Top'.groups : {a, b} \subseteq group)
                    <=> a \in FindAllDependents(b) /\ b \in FindAllDependents(a)
<1>1. TypeInv /\ UnitsInv /\ SearchInv /\ [CompilerNext]_compilerVars => [Exact]_compilerVars
  <2> SUFFICES ASSUME TypeInv, UnitsInv, SearchInv, CompilerNext, compilerVars' # compilerVars,
                      At("components"), Scc!TarjanDone, Scc!DiscoveredInOrder
               PROVE  OrderComponents
      BY ExactGroups DEF UnitsInv
  <2>1. ~Request /\ ~Complete /\ ~Rest
      BY DEF Request, Complete, Rest, LoadCode, LoadExpr, Unload, UnloadDependents, Idle,
             UserCode, At
  <2>2. ~FindComponents
      BY DEF FindComponents, Scc!TarjanStep, Scc!TarjanDone, Scc!StartRoot, Scc!Recurse,
             Scc!SkipEdge, Scc!Return
  <2>3. QED
      BY <2>1, <2>2 DEF CompilerNext, CompilerStep, Parse, ParseError, Structure, StageError,
         TypecheckModule, ReuseInstance, MakeInstance, NextInQueue, StartComponents, Generate,
         Execute, CleanUp, At
<1>2. QED
    BY <1>1, TypeInvariant, UnitsInvariant, SearchInvariant, PTL
       DEF CompilerSpec, GroupsAreExactInOrder

=============================================================================
