------------------------------ MODULE Compiler ------------------------------
(***************************************************************************)
(* The life of a unit: compiler.rs, as the interpreter (interpret.rs) and  *)
(* running code (c_interface.rs) drive it.                                 *)
(*                                                                         *)
(* A call of load_module is a frame on the stack `loads`.  It works        *)
(* through the phases                                                      *)
(*   parse -> structure -> typecheck -> instances -> components            *)
(*         -> generate -> run                                              *)
(* and may fail in any of them but the last.  In the phase run the top     *)
(* level of the new module is executing: that code may call load_module    *)
(* and unload_module again, which is how a loader reloads the program it   *)
(* hosts, so that a second frame is pushed on the first.                   *)
(*                                                                         *)
(* One thread does all of it.  What is not determined is the source code,  *)
(* the moment it is loaded or unloaded, whether a stage reports an error,  *)
(* and the iteration order of the hash tables.                             *)
(***************************************************************************)
EXTENDS CodeStore

CONSTANTS
    Sources,      \* the pieces of source code that may be loaded
    Program,      \* source -> what the compiler can tell of it, see below
    Calls,        \* generic function -> generic functions its body calls
    MaxUnits,     \* bound: unit ids ever handed out
    MaxDepth,     \* bound: loads in progress at the same time
    UnloadKinds   \* how running code unloads: "dependents", "single"

(***************************************************************************)
(* Program[s].name      the name it is loaded under, NoName for none;      *)
(* Program[s].generics  the polymorphic functions it defines;              *)
(* Program[s].structs   the structs it defines;                            *)
(* Program[s].uses      pairs of a polymorphic function and the name of    *)
(*                      the type its monomorphic code uses it at.          *)
(***************************************************************************)
NoName == "no name"
I64 == "i64"

Generics == DOMAIN Calls
TypeNames == {I64} \cup UNION {Program[s].structs : s \in Sources}

ASSUME ProgramAssumption ==
    /\ Calls \in [Generics -> SUBSET Generics]
    /\ \A s \in Sources :
          /\ Program[s].generics \subseteq Generics
          /\ Program[s].uses \subseteq Generics \X TypeNames
    /\ MaxUnits \in Nat /\ MaxDepth \in Nat

VARIABLES
    loads,            \* the calls of load_module in progress
    interpImports,    \* Interpreter.imports
    panic,            \* the failed assertion that ended the process, if any
    graph, discovered, lowlink, stack, calls, todo, components   \* Tarjan

Scc == INSTANCE Tarjan WITH Graphs <- {EmptyMap}

sccVars == <<graph, discovered, lowlink, stack, calls, todo, components>>
hostVars == <<interpImports, panic>>
compilerVars == <<storeVars, loads, interpImports, panic, sccVars>>

Running == "none"    \* panic, as long as there was none

Top == loads[Len(loads)]
At(phase) == loads # << >> /\ Top.phase = phase /\ panic = Running
SetTop(frame) == loads' = [loads EXCEPT ![Len(loads)] = frame]
GoTo(phase) == SetTop([Top EXCEPT !.phase = phase])

\* A Rust panic: it ends the process, whatever was in progress.
Panic(assertion) ==
    /\ panic' = assertion
    /\ UNCHANGED <<storeVars, loads, interpImports, sccVars>>

Image(f, S) == {f[x] : x \in S}
Elements(s) == Image(s, DOMAIN s)

-----------------------------------------------------------------------------
(***************************************************************************)
(* Name resolution, to the extent that it decides which instances exist.   *)
(***************************************************************************)

Prim == [name |-> I64, uid |-> Intrinsics]

\* Type::units_referenced
UnitsReferenced(type) == IF type = Prim THEN {} ELSE {type.uid}

\* find_type_def: the unit u itself first, then the imports from the last to
\* the first.  The imports of a module are sorted by id.
FindTypeDef(name, u, structs, imps) ==
    IF name = I64 THEN {Prim}
    ELSE IF name \in structs THEN {[name |-> name, uid |-> u]}
    ELSE LET defining == {w \in imps : name \in types[w].structs}
         IN  {[name |-> name, uid |-> w] :
                 w \in {w \in defining : \A x \in defining : x <= w}}

\* TypeDirectory::find_symbol for a function used at a known type: the generic
\* functions of that name in the units in scope and, since they are ordinary
\* functions of theirs, the instances of one made for that very type.
Matches(f, type, table, scope) ==
    {[uid |-> w, isInstance |-> FALSE] : w \in {w \in scope : f \in table[w].generics}}
    \cup
    {[uid |-> w, isInstance |-> TRUE] : w \in {w \in scope : <<f, type>> \in table[w].instances}}

\* A reference resolves when exactly one symbol matches.  Two leave it
\* unresolved, which inference reports as an error when it ends.
AllResolve(refs, table, scope) ==
    \A r \in refs : Cardinality(Matches(r[1], r[2], table, scope)) = 1

\* The TypeMapping: the polymorphic references, which need an instance, and
\* the units whose symbols the code refers to directly.
MappingOf(refs, table, scope, direct) ==
    LET at(r, isInstance) ==
            {m.uid : m \in {m \in Matches(r[1], r[2], table, scope) :
                               m.isInstance = isInstance}}
    IN  [poly   |-> UNION {{<<<<w, r[1]>>, r[2]>> : w \in at(r, FALSE)} : r \in refs},
         direct |-> direct \cup UNION {at(r, TRUE) : r \in refs}]

ModuleInfo(s) ==
    [generics |-> Program[s].generics, structs |-> Program[s].structs, instances |-> {}]

InstanceInfo(f, type) ==
    [generics |-> {}, structs |-> {}, instances |-> {<<f, type>>}]

IntrinsicsInfo == [generics |-> {}, structs |-> {}, instances |-> {}]

-----------------------------------------------------------------------------
(***************************************************************************)
(* Requests.                                                               *)
(***************************************************************************)

\* Compiler::new, then interpreter() before its core modules.
CompilerInit ==
    /\ uids = Intrinsics
    /\ names = [u \in {Intrinsics} |-> <<"module", "intrinsics">>]
    /\ code = {} /\ imports = {} /\ nodes = {} /\ vals = {} /\ llvmUnits = {}
    /\ exprs = EmptyMap /\ mappings = EmptyMap /\ codegenMapping = EmptyMap
    /\ types = [u \in {Intrinsics} |-> IntrinsicsInfo]
    /\ polyInstances = EmptyMap /\ polyParents = EmptyMap
    /\ loads = << >> /\ interpImports = {} /\ panic = Running
    /\ Scc!TarjanInit

\* Bound: a load is begun only if there are ids left for every unit it can
\* make, the module and one instance per generic function and type.
EnoughUids ==
    uids + 1 + Cardinality(Generics \X TypeNames) <= MaxUnits

\* The interpreter loads a module when nothing runs; running code loads one
\* from within a top-level function.
Idle == loads = << >> /\ panic = Running
UserCode == At("run")

NameFor(s, u) == IF Program[s].name = NoName THEN Anonymous(u) ELSE <<"module", Program[s].name>>

\* unit, imports and new_units are the variables of those names; queue and
\* refs are search_queue and the references of its first unit still to be
\* looked at; groups are the components not generated yet.
Frame(u, s, imps, phase) ==
    [unit |-> u, source |-> s, imports |-> imps \cup {Intrinsics}, new |-> <<u>>,
     phase |-> phase, queue |-> << >>, refs |-> {}, groups |-> {}]

\* load_module(code, name, imports), called by Interpreter::load_module with
\* all the modules the interpreter has loaded.
LoadCode(s) ==
    LET u == uids + 1
    IN  /\ Idle /\ EnoughUids
        /\ \/ /\ NameTaken(NameFor(s, u))
              /\ Panic("tried to load two modules called")
           \/ /\ CreateUnit(u, NameFor(s, u))
              /\ code' = code \cup {u}
              /\ loads' = <<Frame(u, s, interpImports, "parse")>>
              /\ UNCHANGED <<imports, exprs, nodes, types, mappings, codegenMapping,
                             llvmUnits, vals, polyInstances, polyParents,
                             hostVars, sccVars>>

\* load_expr_as_module(expr, name, imports), called by running code with the
\* modules of its choice.
LoadExpr(s, imps) ==
    LET u == uids + 1
    IN  /\ UserCode /\ EnoughUids /\ Len(loads) < MaxDepth
        /\ \/ /\ NameTaken(NameFor(s, u))
              /\ Panic("tried to load two modules called")
           \/ /\ CreateUnit(u, NameFor(s, u))
              /\ exprs' = Extend(exprs, u, s)
              /\ imports' = imports \cup ({u} \X (imps \cup {Intrinsics}))
              /\ loads' = Append(loads, Frame(u, s, imps, "structure"))
              /\ UNCHANGED <<code, nodes, types, mappings, codegenMapping,
                             llvmUnits, vals, polyInstances, polyParents,
                             hostVars, sccVars>>

\* The modules whose ids running code may hold and use: those that are loaded
\* or running.
UsableModules == DOMAIN exprs \cap DOMAIN codegenMapping

\* The units that calls in progress have created.
InProgress == UNION {Elements(loads[i].new) : i \in DOMAIN loads}

\* Assumption on running code: it does not unload the module it is part of,
\* nor one loaded by the interpreter ("you can destroy the module that is in
\* active use. I can just carefully not do that for now", LOG.md:594).
MayUnload(S) == S \cap (interpImports \cup InProgress) = {}

\* unload_module(u), alone, as in code/loader.code.
Unload(u) ==
    /\ UserCode /\ MayUnload({u})
    /\ RemoveUnits({u})
    /\ UNCHANGED <<loads, hostVars, sccVars>>

\* find_all_dependents(u) and unload_module of each, as in
\* code/tetris/loader.code.
UnloadDependents(u) ==
    /\ UserCode /\ MayUnload(FindAllDependents(u))
    /\ RemoveUnits(FindAllDependents(u))
    /\ UNCHANGED <<loads, hostVars, sccVars>>

-----------------------------------------------------------------------------
(***************************************************************************)
(* The stages of a load.                                                   *)
(***************************************************************************)

Return == loads' = SubSeq(loads, 1, Len(loads) - 1)

\* parse(unit_id)?, then the import edges inner() begins with.
Parse ==
    /\ At("parse")
    /\ exprs' = Extend(exprs, Top.unit, Top.source)
    /\ imports' = imports \cup ({Top.unit} \X Top.imports)
    /\ GoTo("structure")
    /\ UNCHANGED <<uids, names, code, nodes, types, mappings, codegenMapping,
                   llvmUnits, vals, polyInstances, polyParents, hostVars, sccVars>>

\* The `?` on parse leaves load_module before new_units exists: the unit, its
\* name and its text stay.
ParseError ==
    /\ At("parse")
    /\ Return
    /\ UNCHANGED <<storeVars, hostVars, sccVars>>

Structure ==
    /\ At("structure")
    /\ nodes' = nodes \cup {Top.unit}
    /\ GoTo("typecheck")
    /\ UNCHANGED <<uids, names, code, imports, exprs, types, mappings,
                   codegenMapping, llvmUnits, vals, polyInstances, polyParents,
                   hostVars, sccVars>>

\* An error of structure, of codegen_module or, before anything of the module
\* has run, of run_top_level (a value that cannot be returned).
StageError ==
    /\ At("structure") \/ At("generate")
    /\ GoTo("failed")
    /\ UNCHANGED <<storeVars, hostVars, sccVars>>

\* types.get(uid).unwrap() for an import, in TypeDirectory::find_symbol.
ImportGone(imps) == ~(imps \subseteq DOMAIN types)

\* typecheck_module: fails on an error in the code, or when a name in it does
\* not resolve.
TypecheckModule ==
    LET u     == Top.unit
        info  == ModuleInfo(Top.source)
        table == Extend(types, u, info)
        scope == Top.imports \cup {u}
        uses  == Program[Top.source].uses
        at(n) == FindTypeDef(n, u, info.structs, Top.imports)
        refs  == UNION {{<<use[1], t>> : t \in at(use[2])} : use \in uses}
        mapping == MappingOf(refs, table, scope, Top.imports \ {Intrinsics})
    IN  /\ At("typecheck")
        /\ \/ /\ ImportGone(Top.imports)
              /\ Panic("import gone")
           \/ /\ ~ImportGone(Top.imports)
              /\ types' = table
              /\ \/ /\ GoTo("failed")
                    /\ UNCHANGED mappings
                 \/ /\ \A use \in uses : at(use[2]) # {}
                    /\ AllResolve(refs, table, scope)
                    /\ mappings' = Extend(mappings, u, mapping)
                    /\ SetTop([Top EXCEPT !.phase = "instances", !.queue = <<u>>,
                                          !.refs = mapping.poly])
              /\ UNCHANGED <<sourceVars, imports, codegenMapping, llvmUnits,
                             polyInstances, polyParents, hostVars, sccVars>>

\* Mutant of ReuseInstance: the instance becomes one of the load's new units.
ReuseInstanceAsNew ==
    /\ At("instances")
    /\ \E ref \in Top.refs :
          /\ HasInstance(ref[1], ref[2])
          /\ imports' = imports \cup {<<Head(Top.queue), polyInstances[ref]>>}
          /\ SetTop([Top EXCEPT !.refs = @ \ {ref}, !.new = Append(@, polyInstances[ref])])
    /\ UNCHANGED <<sourceVars, types, mappings, codegenMapping, llvmUnits,
                   polyInstances, polyParents, hostVars, sccVars>>

\* Mutant of ReuseInstance: the arguments of add_import swapped.
ReuseInstanceSwapped ==
    /\ At("instances")
    /\ \E ref \in Top.refs :
          /\ HasInstance(ref[1], ref[2])
          /\ imports' = imports \cup {<<polyInstances[ref], Head(Top.queue)>>}
          /\ SetTop([Top EXCEPT !.refs = @ \ {ref}])
    /\ UNCHANGED <<sourceVars, types, mappings, codegenMapping, llvmUnits,
                   polyInstances, polyParents, hostVars, sccVars>>

\* typecheck_new_polymorphic_instances, on a reference with an instance.
ReuseInstance ==
    /\ At("instances")
    /\ \E ref \in Top.refs :
          /\ HasInstance(ref[1], ref[2])
          /\ imports' = imports \cup {<<Head(Top.queue), polyInstances[ref]>>}
          /\ SetTop([Top EXCEPT !.refs = @ \ {ref}])
    /\ UNCHANGED <<sourceVars, types, mappings, codegenMapping, llvmUnits,
                   polyInstances, polyParents, hostVars, sccVars>>

\* format!("@poly[{}][{}]", name, instance_type): a type is displayed without
\* the unit that defines it.
PolyUnitName(ref) == <<"@poly", ref[1][2], ref[2].name>>

\* Mutant of InstanceDependencies: the units of the instance type are left out.
InstanceDependenciesOfDefinition(ref) == GetImports(ref[1][1]) \cup {ref[1][1]}

\* "The new poly instance unit inherits all dependencies from the unit that
\* defined it, and it depends on that unit", and it imports "any unit
\* referenced in the instance type".
InstanceDependencies(ref) ==
    GetImports(ref[1][1]) \cup {ref[1][1]} \cup UnitsReferenced(ref[2])

\* The same loop, on a reference without an instance: create the unit,
\* typecheck the function's body in it, and only then register it.
MakeInstance ==
    /\ At("instances")
    /\ \E ref \in Top.refs :
        LET v     == uids + 1
            f     == ref[1][2]
            deps  == InstanceDependencies(ref)
            table == Extend(types, v, InstanceInfo(f, ref[2]))
            refs  == {<<g, ref[2]>> : g \in Calls[f]}
            scope == deps \cup {v}
            edges == imports \cup ({v} \X deps)
        IN  /\ ~HasInstance(ref[1], ref[2])
            /\ \/ /\ NameTaken(PolyUnitName(ref))
                  /\ Panic("tried to load two modules called")
               \/ /\ ~NameTaken(PolyUnitName(ref)) /\ ImportGone(deps)
                  /\ Panic("import gone")
               \/ /\ CreateUnit(v, PolyUnitName(ref))
                  /\ ~ImportGone(deps)
                  /\ types' = table
                  /\ \/ /\ imports' = edges
                        /\ SetTop([Top EXCEPT !.new = Append(@, v), !.phase = "failed"])
                        /\ UNCHANGED <<mappings, polyInstances, polyParents>>
                     \/ /\ AllResolve(refs, table, scope)
                        /\ mappings' = Extend(mappings, v,
                                          MappingOf(refs, table, scope, {ref[1][1]}))
                        /\ RegisterInstance(ref[1], ref[2], v)
                        /\ imports' = edges \cup {<<Head(Top.queue), v>>}
                        /\ SetTop([Top EXCEPT !.new = Append(@, v),
                                              !.queue = Append(@, v),
                                              !.refs = @ \ {ref}])
                  /\ UNCHANGED <<code, exprs, nodes, vals, codegenMapping,
                                 llvmUnits, hostVars, sccVars>>

\* Mutant of NextInQueue: the unit goes to the back of the queue.
NextInQueueRotating ==
    /\ At("instances")
    /\ Top.refs = {} /\ Len(Top.queue) > 1
    /\ SetTop([Top EXCEPT !.queue = Append(Tail(@), Head(@)),
                          !.refs = mappings[Top.queue[2]].poly])
    /\ UNCHANGED <<storeVars, hostVars, sccVars>>

\* search_queue.pop_front(): the next unit whose references are looked at.
NextInQueue ==
    /\ At("instances")
    /\ Top.refs = {} /\ Len(Top.queue) > 1
    /\ SetTop([Top EXCEPT !.queue = Tail(@), !.refs = mappings[Top.queue[2]].poly])
    /\ UNCHANGED <<storeVars, hostVars, sccVars>>

\* The graph codegen builds over new_units, numbered from 0.
UnitGraphOf(new) ==
    LET V == 0 .. Len(new) - 1
    IN  [i \in V |-> {j \in V : <<new[i + 1], new[j + 1]>> \in imports}]

\* The search queue is empty: codegen begins with Tarjan's algorithm.
StartComponents ==
    /\ At("instances")
    /\ Top.refs = {} /\ Len(Top.queue) = 1
    /\ SetTop([Top EXCEPT !.queue = << >>, !.phase = "components"])
    /\ Scc!StartOn(UnitGraphOf(Top.new))
    /\ UNCHANGED <<storeVars, hostVars>>

FindComponents ==
    /\ At("components")
    /\ Scc!TarjanStep
    /\ UNCHANGED <<storeVars, loads, hostVars>>

UnitsOf(component) == {Top.new[v + 1] : v \in component}

\* valid_topological_ordering(&component_graph).expect("graph contained cycles!")
OrderComponents ==
    /\ At("components")
    /\ Scc!TarjanDone
    /\ \/ /\ ~Scc!IsAcyclic(Scc!GraphOfDisjointSubgraphs(components, graph))
          /\ Panic("graph contained cycles!")
       \/ /\ Scc!IsAcyclic(Scc!GraphOfDisjointSubgraphs(components, graph))
          /\ SetTop([Top EXCEPT !.groups = {UnitsOf(components[i]) : i \in DOMAIN components},
                                !.phase = "generate"])
          /\ Scc!StartOn(EmptyMap)
          /\ UNCHANGED <<storeVars, hostVars>>

\* Mutant of Ready: importers first.
ReadyReversed(group) ==
    \A other \in Top.groups \ {group} :
        \A a \in group, b \in other : <<b, a>> \notin imports

\* The groups whose turn it may be in a topological ordering.
Ready(group) ==
    \A other \in Top.groups \ {group} :
        \A a \in group, b \in other : <<a, b>> \notin imports

\* The units a group's code is linked to: those it refers to directly, and the
\* instances of its polymorphic references (get_linked_global_value).
LinkTargets(group) ==
    (UNION {mappings[u].direct \cup Image(polyInstances, mappings[u].poly) : u \in group})
        \ group

\* One turn of the last loop of codegen: compile_unit_group, the tables, and
\* link_unit, which needs the LlvmUnit of every unit it links to.
Generate ==
    /\ At("generate")
    /\ \E group \in Top.groups :
          /\ Ready(group)
          /\ \/ /\ \E u \in LinkTargets(group) : ~HasLlvmUnit(u)
                /\ Panic("code gone")
             \/ /\ \A u \in LinkTargets(group) : HasLlvmUnit(u)
                /\ codegenMapping' = [u \in DOMAIN codegenMapping \cup group |->
                                         IF u \in group THEN group ELSE codegenMapping[u]]
                /\ llvmUnits' = llvmUnits \cup {group}
                /\ SetTop([Top EXCEPT !.groups = @ \ {group}])
                /\ UNCHANGED <<sourceVars, imports, types, mappings,
                               polyInstances, polyParents, hostVars, sccVars>>

\* initialise: the top-level function of the module begins to run.
Execute ==
    /\ At("generate")
    /\ Top.groups = {}
    /\ GoTo("run")
    /\ UNCHANGED <<storeVars, hostVars, sccVars>>

\* It ends: the value is stored, and the interpreter adds a module it has
\* loaded itself to the imports of the next.
Complete ==
    /\ UserCode
    /\ vals' = vals \cup {Top.unit}
    /\ Return
    /\ interpImports' = IF Len(loads) = 1 THEN interpImports \cup {Top.unit}
                                          ELSE interpImports
    /\ UNCHANGED <<uids, names, code, imports, exprs, nodes, types, mappings,
                   codegenMapping, llvmUnits, polyInstances, polyParents,
                   panic, sccVars>>

\* Mutant of CleanUp: only the module is deleted, not its new instances.
CleanUpModuleOnly ==
    /\ At("failed")
    /\ RemoveUnits({Top.unit})
    /\ Return
    /\ UNCHANGED <<hostVars, sccVars>>

\* "If something failed to compile, delete all the new units."
CleanUp ==
    /\ At("failed")
    /\ RemoveUnits(Elements(Top.new))
    /\ Return
    /\ UNCHANGED <<hostVars, sccVars>>

-----------------------------------------------------------------------------
(***************************************************************************)
(* The specification.                                                      *)
(***************************************************************************)

Request ==
    \/ \E s \in Sources : LoadCode(s)
    \/ \E s \in Sources, imps \in SUBSET UsableModules : LoadExpr(s, imps)
    \/ "single" \in UnloadKinds /\ \E u \in UsableModules : Unload(u)
    \/ "dependents" \in UnloadKinds /\ \E u \in UsableModules : UnloadDependents(u)

CompilerStep ==
    \/ Parse \/ ParseError \/ Structure \/ StageError \/ TypecheckModule
    \/ ReuseInstance \/ MakeInstance \/ NextInQueue
    \/ StartComponents \/ FindComponents \/ OrderComponents
    \/ Generate \/ Execute \/ CleanUp

\* The process has ended, or the interpreter waits for its user.
Rest ==
    /\ loads = << >> \/ panic # Running
    /\ UNCHANGED compilerVars

CompilerNext == Request \/ CompilerStep \/ Complete \/ Rest

\* The compiler's own code runs on.  Whether running code ever returns or asks
\* for anything is not up to the compiler.
CompilerSpec ==
    CompilerInit /\ [][CompilerNext]_compilerVars /\ WF_compilerVars(CompilerStep)

-----------------------------------------------------------------------------
(***************************************************************************)
(* Types.                                                                  *)
(***************************************************************************)

Phases == {"parse", "structure", "typecheck", "instances", "components",
           "generate", "run", "failed"}

Assertions == {"tried to load two modules called", "import gone",
               "graph contained cycles!", "code gone"}

Types == [name : TypeNames, uid : Nat]
References == (Nat \X Generics) \X Types

Infos == [generics : SUBSET Generics, structs : SUBSET TypeNames,
          instances : SUBSET (Generics \X Types)]

Frames == [unit : Nat, source : Sources, imports : SUBSET Nat, new : Seq(Nat),
           phase : Phases, queue : Seq(Nat), refs : SUBSET References,
           groups : SUBSET SUBSET Nat]

\* Every table has unit ids for keys and values of the type its comment gives,
\* and no unit has an id that was not handed out.
StoreTypeOK ==
    /\ uids \in Nat
    /\ DOMAIN names \subseteq 0 .. uids
    /\ code \subseteq Nat /\ nodes \subseteq Nat /\ vals \subseteq Nat
    /\ imports \subseteq Nat \X Nat
    /\ DOMAIN exprs \subseteq Nat /\ exprs \in [DOMAIN exprs -> Sources]
    /\ DOMAIN types \subseteq Nat /\ types \in [DOMAIN types -> Infos]
    /\ DOMAIN mappings \subseteq Nat
    /\ mappings \in [DOMAIN mappings -> [poly : SUBSET References, direct : SUBSET Nat]]
    /\ DOMAIN codegenMapping \subseteq Nat
    /\ codegenMapping \in [DOMAIN codegenMapping -> SUBSET Nat]
    /\ llvmUnits \subseteq SUBSET Nat
    /\ DOMAIN polyInstances \subseteq References
    /\ polyInstances \in [DOMAIN polyInstances -> Nat]
    /\ DOMAIN polyParents \subseteq Nat
    /\ polyParents \in [DOMAIN polyParents -> Nat \X Generics]

\* So have the tables of the compiler, and its frames and the interpreter
\* refer to units, too.
CompilerTypeOK ==
    /\ StoreTypeOK
    /\ loads \in Seq(Frames)
    /\ interpImports \subseteq Nat
    /\ panic \in {Running} \cup Assertions

-----------------------------------------------------------------------------
(***************************************************************************)
(* Properties.                                                             *)
(***************************************************************************)

\* What is left of a module whose text did not parse.
Unparsed == {u \in code : u \notin DOMAIN exprs}

\* The two polymorphic tables describe the same set of instances, whatever was
\* loaded, failed or unloaded: each entry of poly_instances is the live unit
\* that defines that instance and names its parent, and each unit with a
\* parent is the entry of one type (compiler.rs:186-189, code_store.rs:75-79).
PolyTablesAgree ==
    /\ \A k \in DOMAIN polyInstances :
          LET v == polyInstances[k]
          IN  /\ v \in DOMAIN names /\ v \in DOMAIN types
              /\ v \in DOMAIN polyParents /\ polyParents[v] = k[1]
              /\ types[v].instances = {<<k[1][2], k[2]>>}
    /\ \A v \in DOMAIN polyParents :
          \E k \in DOMAIN polyInstances : polyInstances[k] = v

\* If modules are unloaded with their dependents, nothing that is still loaded
\* imports a unit that is gone, so the unwraps of type lookup cannot fail
\* (compiler.rs:76-90, constraints.rs:776-779).
NoDanglingImport ==
    /\ \A e \in imports : e[1] \in DOMAIN types => e[2] \in DOMAIN types
    /\ interpImports \subseteq DOMAIN types
    /\ panic # "import gone"

\* An instance does not outlive the generic function it is made from nor the
\* types it is made for: a stale entry would be reused by the next load
\* (compiler.rs:155-158, 168-180).
InstancesAreOfLiveCode ==
    \A k \in DOMAIN polyInstances :
        /\ k[1][1] \in nodes
        /\ UnitsReferenced(k[2]) \subseteq DOMAIN types

\* A unit that no load is working on has gone through every stage: what reads
\* the tables later (get_function, typechecking and linking of other modules)
\* finds every entry it unwraps, the code itself apart.
LoadedUnitsAreWhole ==
    \A u \in DOMAIN names \ (InProgress \cup Unparsed \cup {Intrinsics}) :
        /\ u \in DOMAIN types /\ u \in DOMAIN mappings
        /\ u \in DOMAIN codegenMapping
        /\ HasNodes(u)
        /\ u \in DOMAIN polyParents \/ u \in vals

\* Generated code disappears under a unit only if the unit shared its LlvmUnit
\* with one it does not depend on: then unloading the other, with all its
\* dependents, takes the code of this one along (code_store.rs:70-73).
CodeLostOnlyByMisgrouping ==
    \A u \in DOMAIN codegenMapping :
        ~HasLlvmUnit(u) =>
            \E w \in codegenMapping[u] : u \notin FindAllDependents(w)

\* Groups are generated in the order of their dependencies: code is never
\* linked to a unit whose turn has not come yet (compiler.rs:215-257,
\* llvm_compile.rs:97-148).
LinkedAfterGenerated ==
    At("generate") =>
        \A group \in Top.groups :
            Ready(group) => LinkTargets(group) \subseteq DOMAIN codegenMapping

\* A failed load is undone completely: after its clean-up no table has an entry
\* for a unit created since it began, and every entry of any other unit, its
\* generated code included, is as it was (compiler.rs:120-130).
FailureLeavesOthersAlone ==
    [][At("failed") =>
        LET mine == {u \in DOMAIN names : u >= Top.unit}
        IN  /\ DOMAIN names' = DOMAIN names \ mine
            /\ types' = Without(types, mine)
            /\ mappings' = Without(mappings, mine)
            /\ \A u \in DOMAIN names' : HasLlvmUnit(u)' <=> HasLlvmUnit(u)
            /\ \A k \in DOMAIN polyInstances :
                  k \in DOMAIN polyInstances' <=> polyInstances[k] \notin mine
            /\ \A u \in DOMAIN names' : u \in vals' <=> u \in vals]_compilerVars

\* If the hash sets happen to list imports so that units are discovered in the
\* order they were made, the groups can be ordered, and two new units share a
\* group if and only if each depends on the other (compiler.rs:211-240,
\* graph.rs:87-166).
GroupsAreExactInOrder ==
    [][At("components") /\ Scc!TarjanDone /\ Scc!DiscoveredInOrder =>
          /\ panic' = Running
          /\ \A a, b \in Elements(Top.new) :
                (\E group \in Top'.groups : {a, b} \subseteq group)
                    <=> a \in FindAllDependents(b) /\ b \in FindAllDependents(a)]_compilerVars

\* A load does not get stuck: it reaches its top-level function, or fails and
\* returns, or the process has panicked.  Instantiation comes to an end, as
\* does the search for components.
LoadsSettle ==
    \A d \in 1 .. MaxDepth :
        (Len(loads) = d /\ Top.phase # "run")
            ~> \/ panic # Running
               \/ Len(loads) < d
               \/ Len(loads) >= d /\ loads[d].phase = "run"

\* The units that can be referred to: generated, by a load that has got as far
\* as running its module.
LiveUnits ==
    {Intrinsics} \cup
    (DOMAIN codegenMapping \
        UNION {Elements(loads[i].new) : i \in {i \in DOMAIN loads : loads[i].phase # "run"}})

Table == INSTANCE UnitTable WITH
            live    <- LiveUnits,
            needs   <- [u \in LiveUnits |-> GetImports(u)],
            retired <- (1 .. uids) \ DOMAIN names

\* To those who hold the ids of units a load is one step and so is its failure,
\* although both take many, and loads nest: no unit is seen half made, none
\* loses what it depends on, none gains a dependency later (compiler.rs:102-266,
\* code_store.rs:63-80).
LoadsAreAtomic == Table!TableSpec

-----------------------------------------------------------------------------
(***************************************************************************)
(* What the comments of the code and the log say.                          *)
(***************************************************************************)

\* "If something failed to compile, delete all the new units"
\* (compiler.rs:124).
NothingLeftOfAFailedLoad ==
    \A u \in DOMAIN names \ InProgress : u = Intrinsics \/ u \in DOMAIN types

\* "Create a unique name for the new unit" (compiler.rs:160).
InstanceNamesAreUnique ==
    At("instances") =>
        \A ref \in Top.refs :
            HasInstance(ref[1], ref[2]) \/ ~NameTaken(PolyUnitName(ref))

\* codegen_mapping leads to an LlvmUnit: both unwraps of llvm_unit
\* (code_store.rs:102-105) assert it.
GeneratedUnitsHaveCode ==
    \A u \in DOMAIN codegenMapping : HasLlvmUnit(u)

\* "Detect dependency cycles and group them into the same compilation unit"
\* (LOG.md:197): whatever the cycles, the groups can be ordered.
ComponentsCanBeOrdered == panic # "graph contained cycles!"

=============================================================================
