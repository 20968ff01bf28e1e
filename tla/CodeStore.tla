------------------------------ MODULE CodeStore -----------------------------
(***************************************************************************)
(* The tables of code_store.rs, which everything the compiler knows about  *)
(* a unit of code lives in.                                                *)
(*                                                                         *)
(* A unit is a module or one instance of a polymorphic function.  A map    *)
(* keyed by UnitId is a function whose domain is the set of its keys.  The *)
(* contents are abstracted to what decides the fate of a unit:             *)
(*   - a symbol is the unit that defines it and its name, an instance is   *)
(*     the unit made for it (a poly-instance unit defines one symbol);     *)
(*   - a type is a name and the unit that defines it, Intrinsics for a     *)
(*     primitive;                                                          *)
(*   - a codegen id is the set of units generated under it: ids are fresh  *)
(*     and a unit is generated once, so the two determine each other.      *)
(***************************************************************************)
EXTENDS Naturals, FiniteSets, Sequences

VARIABLES
    uids,             \* UIDGenerator: the last unit id handed out
    names,            \* names           : UnitId -> RefStr
    code,             \* code            : the units that have source text
    imports,          \* imports         : set of (importer, imported)
    exprs,            \* exprs           : UnitId -> Expr
    nodes,            \* nodes           : the units that have a node tree
    types,            \* types           : UnitId -> TypeInfo
    mappings,         \* type_mappings   : UnitId -> TypeMapping
    codegenMapping,   \* codegen_mapping : UnitId -> CodegenId
    llvmUnits,        \* llvm_units      : the codegen ids with an LlvmUnit
    vals,             \* vals            : the units whose top level has run
    polyInstances,    \* poly_instances  : (SymbolId, Type) -> instance
    polyParents       \* poly_parents    : UnitId -> SymbolId

storeVars == <<uids, names, code, imports, exprs, nodes, types, mappings,
               codegenMapping, llvmUnits, vals, polyInstances, polyParents>>

\* The tables that typechecking and code generation leave alone.
sourceVars == <<uids, names, code, exprs, nodes, vals>>

Intrinsics == 0      \* the unit Compiler::new registers before any other

EmptyMap == [x \in {} |-> x]

Extend(f, x, y) == [z \in DOMAIN f \cup {x} |-> IF z = x THEN y ELSE f[z]]

Without(f, S) == [x \in DOMAIN f \ S |-> f[x]]

-----------------------------------------------------------------------------
(***************************************************************************)
(* Queries.                                                                *)
(***************************************************************************)

\* named_unit(name).is_some()
NameTaken(name) == \E u \in DOMAIN names : names[u] = name

\* format!("unit_{:?}", uid): the name of a unit created without one.
Anonymous(u) == <<"unit", u>>

GetImports(u) == {e[2] : e \in {e \in imports : e[1] = u}}

GetImporters(u) == {e[1] : e \in {e \in imports : e[2] = u}}

\* llvm_unit(u) returns; otherwise one of its two unwraps fails.
HasLlvmUnit(u) ==
    u \in DOMAIN codegenMapping /\ codegenMapping[u] \in llvmUnits

\* nodes(u): those of the polymorphic parent's unit, if there is one.
HasNodes(u) ==
    IF u \in DOMAIN polyParents THEN polyParents[u][1] \in nodes
                                ELSE u \in nodes

HasInstance(sym, type) == <<sym, type>> \in DOMAIN polyInstances

\* Mutant of FindAllDependents: only the direct importers.
FindDirectDependents(u) == {u} \cup GetImporters(u)

\* The importers of u, their importers, and so on, with u itself: the
\* breadth-first search of Compiler::find_all_dependents.
FindAllDependents(u) ==
    LET Layer[k \in Nat] ==
            IF k = 0 THEN {u}
            ELSE LET nearer == Layer[k - 1]
                 IN  nearer \cup {e[1] : e \in {e \in imports : e[2] \in nearer}}
    IN  Layer[uids]

-----------------------------------------------------------------------------
(***************************************************************************)
(* Updates.                                                                *)
(***************************************************************************)

\* Mutant of CreateUnit: the generator does not advance.
CreateUnitSameId(u, name) ==
    /\ ~NameTaken(name)
    /\ names' = Extend(names, u, name)
    /\ UNCHANGED uids

\* create_unit(gen.next(), name).  The caller has checked that the name is
\* free; the code panics if it is not.
CreateUnit(u, name) ==
    /\ ~NameTaken(name)
    /\ uids' = u
    /\ names' = Extend(names, u, name)

\* poly_instances and poly_parents after an instance has been typechecked.
RegisterInstance(sym, type, u) ==
    /\ polyInstances' = Extend(polyInstances, <<sym, type>>, u)
    /\ polyParents' = Extend(polyParents, u, sym)

\* What the mutants of RemoveUnits have in common with it.
RemoveSourceOf(S) ==
    /\ names' = Without(names, S)
    /\ exprs' = Without(exprs, S)
    /\ nodes' = nodes \ S
    /\ types' = Without(types, S)
    /\ mappings' = Without(mappings, S)
    /\ llvmUnits' = llvmUnits \ {codegenMapping[u] :
                                    u \in S \cap DOMAIN codegenMapping}
    /\ vals' = vals \ S
    /\ polyParents' = Without(polyParents, S)
    /\ UNCHANGED <<uids, code, imports>>

\* Mutant of RemoveUnits: poly_instances keeps its entries.
RemoveUnitsKeepingInstances(S) ==
    /\ RemoveSourceOf(S)
    /\ codegenMapping' = Without(codegenMapping, S)
    /\ UNCHANGED polyInstances

\* Mutant of RemoveUnits: codegen_mapping.get for codegen_mapping.remove.
RemoveUnitsKeepingMapping(S) ==
    LET forgotten(k) == \E u \in S \cap DOMAIN polyParents :
                            polyParents[u] = k[1] /\ polyInstances[k] = u
    IN  /\ RemoveSourceOf(S)
        /\ polyInstances' =
              Without(polyInstances, {k \in DOMAIN polyInstances : forgotten(k)})
        /\ UNCHANGED codegenMapping

\* remove_unit for every unit of S.  The source text and the import edges
\* stay.  A codegen id goes with the first of its units to be removed.
RemoveUnits(S) ==
    LET forgotten(k) == \E u \in S \cap DOMAIN polyParents :
                            polyParents[u] = k[1] /\ polyInstances[k] = u
    IN  /\ names' = Without(names, S)
        /\ exprs' = Without(exprs, S)
        /\ nodes' = nodes \ S
        /\ types' = Without(types, S)
        /\ mappings' = Without(mappings, S)
        /\ codegenMapping' = Without(codegenMapping, S)
        /\ llvmUnits' = llvmUnits \ {codegenMapping[u] :
                                        u \in S \cap DOMAIN codegenMapping}
        /\ vals' = vals \ S
        /\ polyParents' = Without(polyParents, S)
        /\ polyInstances' =
              Without(polyInstances, {k \in DOMAIN polyInstances : forgotten(k)})
        /\ UNCHANGED <<uids, code, imports>>

=============================================================================
