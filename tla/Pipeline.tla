------------------------------ MODULE Pipeline ------------------------------
(***************************************************************************)
(* A program, module by module, from its text to its value: inference      *)
(* takes the constraints of a round in an order nobody chose               *)
(* (types/solver.rs), the polymorphic functions that a module refers to    *)
(* are made for the types they are used with (compiler.rs), the code of    *)
(* the new units is generated group by group, and the module is run.       *)
(***************************************************************************)
EXTENDS Meaning, Lexer

CONSTANTS
  Programs,      \* records: modules, a sequence of texts, and early and late, how far from
                 \* the ends of what is left of a round the next constraint may be taken
  Steps,         \* how many calls and turns of loops are followed
  MaxUnits       \* how many units may be made
ASSUME StepsAssumption == Steps \in Nat \ {0} /\ MaxUnits \in Nat \ {0}

VARIABLES
  program, phase,
  loaded,        \* the modules that were loaded
  units,         \* by number: nodes, types, definitions, and the units imported
  unit, solving, \* the unit whose types are inferred, and what is known
  active, literals, \* what is left of the round, and of the literals
  wanted,        \* the instances asked for, a set for each unit that asks
  instances,     \* the definition made for a polymorphic one and a type
  fresh,         \* the units that are not generated yet
  machine, world, \* the memory of the generated code, and of the program's meaning
  result         \* how the module that was run last ended
vars == << program, phase, loaded, units, unit, solving, active, literals, wanted, instances, fresh,
           machine, world, result >>

NoResult == [ran |-> FALSE, type |-> Void, fault |-> "", made |-> 0, meantFault |-> "", meant |-> 0]
Stopped  == [regs |-> <<>>, mem |-> <<>>, args |-> <<>>, globals |-> <<>>, code |-> <<>>, fuel |-> 0, fault |-> "", value |-> 0]

Init ==
  /\ program \in Programs
  /\ phase = "load"
  /\ loaded = <<>> /\ units = <<>>
  /\ unit = <<>> /\ solving = <<>> /\ active = {} /\ literals = <<>>
  /\ wanted = <<>> /\ instances = <<>> /\ fresh = <<>>
  /\ machine = Stopped
  /\ world = [x |-> <<>>, mem |-> <<>>, cells |-> <<>>, statics |-> <<>>, units |-> <<>>, fuel |-> 0,
              fault |-> "", jump |-> 0, v |-> None]
  /\ result = NoResult

\* What the units of a set define.
TypesOf(us) == UNION {units[u].types : u \in us} \cup IntrinsicTypes
SymbolsOf(us) == UNION {{d \in units[u].defs : d.id[1] = u} : u \in us} \cup Intrinsics

\* A new unit, and its inference, which begins with what its nodes assert.
BeginUnit(new, imports) ==
  /\ unit' = new @@ [uses |-> imports]
  /\ solving' = ProcessAssertions(new)
  /\ active' = DOMAIN new.constraints
  /\ literals' = new.literals
  /\ phase' = "solve"
Begin(number, N, g, imports) == BeginUnit(Unit(number, N, g, SymbolsOf(imports)), imports)

\* The nodes of a text; none if the lexer, the parser or the conversion refuses it.
WholeNodes(whole)   == IF whole.ok THEN whole.nodes ELSE <<>>
ParsedNodes(parsed) == IF parsed.is # "ok" THEN <<>> ELSE WholeNodes(ToNodes(parsed.e))
LexedNodes(lexed)   == IF lexed.died \/ lexed.errors # <<>> THEN <<>> ELSE ParsedNodes(Parse(lexed.tokens))
NodesOf(text) == LexedNodes(Lex(text))

\* load_module: it imports the modules before it.
LoadNodes(nodes) ==
  LET number == Len(units) + 1
  IN \/ /\ nodes # <<>>
        /\ Begin(number, nodes, GetModuleConstraints(number, nodes, TypesOf(ToSet(loaded))), ToSet(loaded))
     \/ /\ nodes = <<>>
        /\ phase' = "done"
        /\ UNCHANGED << unit, solving, active, literals >>
Load ==
  /\ phase = "load"
  /\ LoadNodes(NodesOf(program.modules[Len(loaded) + 1]))
  /\ fresh' = << >>
  /\ UNCHANGED << program, loaded, units, wanted, instances, machine, world, result >>

\* One constraint of the round: the order is that of a hash table.
Near(i) == \/ Cardinality({j \in active : j < i}) < program.early
           \/ Cardinality({j \in active : j > i}) < program.late
Take ==
  /\ phase = "solve" /\ ~ solving.deep
  /\ \E i \in active :
       /\ Near(i)
       /\ solving' = ProcessConstraint(unit, solving, unit.constraints[i])
       /\ active' = active \ {i}
  /\ UNCHANGED << program, phase, loaded, units, unit, literals, wanted, instances, fresh, machine, world, result >>

\* Mutant of EndRound: what was touched stays touched.
EndRoundAgain ==
  /\ phase = "solve" /\ active = {} /\ ~ solving.deep
  /\ LET next == Boundary(unit, solving)
         over == solving.errors # {} \/ (next = {} /\ literals = <<>>)
     IN \/ /\ over
           /\ phase' = "judged"
           /\ UNCHANGED << solving, active, literals >>
        \/ /\ ~ over
           /\ active' = next
           /\ UNCHANGED << phase, solving, literals >>
  /\ UNCHANGED << program, loaded, units, unit, wanted, instances, fresh, machine, world, result >>
\* The end of a round: the next one; when nothing is left, a literal gets its default type;
\* when no literal is left, or after an error, the verdict.
EndRound ==
  /\ phase = "solve" /\ active = {} /\ ~ solving.deep
  /\ LET next == Boundary(unit, solving)
         over == solving.errors # {} \/ (next = {} /\ literals = <<>>)
         hard == TryHarden(Clean(solving), literals[1])
     IN \/ /\ over
           /\ phase' = "judged"
           /\ UNCHANGED << solving, active, literals >>
        \/ /\ ~ over /\ next # {}
           /\ solving' = Clean(solving) /\ active' = next
           /\ UNCHANGED << phase, literals >>
        \/ /\ ~ over /\ next = {}
           /\ solving' = Clean(hard) /\ active' = Boundary(unit, hard) /\ literals' = Tail(literals)
           /\ UNCHANGED phase
  /\ UNCHANGED << program, loaded, units, unit, wanted, instances, fresh, machine, world, result >>

\* The polymorphic functions a typed unit refers to, with the types it uses them with.
PolymorphicReferences(x) ==
  {p \in {<< x.refs[n], NodeType(x, n) >> : n \in DOMAIN x.refs} :
     \E d \in x.defs : d.id = p[1] /\ d.vars # <<>> /\ d.init = "Function"}

\* A typed unit joins the others.  What it refers to is looked for after what others do.
TypeChecked ==
  /\ phase = "judged" /\ Verdict(unit, solving) = "typed"
  /\ LET x == [number |-> unit.number, nodes |-> unit.nodes, slots |-> solving.slots, refs |-> solving.refs,
               sizes |-> solving.sizes, types |-> unit.types, defs |-> Definitions(unit, solving),
               uses |-> unit.uses]
     IN /\ wanted' = Append(wanted, [by |-> unit.number, of |-> PolymorphicReferences(x)])
        /\ units' = Append(units, x)
  /\ fresh' = Append(fresh, unit.number)
  /\ phase' = "instances"
  /\ UNCHANGED << program, loaded, unit, solving, active, literals, instances, machine, world, result >>
Rejected ==
  /\ phase = "judged" /\ Verdict(unit, solving) # "typed"
  /\ phase' = "done"
  /\ UNCHANGED << program, loaded, units, unit, solving, active, literals, wanted, instances, fresh, machine, world, result >>

\* typecheck_new_polymorphic_instances: of what the first unit of the queue refers to, an
\* instance that exists is imported; another one becomes a unit, which imports what the
\* definition's unit imports, that unit, and the units of its type.
RECURSIVE UnitsReferenced(_)
UnitsReferenced(t) == ({t.unit} \ {0}) \cup UNION {UnitsReferenced(t.kids[i]) : i \in DOMAIN t.kids}
Asked(p) == wanted' = << [wanted[1] EXCEPT !.of = @ \ {p}] >> \o Tail(wanted)
Asks(p, made) == units' = [units EXCEPT ![wanted[1].by].uses = @ \cup {made}]

FindInstance ==
  /\ phase = "instances" /\ wanted # <<>>
  /\ \E p \in wanted[1].of :
       LET from   == units[p[1][1]]
           number == Len(units) + 1
           def    == CHOOSE d \in from.defs : d.id = p[1]
           bound  == PolytypeMatch(<<>>, p[2], def.type).bound
           args   == [i \in DOMAIN def.vars |-> bound[def.vars[i]]]
           uses   == from.uses \cup {from.number} \cup UnitsReferenced(p[2])
           g      == GetInstanceConstraints(number, from.nodes, p[1][2], p[2], args, TypesOf(uses))
           made   == [def EXCEPT !.id = << number, p[1][2] >>, !.type = p[2], !.vars = <<>>]
       IN /\ Asked(p)
          /\ \/ /\ p \in DOMAIN instances
                /\ Asks(p, instances[p].id[1])
                /\ UNCHANGED << phase, unit, solving, active, literals, instances >>
             \/ /\ p \notin DOMAIN instances /\ Len(units) < MaxUnits
                /\ Begin(number, from.nodes, g, uses)
                /\ Asks(p, number)
                /\ instances' = (p :> made) @@ instances
  /\ UNCHANGED << program, loaded, fresh, machine, world, result >>
NextAsker ==
  /\ phase = "instances" /\ wanted # <<>> /\ wanted[1].of = {}
  /\ wanted' = Tail(wanted)
  /\ UNCHANGED << program, phase, loaded, units, unit, solving, active, literals, instances, fresh, machine, world, result >>

\* The groups of fresh units that use each other.
RECURSIVE Using(_)
Using(us) == LET more == us \cup UNION {units[u].uses : u \in us} IN IF more = us THEN us ELSE Using(more)
Group(u) == {v \in ToSet(fresh) : v = u \/ (v \in Using(units[u].uses) /\ u \in Using(units[v].uses))}
Info(u)  == units[u] @@ [instances |-> instances]

\* The statics of the fresh units, in a sequence, and the cells they get in a memory that ends at n.
Statics ==
  LET of(x) == LET own == OwnDefs(x) IN [k \in DOMAIN own |-> [x |-> x, d |-> own[k]]]
  IN SelectSeq(FlattenSeq([i \in DOMAIN fresh |-> of(Info(fresh[i]))]), LAMBDA p : p.d.init = "Expression")
Cells(statics, n) ==
  [id \in {statics[i].d.id : i \in DOMAIN statics} |-> n + (CHOOSE i \in DOMAIN statics : statics[i].d.id = id)]
Installed(made, statics) ==
  /\ machine' = [machine EXCEPT !.code = FoldSet(LAMBDA m, c : m.code @@ c, @, made),
        !.mem = @ \o [i \in DOMAIN statics |-> Zero(TyOf(statics[i].x, statics[i].d.type))],
        !.globals = Cells(statics, Len(machine.mem)) @@ @]
  /\ world' = [world EXCEPT !.units = [u \in ToSet(fresh) |-> Info(u)] @@ @,
        !.mem = @ \o [i \in DOMAIN statics |-> ZeroOf(statics[i].x, statics[i].d.type)],
        !.statics = Cells(statics, Len(world.mem)) @@ @]

\* The code of all groups is generated before any of it runs; if one cannot be, none stays.
Generated(made) ==
  LET bad == {m.fault : m \in made} \ {""}
  IN \/ /\ bad = {}
        /\ phase' = "run" /\ Installed(made, Statics)
        /\ UNCHANGED result
     \/ /\ bad # {}
        /\ phase' = "done" /\ result' = [NoResult EXCEPT !.fault = CHOOSE fault \in bad : TRUE]
        /\ UNCHANGED << machine, world >>
CodeOf(us) == GenerateGroup([i \in DOMAIN us |-> Info(us[i])])
GenerateCode ==
  /\ phase = "instances" /\ wanted = <<>>
  /\ Generated({CodeOf(SetToSeq(Group(u))) : u \in ToSet(fresh)})
  /\ UNCHANGED << program, loaded, units, unit, solving, active, literals, wanted, instances, fresh >>

\* run_top_level, which returns primitive values only, and what the program means.
More == Len(loaded) + 1 < Len(program.modules)
Ran(number, type, made, meant) ==
  /\ result' = [ran |-> TRUE, type |-> type, fault |-> made.fault, made |-> made.value,
                meantFault |-> meant.fault, meant |-> meant.v.val]
  /\ machine' = [made EXCEPT !.regs = <<>>, !.fuel = 0, !.value = 0]
  /\ world' = [meant EXCEPT !.fuel = 0, !.v = None]
  /\ loaded' = Append(loaded, number)
  /\ phase' = IF made.fault = "" /\ meant.fault = "" /\ More THEN "load" ELSE "done"
RunTopLevel(x, id, type) ==
  \/ /\ type.is = "Prim"
     /\ Ran(x.number, type, Call(machine.code, id, <<>>, [machine EXCEPT !.fuel = 20 * Steps]),
            Called([world EXCEPT !.x = x, !.fuel = Steps], id, <<>>))
  \/ /\ type.is # "Prim"
     /\ result' = [NoResult EXCEPT !.fault = "unreturnable"] /\ phase' = "done"
     /\ UNCHANGED << machine, world, loaded >>
Run ==
  LET x  == Info(fresh[1])
      id == << x.number, Len(x.nodes) >>
  IN /\ phase = "run"
     /\ RunTopLevel(x, id, (CHOOSE d \in x.defs : d.id = id).type.kids[1])
     /\ UNCHANGED << program, units, unit, solving, active, literals, wanted, instances, fresh >>

Done == phase = "done" /\ UNCHANGED vars

Next == Load \/ Take \/ EndRound \/ TypeChecked \/ Rejected \/ FindInstance \/ NextAsker
          \/ GenerateCode \/ Run \/ Done

\* The compiler does not stop by itself before it is done: weak fairness of Next, whose
\* ENABLED is written out, for there is always a next step.
Fairness == <>[](phase # "done") => []<><<Next>>_vars
Spec == Init /\ [][Next]_vars /\ Fairness

-----------------------------------------------------------------------------
\* The state is made of the parts that the actions above expect.
TypeInvariant ==
  /\ phase \in {"load", "solve", "judged", "instances", "run", "done"}
  /\ phase = "solve" =>
       /\ active \subseteq DOMAIN unit.constraints
       /\ DOMAIN solving.slots \cup solving.dirty \subseteq unit.slots
       /\ DOMAIN solving.refs \subseteq {n \in DOMAIN unit.nodes : unit.nodes[n].is = "Reference"}
       /\ DOMAIN solving.sizes \subseteq {n \in DOMAIN unit.nodes : unit.nodes[n].is = "SizeOf"}
  /\ \A i \in DOMAIN fresh : fresh[i] \in DOMAIN units
  /\ \A p \in DOMAIN instances : IsConcrete(p[2])

\* Inference has come to this verdict and this end.
Agrees(verdict, s) ==
  /\ Verdict(unit, solving) = verdict
  /\ verdict = "typed" => /\ solving.slots = s.slots /\ solving.refs = s.refs
                          /\ solving.tags = s.tags /\ solving.sizes = s.sizes
AgreesWith(inOrder) == Agrees(inOrder[1], inOrder[2])
\* Whatever the order in which the constraints were taken, a unit is found to be typed or
\* not as it is in the order of the program, and with the same types and meanings: what
\* types/solver.rs:2 says, that only the reports of errors depend on the order.
VerdictIsOfTheProgram ==
  phase = "judged" =>
    AgreesWith(Infer(unit, ProcessAssertions(unit), DOMAIN unit.constraints, unit.literals))

InstanceUnits == {instances[p].id[1] : p \in DOMAIN instances}
\* An instance of a polymorphic function is found to be typed or not as it is when no other
\* instance is in scope: that modules depend on each other is "to prevent instanced function
\* definitions from contaminating type resolution" (src/LOG.md:61).
InstancesDoNotContaminate ==
  phase = "judged" /\ unit.number \in InstanceUnits =>
    LET alone == [unit EXCEPT !.imports = {d \in @ : d.id[1] \notin InstanceUnits}]
    IN Verdict(unit, solving) = Infer(alone, ProcessAssertions(alone), DOMAIN alone.constraints, alone.literals)[1]

\* Inference never ends with a type that is not known and no error to report it by, the
\* panic of types/solver.rs:537.
NothingUnknownIsUnreported == phase = "judged" => Verdict(unit, solving) # "panicked"

\* A constraint, of the types that were found.
Holds(c) ==
  LET t(i) == solving.slots[c.slots[i]]
      all  == [i \in DOMAIN c.slots |-> t(i)]
      d    == TypeDef(unit, IF c.is = "FieldAccess" THEN Behind(t(1)) ELSE t(1))
      field(i, args) == InstanceType(d, d.types[i], args)
      defs == Definitions(unit, solving)
  IN CASE c.is = "Equivalent"      -> t(1) = t(2)
       [] c.is = "Branch"          -> t(1) = Void \/ \A i \in DOMAIN all : t(i) = t(1)
       [] c.is = "Function"        -> t(1) = FunOf(Last(all), Front(Tail(all)))
       [] c.is = "Constructor"     ->
            IF d.is = "struct" THEN Tail(all) = [i \in DOMAIN d.types |-> field(i, t(1).kids)]
            ELSE \E i \in DOMAIN d.types : d.fields[i] = c.fields[1] /\ all = << t(1), d.types[i] >>
       [] c.is = "Convert"         -> CanConvert(t(1), t(2))
       [] c.is = "SymbolDef"       -> solving.tags[<< unit.number, c.node >>] = t(1)
       [] c.is = "SymbolReference" -> FindSymbol(defs, c.name, t(1)) = {[id |-> solving.refs[c.node], type |-> t(1)]}
       [] c.is = "FieldAccess"     -> \E i \in DOMAIN d.types : d.fields[i] = c.name /\ t(2) = field(i, Behind(t(1)).kids)
       [] c.is = "TypeParameter"   -> t(1).kids = << t(2) >>
       [] c.is = "SizeOf"          -> solving.sizes[c.node] = t(1)
\* A unit that is found to be typed is well typed: every constraint holds of the types
\* found, every name means the one definition that fits, and what was asserted is so.
TypedMeansWellTyped ==
  phase = "judged" /\ Verdict(unit, solving) = "typed" =>
    /\ \A i \in DOMAIN unit.constraints : Holds(unit.constraints[i])
    /\ \A i \in DOMAIN unit.assertions :
         LET a == unit.assertions[i] IN UnifyTypes(a[2][1], solving.slots[a[1]]) = << solving.slots[a[1]] >>

\* While there is no error, what is known of a slot only becomes more specific: no later
\* constraint undoes what an earlier one has found (types/types.rs:547 changes in place).
KnownTypesOnlyNarrow ==
  [][phase = "solve" /\ phase' \in {"solve", "judged"} /\ solving'.errors = {} =>
       \A slot \in DOMAIN solving.slots :
         LET u == Unify(solving.slots[slot], solving'.slots[slot]) IN u.ok /\ ~ u.mutable]_vars

\* Every program ends: inference reaches a verdict, the instances come to an end, and the
\* module is run or rejected.
EveryProgramEnds == <>(phase = "done")

\* The typed programs that llvm_codegen.rs has no code for.
Typed(x) == {n \in DOMAIN x.nodes : NodeSlot(n) \in DOMAIN x.slots}
\* The type of the value the code of a node leaves: an `if` that is void may leave one.
RECURSIVE Leaves(_, _), IsPlace(_, _)
Leaves(x, n) ==
  LET node == x.nodes[n]
      kid(i) == Leaves(x, node.kids[i])
  IN IF NodeType(x, n) # Void THEN NodeType(x, n)
     ELSE IF node.is = "IfThenElse" /\ kid(3) # Void THEN kid(2)
     ELSE IF node.is \in {"Block", "Label"} /\ node.kids # <<>> THEN kid(Len(node.kids)) ELSE Void
Means(x, n, init) == n \in DOMAIN x.refs /\ RefersTo(x, n).init = init
IsPlace(x, n) ==
  LET node == x.nodes[n]
      k    == node.kids
  IN \/ node.is = "Reference" /\ (node.to # 0 \/ Means(x, n, "Expression"))
     \/ node.is = "FieldAccess" /\ (NodeType(x, k[1]).is = "Ptr" \/ IsPlace(x, k[1]))
     \/ node.is = "FunctionCall" /\ Means(x, k[1], "Intrinsic") /\ RefersTo(x, k[1]).name = "*" /\ Len(k) = 2
     \/ node.is = "TypeConstructor" /\ TypeDef(x, NodeType(x, n)).is = "union"
     \/ node.is = "Block" /\ k # <<>> /\ IsPlace(x, Last(k))
Unsupported(x) ==
  \E n \in Typed(x) :
    LET node == x.nodes[n]
        k    == node.kids
        type(i) == Leaves(x, k[i])
        values  == IF node.is = "FunctionCall" THEN 2 .. Len(k) ELSE DOMAIN k
    IN \* a void parameter, argument, variable, field or element
       \/ /\ node.is = "FunctionDefinition" /\ k[1] \in Typed(x)
          /\ \E i \in DOMAIN node.params : x.slots[VarSlot(node.params[i])] = Void
       \/ /\ node.is \in {"FunctionCall", "VariableInitialise", "TypeConstructor", "ArrayLiteral", "Assignment"}
          /\ \E i \in values : type(i) = Void
       \* an assignment to what has no place
       \/ node.is = "Assignment" /\ ~ IsPlace(x, k[1])
       \* floats that differ, a float as it is, an intrinsic as a value
       \/ node.is = "FunctionCall" /\ Means(x, k[1], "Intrinsic") /\ node.kids # <<>>
            /\ RefersTo(x, k[1]).name = "!=" /\ IsFloat(type(2))
       \/ node.is = "Convert" /\ IsFloat(type(1)) /\ NodeType(x, n) = type(1)
       \/ Means(x, n, "Intrinsic") /\ ~ \E m \in Typed(x) : x.nodes[m].is = "FunctionCall" /\ x.nodes[m].kids[1] = n
       \* a function in a struct, a field of a union that has no place
       \/ node.is = "TypeConstructor" /\ TypeDef(x, NodeType(x, n)).is = "struct" /\ \E i \in DOMAIN k : type(i).is = "Fun"
       \/ /\ node.is = "FieldAccess" /\ type(1).is = "Def" /\ TypeDef(x, type(1)).is = "union"
          /\ ~ IsPlace(x, k[1])
       \* an `if` that is void and leaves values of two types, or the value of a void function
       \/ node.is = "IfThenElse" /\ Void \notin {type(2), type(3)} /\ type(2) # type(3)
       \/ node.is = "FunctionDefinition" /\ k[1] \in Typed(x) /\ NodeType(x, k[1]) = Void /\ type(1) # Void

\* Exactly the typed programs without one of those parts are generated, and each function
\* passes LLVM's verifier: "invalid generated function" (llvm_codegen.rs:397) and the
\* "COMPILER BUG" panics are never met otherwise.
CodeForAllThatIsSupported ==
  /\ phase = "run" => \A i \in DOMAIN fresh : ~ Unsupported(Info(fresh[i]))
  /\ phase = "done" /\ ~ result.ran /\ result.fault \notin {"", "unreturnable"} =>
       \E i \in DOMAIN fresh : Unsupported(Info(fresh[i]))

\* The code does what the program says: the same value, and the same statics afterwards,
\* whenever the program says something.
RunsAsMeant ==
  result.ran /\ result.meantFault = "" /\ phase \in {"load", "done"} =>
    /\ result.fault = ""
    /\ Agree(Info(1), result.type, result.meant, result.made)
    /\ \A id \in DOMAIN world.statics :
         LET x == world.units[id[1]]
         IN Agree(x, (CHOOSE d \in x.defs : d.id = id).type,
                  world.mem[world.statics[id]], machine.mem[machine.globals[id]])
=============================================================================
