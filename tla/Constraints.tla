---------------------------- MODULE Constraints ----------------------------
(***************************************************************************)
(* What the nodes of a unit say about its types (types/constraints.rs).  A *)
(* generator is a record that is passed along the nodes; it gathers        *)
(* assertions, which hold from the start, constraints between slots, the   *)
(* literals in the order of the program, and the unit's own definitions.   *)
(***************************************************************************)
EXTENDS Structure, Types

\* A slot for each node, one for each variable, and one more for some nodes.
NodeSlot(n) == 3 * n
VarSlot(s)  == 3 * s + 1
OwnSlot(n)  == 3 * n + 2

\* unit: its number; names are found in it and in what it imports.
Generator(unit) == [unit |-> unit, assertions |-> <<>>, constraints |-> <<>>, literals |-> <<>>, symbols |-> {},
              types |-> {}, params |-> <<>>, labels |-> <<>>, slots |-> {}, ok |-> TRUE]

GenError(g) == [g EXCEPT !.ok = FALSE]
AssertType(g, slot, t) ==
  [g EXCEPT !.assertions = Append(@, << slot, t >>), !.slots = @ \cup {slot}]

\* A constraint: its slots in the order the code keeps them, a name where it has one, the
\* node it is about, and the names of its fields.
Constrain(g, is, slots, name, node, fields) ==
  [g EXCEPT !.constraints = Append(@, [is |-> is, slots |-> slots, name |-> name,
                                       node |-> node, fields |-> fields]),
            !.slots = @ \cup ToSet(slots)]
Equivalent(g, a, b) == Constrain(g, "Equivalent", << a, b >>, "", 0, <<>>)

\* with_type_parameters: the innermost parameter of a name is found first.
SymbolToType(g, name) ==
  LET found == SelectSeq(g.params, LAMBDA p : p.name = name)
  IN IF name \in PrimNames \ {"()"} THEN Prim(name)
     ELSE IF found = <<>> THEN AbstractDef(name) ELSE Last(found).type

\* expr_to_type, in a sequence; empty if the expression is not a type.
RECURSIVE ExprToType(_, _)
ExprToType(g, e) ==
  LET all(es) == [i \in DOMAIN es |-> ExprToType(g, es[i])]
      args(es) == [i \in DOMAIN es |-> IF IsConstruct(es[i], ":", 2) THEN es[i].args[2] ELSE es[i]]
      parts == CASE e.type # "Construct" -> <<>>
                 [] e.type = "Construct" /\ e.tag = "fun" -> all(Tail(e.args) \o args(Head(e.args).args))
                 [] OTHER -> all(Tail(e.args))
      bad   == \E i \in DOMAIN parts : parts[i] = <<>>
      kids  == [i \in DOMAIN parts |-> parts[i][1]]
  IN CASE e.type = "Unit"   -> << Void >>
       [] e.type = "Symbol" -> << SymbolToType(g, e.tag) >>
       [] e.type = "Construct" /\ e.tag = "fun" /\ ~ bad ->
            << IF Len(e.args) = 1 THEN FunOf(Void, kids) ELSE FunOf(kids[1], Tail(kids)) >>
       [] e.type = "Construct" /\ e.tag = "call" /\ ~ bad /\ IsSymbol(e.args[1]) ->
            LET name == e.args[1].tag
                t    == SymbolToType(g, name)
            IN IF name = "ptr" /\ Len(kids) = 1 THEN << PtrTo(kids[1]) >>
               ELSE IF name = "ptr" THEN <<>> ELSE << [t EXCEPT !.kids = @ \o kids] >>
       [] OTHER -> <<>>

\* An optional type tag: its type in a sequence; an error if it is not a type.
TagType(g, tag) == IF tag = <<>> THEN <<>> ELSE ExprToType(g, tag[1])
OrAny(type) == IF type = <<>> THEN AnyType ELSE type[1]
TypedSlot(g, slot, type) == IF type = <<>> THEN GenError(g) ELSE AssertType(g, slot, type[1])
TagSlot(g, slot, tag) == IF tag = <<>> THEN g ELSE TypedSlot(g, slot, ExprToType(g, tag[1]))

\* The types of many tags, and whether all of them are types.
TagTypes(g, tags) == [i \in DOMAIN tags |-> TagType(g, tags[i])]
TagsOk(tags, types) == \A i \in DOMAIN tags : tags[i] = <<>> \/ types[i] # <<>>
WithParams(g, vars) ==
  [g EXCEPT !.params = @ \o [i \in DOMAIN vars |-> [name |-> vars[i], type |-> Polytype(vars[i])]]]

\* A definition of the unit; its type is not known yet.
AddSymbolDef(g, node, name, init, vars, slot) ==
  Constrain([g EXCEPT !.symbols = @ \cup
               {[id |-> << g.unit, node >>, name |-> name, type |-> AnyType, init |-> init, vars |-> vars]}],
            "SymbolDef", << slot >>, name, node, <<>>)

RECURSIVE Process(_, _, _)
ProcessAll(g, N, ids) == FoldLeft(LAMBDA h, n : Process(h, N, n), g, ids)

\* process_function_def: the body of a polymorphic function is left until it is instanced.
ProcessFunctionDef(g, N, id, type, vars) ==
  LET n     == N[id]
      named == AssertType(g, OwnSlot(id), type)
      args  == [i \in DOMAIN n.params |-> VarSlot(n.params[i])]
      whole(body) == [Constrain(body, "Function", << OwnSlot(id) >> \o args \o << NodeSlot(n.kids[1]) >>,
                                "", id, <<>>) EXCEPT !.labels = g.labels]
  IN AddSymbolDef(IF vars # <<>> THEN named ELSE whole(Process([named EXCEPT !.labels = <<>>], N, n.kids[1])),
                  id, n.name, "Function", vars, OwnSlot(id))

Signature(n, types) ==
  LET return == IF Last(types) # <<>> THEN Last(types)[1] ELSE IF n.vars # <<>> THEN Void ELSE AnyType
  IN FunOf(return, [i \in DOMAIN n.params |-> OrAny(types[i])])
ProcessSigned(g, N, id, types, sig) ==
  LET good == TagsOk(N[id].tags, types) /\ ToSet(N[id].vars) \subseteq PolytypesIn(sig)
  IN ProcessFunctionDef(IF good THEN g ELSE GenError(g), N, id, sig, N[id].vars)
ProcessTagged(g, N, id, types) == ProcessSigned(g, N, id, types, Signature(N[id], types))
ProcessFunction(g, N, id) ==
  LET inner == WithParams(g, N[id].vars)
  IN [ProcessTagged(inner, N, id, TagTypes(inner, N[id].tags)) EXCEPT !.params = g.params]

AddTypeDef(g, n, types) ==
  LET def   == [StructDef(n.name, g.unit, n.params, [i \in DOMAIN types |-> OrAny(types[i])], n.vars) EXCEPT !.is = n.is]
      added == [g EXCEPT !.types = @ \cup {def}]
  IN IF \E d \in g.types : d.name = n.name THEN GenError(g)
     ELSE IF TagsOk(n.tags, types) THEN added ELSE GenError(added)
ProcessTypeDefinition(g, N, id) ==
  AddTypeDef(g, N[id], TagTypes(WithParams(g, N[id].vars), N[id].tags))

LiteralType(n) ==
  CASE n.is = "FloatLiteral"  -> TypeOf("Float", "", <<>>)
    [] n.is = "Int"           -> TypeOf("Integer", "", <<>>)
    [] n.is = "Bool"          -> Bool
    [] n.is = "Unit"          -> Void
    [] n.is = "StringLiteral" -> AbstractDef("string")

ProcessBreak(g, N, id) ==
  LET n     == N[id]
      void  == AssertType(g, NodeSlot(id), Void)
      label == g.labels[n.to]
  IN IF n.kids = <<>> THEN AssertType(void, label, Void)
     ELSE Equivalent(Process(void, N, n.kids[1]), label, NodeSlot(n.kids[1]))

\* process_node, one operator for each kind of node that says more than its type.
ProcessInitialise(g, N, id) ==
  LET n      == N[id]
      value  == n.kids[1]
      var    == IF n.name = "Local" THEN VarSlot(n.to) ELSE OwnSlot(id)
      tagged == TagSlot(AssertType(g, NodeSlot(id), Void), var, n.tags[1])
      tied   == Equivalent(Process(tagged, N, value), var, NodeSlot(value))
  IN IF n.name = "Local" THEN tied ELSE AddSymbolDef(tied, id, n.params[1], "Expression", <<>>, var)

ProcessReference(g, n, id) ==
  IF n.to # 0 THEN Equivalent(g, NodeSlot(id), VarSlot(n.to))
  ELSE Constrain(g, "SymbolReference", << NodeSlot(id) >>, n.name, id, <<>>)

ProcessCBind(g, n, id) ==
  AddSymbolDef(TagSlot(AssertType(g, NodeSlot(id), Void), OwnSlot(id), n.tags[1]),
               id, n.name, "CBind", <<>>, OwnSlot(id))

\* The elements are tied one by one to the type parameter of the array.
ProcessArrayLiteral(g, N, id) ==
  LET n         == N[id]
      tie(h, k) == Equivalent(Process(h, N, k), NodeSlot(k), OwnSlot(id))
      array     == TypeOf("AbstractDef", "array", << AnyType >>)
  IN Constrain(AssertType(FoldLeft(tie, g, n.kids), NodeSlot(id), array),
               "TypeParameter", << NodeSlot(id), OwnSlot(id) >>, "", id, <<>>)

ProcessCall(g, n, id) ==
  LET sig == FunOf(AnyType, [i \in DOMAIN Tail(n.kids) |-> AnyType])
  IN Constrain(AssertType(g, NodeSlot(n.kids[1]), sig), "Function",
               [i \in DOMAIN n.kids |-> NodeSlot(n.kids[i])] \o << NodeSlot(id) >>, "", id, <<>>)

ProcessSizeOf(g, n, id) ==
  AssertType(Constrain(TagSlot(g, OwnSlot(id), n.tags[1]), "SizeOf", << OwnSlot(id) >>, "", id, <<>>),
             NodeSlot(id), Prim("u64"))

Process(g, N, id) ==
  LET n     == N[id]
      slot  == NodeSlot(id)
      k(i)  == NodeSlot(n.kids[i])
      slots == [i \in DOMAIN n.kids |-> k(i)]
      h     == [g EXCEPT !.slots = @ \cup {slot}]
      all   == ProcessAll(h, N, n.kids)
      void  == ProcessAll(AssertType(h, slot, Void), N, n.kids)
  IN CASE n.to \in DOMAIN g.labels /\ n.is = "BreakToLabel" -> ProcessBreak(h, N, id)
       [] n.is \in Literals -> [AssertType(h, slot, LiteralType(n)) EXCEPT !.literals = Append(@, slot)]
       [] n.is = "VariableInitialise" -> ProcessInitialise(h, N, id)
       [] n.is = "Assignment"         -> Equivalent(void, k(1), k(2))
       [] n.is \in {"IfThen", "While"} -> AssertType(void, k(1), Bool)
       [] n.is = "IfThenElse"         ->
            Constrain(AssertType(all, k(1), Bool), "Branch", << slot, k(2), k(3) >>, "", id, <<>>)
       [] n.is = "Block"              -> IF n.kids = <<>> THEN AssertType(h, slot, Void)
                                         ELSE Equivalent(all, slot, k(Len(n.kids)))
       [] n.is = "Quote"              -> AssertType(h, slot, PtrTo(AbstractDef("expr")))
       [] n.is = "Reference"          -> ProcessReference(h, n, id)
       [] n.is = "FunctionDefinition" -> ProcessFunction(AssertType(h, slot, Void), N, id)
       [] n.is = "CBind"              -> ProcessCBind(h, n, id)
       [] n.is = "TypeAlias"          -> AssertType(h, slot, Void)
       [] n.is \in {"struct", "union"} -> ProcessTypeDefinition(AssertType(h, slot, Void), N, id)
       [] n.is = "TypeConstructor"    ->
            Constrain(AssertType(all, slot, AbstractDef(n.name)), "Constructor", << slot >> \o slots,
                      n.name, id, n.params)
       [] n.is = "FieldAccess"        -> Constrain(all, "FieldAccess", << k(1), slot >>, n.name, id, <<>>)
       [] n.is = "ArrayLiteral"       -> ProcessArrayLiteral(h, N, id)
       [] n.is = "FunctionCall"       -> ProcessCall(all, n, id)
       [] n.is = "Convert"            ->
            Constrain(TagSlot(all, slot, n.tags[1]), "Convert", << k(1), slot >>, "", id, <<>>)
       [] n.is = "SizeOf"             -> ProcessSizeOf(h, n, id)
       [] n.is = "Label"              ->
            Equivalent(Process([h EXCEPT !.labels = (n.to :> slot) @@ @], N, n.kids[1]), slot, k(1))

\* types: those of the units it imports.
GetModuleConstraints(unit, N, types) == Process([Generator(unit) EXCEPT !.types = types], N, Len(N))

\* A polymorphic function's body, its type variables replaced by the types of an instance.
GetInstanceConstraints(unit, N, id, type, args, types) ==
  ProcessFunctionDef([Generator(unit) EXCEPT !.types = types,
                        !.params = [i \in DOMAIN args |-> [name |-> N[id].vars[i], type |-> args[i]]]],
                     N, id, type, <<>>)
=============================================================================
