----------------------------- MODULE Structure -----------------------------
(***************************************************************************)
(* From an expression tree to the nodes of a unit (structure.rs).  Nodes   *)
(* and symbols are numbered as they are made, so that a node's parts come  *)
(* before it.  A converter is a record that is passed along: what it has   *)
(* made, the scopes and labels it is within, whether it met an error, and  *)
(* `at`, the node made last.                                               *)
(***************************************************************************)
EXTENDS Parser, FiniteSetsExt

\* kids: the nodes it is made of; to: a symbol or a label, or 0; params: symbols or
\* names; tags: type expressions, each in a sequence of at most one.
Node(is, name, kids) ==
  [is |-> is, name |-> name, kids |-> kids, to |-> 0, params |-> <<>>, tags |-> <<>>, vars |-> <<>>]

Converter == [nodes |-> <<>>, symbols |-> <<>>, labels |-> 0, in_scope |-> <<>>,
              scopes |-> << <<>> >>, ok |-> TRUE, at |-> 0]

Failed(c) == [c EXCEPT !.ok = FALSE]
AddNode(c, n) == [c EXCEPT !.nodes = Append(@, n), !.at = Len(c.nodes) + 1]
AddSymbol(c, name) == [c EXCEPT !.symbols = Append(@, name)]
LastSymbol(c) == Len(c.symbols)

AddVarToScope(c, s) == [c EXCEPT !.scopes[Len(c.scopes)] = Append(@, s)]

\* The last variable of the name, of the scopes the converter is within; 0 if none is.
FindVar(c, name) ==
  LET visible == SelectSeq(FlattenSeq(c.scopes), LAMBDA s : c.symbols[s] = name)
  IN IF visible = <<>> THEN 0 ELSE Last(visible)

IsSymbol(e) == e.type = "Symbol"
IsConstruct(e, tag, n) == e.type = "Construct" /\ e.tag = tag /\ Len(e.args) = n

\* expr_to_symbol and typed_symbol: a name, perhaps with a type.
SymbolOf(c, e) == IF IsSymbol(e) THEN AddSymbol(c, e.tag) ELSE Failed(c)
NameAndType(e) ==
  IF IsConstruct(e, ":", 2) THEN [name |-> e.args[1], type |-> << e.args[2] >>]
  ELSE [name |-> e, type |-> <<>>]

\* Applies F for each part in turn, and gathers the nodes it ends at.
Each(c, parts, F(_, _)) ==
  FoldLeft(LAMBDA r, e : LET d == F(r.c, e) IN [c |-> d, ids |-> Append(r.ids, d.at)],
           [c |-> c, ids |-> <<>>], parts)

FunctionCall(c, name, args) ==
  LET f == AddNode(c, Node("Reference", name, <<>>))
  IN AddNode(f, Node("FunctionCall", "", << f.at >> \o args))
\* Several nodes in a row.  What they are made of is counted from the node before them,
\* which is 0; CallTo is a call of a function, with its name as node number `at` of the row.
AddNodes(c, row) ==
  FoldLeft(LAMBDA d, n : AddNode(d, [n EXCEPT !.kids = [k \in DOMAIN @ |-> @[k] + c.at]]), c, row)
CallTo(at, name, args) == << Node("Reference", name, <<>>), Node("FunctionCall", "", << at >> \o args) >>

\* labelled_node: the body is converted within a label of its own, which is then closed.
OpenLabel(c) == [c EXCEPT !.labels = @ + 1, !.in_scope = Append(@, c.labels + 1)]
LabelledNode(c, body) ==
  AddNode([body EXCEPT !.in_scope = Front(@)], [Node("Label", "", << body.at >>) EXCEPT !.to = c.labels + 1])

OpenScope(c) == [c EXCEPT !.scopes = Append(@, <<>>)]
CloseScope(inner) == [inner EXCEPT !.scopes = Front(@)]

\* A text location in a template, three structs of numbers, and their types' names.
IntLiteral == Node("Int", "0", <<>>)
StructOf(type, kids) == [Node("TypeConstructor", type, kids) EXCEPT !.params = [k \in DOMAIN kids |-> ""]]
LocStruct == << IntLiteral,
                IntLiteral, IntLiteral, StructOf("text_marker", << 2, 3 >>),
                IntLiteral, IntLiteral, StructOf("text_marker", << 5, 6 >>),
                StructOf("text_location", << 1, 4, 7 >>) >>
LocSymbols == << "text_marker", "text_marker", "text_location" >>

RECURSIVE ToNode(_, _), Spliced(_)

\* compile_template_arguments: the parts of a quote that are marked with $.
Spliced(e) ==
  IF IsConstruct(e, "$", 1) THEN e.args
  ELSE FlattenSeq([i \in DOMAIN e.args |-> Spliced(e.args[i])])

\* A value in a template: &sym(value, location).
Coerced(c, id) ==
  AddNodes([c EXCEPT !.symbols = @ \o LocSymbols],
           LocStruct \o CallTo(9, "sym", << id - c.at, 8 >>) \o CallTo(11, "&", << 10 >>))
TemplateQuote(args, quote) ==
  LET array == AddNode(args.c, Node("ArrayLiteral", "", args.ids))
  IN FunctionCall(array, "template_quote", << quote, array.at >>)
Template(spliced, quote) ==
  IF spliced = <<>> THEN quote ELSE TemplateQuote(Each(quote, spliced, Coerced), quote.at)
QuoteToNode(c, e) ==
  LET spliced == Each(c, Spliced(e), ToNode)
  IN Template(spliced.ids, AddNode(spliced.c, Node("Quote", "", <<>>)))

\* new T(...): the fields may be named.
ToTypeConstructor(c, args) ==
  LET named(e) == IsConstruct(e, ":", 2)
      field(d, e) == IF named(e) THEN ToNode(SymbolOf(d, e.args[1]), e.args[2]) ELSE ToNode(d, e)
      values == Each(SymbolOf(c, args[1]), Tail(args), field)
      names  == [i \in DOMAIN Tail(args) |->
                   IF named(args[i + 1]) THEN args[i + 1].args[1].tag ELSE ""]
  IN IF args = <<>> THEN Failed(c)
     ELSE AddNode(values.c, [Node("TypeConstructor", args[1].tag, values.ids) EXCEPT !.params = names])

\* FunctionConverter::new: a function's arguments are the only variables its body
\* sees, and its label the only label.
\* Mutant of FunctionConverter: the body also sees the variables around it.
FunctionConverterOver(c, args) == [c EXCEPT !.in_scope = <<>>, !.scopes = Append(@, args)]
FunctionConverter(c, args) == [c EXCEPT !.in_scope = <<>>, !.scopes = << args >>]

FunctionDefToNode(c, es) ==
  LET middle  == SubSeq(es, 3, Len(es) - 1)
      vars    == SelectSeq(middle, LAMBDA e : e.tag = "polytypes")
      return  == SelectSeq(middle, LAMBDA e : e.tag # "polytypes")
      typed   == [i \in DOMAIN es[2].args |-> NameAndType(es[2].args[i])]
      args    == FoldLeft(LAMBDA d, a : SymbolOf(d, a.name), c, typed)
      symbols == [i \in DOMAIN typed |-> Len(c.symbols) + i]
      outer   == FunctionConverter(args, symbols)
      inner   == LabelledNode(outer, ToNode(OpenLabel(outer), Last(es)))
      def     == [Node("FunctionDefinition", es[1].tag, << inner.at >>) EXCEPT
                    !.params = symbols,
                    !.tags = [i \in DOMAIN typed |-> typed[i].type] \o << return >>,
                    !.vars = IF vars = <<>> THEN <<>>
                             ELSE [i \in DOMAIN vars[1].args |-> vars[1].args[i].tag]]
      names   == { es[1] } \cup (IF vars = <<>> THEN {} ELSE ToSet(vars[1].args))
  IN IF Len(es) \notin 3 .. 5 \/ ~ args.ok \/ ~ inner.ok \/ ~ (\A e \in names : IsSymbol(e))
     THEN Failed(c)
     ELSE AddNode([inner EXCEPT !.in_scope = c.in_scope, !.scopes = c.scopes], def)

TypeDefinitionToNode(c, kind, head, fields) ==
  LET poly  == kind = "struct" /\ head.type = "Construct" /\ head.tag = "call"
      name  == IF poly THEN head.args[1] ELSE head
      vars  == IF poly THEN Tail(head.args) ELSE <<>>
      typed == [i \in DOMAIN fields.args |-> NameAndType(fields.args[i])]
      named == \A e \in { name } \cup ToSet(vars) \cup {typed[i].name : i \in DOMAIN typed} : IsSymbol(e)
  IN IF ~ named THEN Failed(c)
     ELSE AddNode(c, [Node(kind, name.tag, <<>>) EXCEPT
            !.params = [i \in DOMAIN typed |-> typed[i].name.tag],
            !.tags = [i \in DOMAIN typed |-> typed[i].type],
            !.vars = [i \in DOMAIN vars |-> vars[i].tag]])

\* let and static: the value is converted before the variable is in scope.
InitialiseToNode(c, scope, e) ==
  LET n     == NameAndType(e.args[1])
      named == SymbolOf(c, n.name)
      value == ToNode(named, e.args[2])
      init  == [Node("VariableInitialise", scope, << value.at >>) EXCEPT
                  !.to = LastSymbol(named), !.params = << n.name.tag >>, !.tags = << n.type >>]
  IN IF ~ IsConstruct(e, "=", 2) THEN Failed(c)
     ELSE AddNode(IF scope = "Local" THEN AddVarToScope(value, LastSymbol(named)) ELSE value, init)

\* for v in range, once the range is converted: an iterator without a name in the program,
\* the variable, and a loop while next(it, &var).
LoopHead(c, it, var) ==
  LET let(s, value) == [Node("VariableInitialise", "Local", << value >>) EXCEPT !.to = s, !.tags = << <<>> >>]
      see(s) == [Node("Reference", c.symbols[s], <<>>) EXCEPT !.to = s]
  IN AddNodes(AddVarToScope(c, var),
       CallTo(1, "iter", << 0 >>) \o CallTo(3, "&", << 2 >>) \o << let(it, 4) >>
         \o CallTo(6, "UnsafeZeroInit", <<>>) \o << let(var, 7), see(it), see(var) >>
         \o CallTo(11, "&", << 10 >>) \o CallTo(13, "next", << 9, 12 >>))
LoopEnd(c, range) ==
  LET while == AddNode(c, Node("While", "", << range + 14, c.at >>))
  IN AddNode(while, Node("Block", "", << range + 5, range + 8, while.at >>))
LoopOver(range, it, body) == LoopEnd(ToNode(LoopHead(range, it, it + 1), body), range.at)
ForLoop(c, head, body) ==
  LET names == SymbolOf(AddSymbol(OpenScope(OpenLabel(c)), "@range_var"), head.args[1])
  IN IF ~ IsConstruct(head, "in", 2) \/ ~ names.ok THEN Failed(c)
     ELSE LabelledNode(c, CloseScope(LoopOver(ToNode(names, head.args[2]), LastSymbol(c) + 1, body)))

\* return leaves the function's label, break the innermost one.
BreakTo(c, label, kids) == AddNode(c, [Node("BreakToLabel", "", kids) EXCEPT !.to = label])

\* Mutant of ReturnToNode: return leaves the innermost label too.
ReturnInnermost(c, es) ==
  LET values == Each(c, es, ToNode)
  IN IF Len(es) > 1 THEN Failed(c) ELSE BreakTo(values.c, Last(c.in_scope), values.ids)
ReturnToNode(c, es) ==
  LET values == Each(c, es, ToNode)
  IN IF Len(es) > 1 THEN Failed(c) ELSE BreakTo(values.c, c.in_scope[1], values.ids)

\* A construct whose parts are all converted, in the order given.
Simple(c, is, parts) == LET r == Each(c, parts, ToNode) IN AddNode(r.c, Node(is, "", r.ids))

CallToNode(c, es) ==
  LET f    == es[1]
      args == Each(c, Tail(es), ToNode)
      fun  == ToNode(args.c, f)
  IN IF f.type = "Symbol" /\ f.tag = "new" THEN ToTypeConstructor(c, Tail(es))
     ELSE IF f.type = "Symbol" /\ f.tag = "sizeof" /\ Len(es) = 2
          THEN AddNode(c, [Node("SizeOf", "", <<>>) EXCEPT !.tags = << << es[2] >> >>])
     ELSE AddNode(fun, Node("FunctionCall", "", << fun.at >> \o args.ids))

IndexToNode(c, es) ==
  LET parts == Each(c, es, ToNode)
      ptr   == FunctionCall(parts.c, "Index", parts.ids)
  IN IF Len(es) # 2 THEN Failed(c) ELSE FunctionCall(ptr, "*", << ptr.at >>)

ConstructToNode(c, e) ==
  LET es == e.args
      one == Len(es) = 1
      two == Len(es) = 2
  IN CASE e.tag = "call"                  -> CallToNode(c, es)
       [] e.tag = "as" /\ two             ->
            LET v == ToNode(c, es[1])
            IN AddNode(v, [Node("Convert", "", << v.at >>) EXCEPT !.tags = << << es[2] >> >>])
       [] e.tag = "static" /\ one         -> InitialiseToNode(c, "Global", es[1])
       [] e.tag = "let" /\ one            -> InitialiseToNode(c, "Local", es[1])
       [] e.tag = "type" /\ one           ->
            IF IsConstruct(es[1], "=", 2) THEN AddNode(c, Node("TypeAlias", "", <<>>)) ELSE Failed(c)
       [] e.tag = "#" /\ one              -> QuoteToNode(c, es[1])
       [] e.tag = "=" /\ two              -> Simple(c, "Assignment", es)
       [] e.tag = "return"                -> ReturnToNode(c, es)
       [] e.tag = "while" /\ two          -> LabelledNode(c, Simple(OpenLabel(c), "While", es))
       [] e.tag = "for" /\ two            -> ForLoop(c, es[1], es[2])
       [] e.tag = "if" /\ Len(es) <= 3    -> Simple(c, IF two THEN "IfThen" ELSE "IfThenElse", es)
       [] e.tag = "block"                 -> CloseScope(Simple(OpenScope(c), "Block", es))
       [] e.tag = "cbind" /\ one          ->
            IF IsConstruct(es[1], ":", 2) /\ IsSymbol(es[1].args[1])
            THEN AddNode(c, [Node("CBind", es[1].args[1].tag, <<>>) EXCEPT
                               !.tags = << << es[1].args[2] >> >>])
            ELSE Failed(c)
       [] e.tag = "fun"                   -> IF Len(es) < 3 THEN Failed(c) ELSE FunctionDefToNode(c, es)
       [] e.tag \in {"struct", "union"} /\ two -> TypeDefinitionToNode(c, e.tag, es[1], es[2])
       [] e.tag = "." /\ two              ->
            LET v == ToNode(c, es[1])
            IN AddNode(SymbolOf(v, es[2]), Node("FieldAccess", es[2].tag, << v.at >>))
       [] e.tag = "array"                 -> Simple(c, "ArrayLiteral", es)
       [] e.tag = "index"                 -> IndexToNode(c, es)
       [] OTHER                           -> Failed(c)

Literals == {"StringLiteral", "FloatLiteral", "Int", "Bool", "Unit"}

ToNode(c, e) ==
  CASE ~ c.ok -> c
    [] c.ok /\ e.type = "Construct" -> ConstructToNode(c, e)
    [] c.ok /\ IsSymbol(e) /\ e.tag = "break" -> BreakTo(c, Last(c.in_scope), <<>>)
    [] c.ok /\ IsSymbol(e) /\ e.tag # "break" ->
         AddNode(c, [Node("Reference", e.tag, <<>>) EXCEPT !.to = FindVar(c, e.tag)])
    [] c.ok /\ e.type \in Literals -> AddNode(c, Node(e.type, e.tag, <<>>))

\* A unit is the body of a function without arguments; its node is the last.
TopLevel(body) ==
  AddNode(body, [Node("FunctionDefinition", "__top_level", << body.at >>) EXCEPT !.tags = << <<>> >>])
ToNodes(e) == TopLevel(LabelledNode(Converter, ToNode(OpenLabel(Converter), e)))
=============================================================================
