------------------------------ MODULE Meaning ------------------------------
(***************************************************************************)
(* What a typed program says, node by node, without blocks, registers or   *)
(* jumps in the code: the reference for Codegen.  Integers are numbers in  *)
(* the range of their type.  A world is a record that is passed along: the *)
(* memory, the cell of each variable of the call, where a break leads to   *)
(* while it is on its way (0 if it is not), and the value seen last.       *)
(***************************************************************************)
EXTENDS Codegen

None == [is |-> "none", val |-> 0]
Val(v)   == [is |-> "value", val |-> v]
Place(p) == [is |-> "place", val |-> p]
Going(w) == w.jump = 0 /\ w.fault = ""
Fails(w, why) == [w EXCEPT !.fault = IF @ = "" THEN why ELSE @]
Says(w, v) == IF Going(w) THEN [w EXCEPT !.v = v] ELSE w

WidthOf(t) == Width[PrimTy[t.name].is]
Half(t)    == 2 ^ (WidthOf(t) - 1)
Fit(t, v)  == IF IsUnsigned(t) THEN v % (2 * Half(t)) ELSE ((v + Half(t)) % (2 * Half(t))) - Half(t)
Fitting(t, v) == Fit(t, v) = v

RECURSIVE ZeroOf(_, _)
ZeroOf(x, t) ==
  LET def == TypeDef(x, t)
  IN CASE t = Bool -> FALSE
       [] IsNumber(t) -> 0
       [] IsPointer(t) -> Null
       [] t.is = "Def" /\ def.is = "struct" -> [i \in DOMAIN def.types |-> ZeroOf(x, InstanceType(def, def.types[i], t.kids))]
       [] t.is = "Def" /\ def.is = "union"  -> ZeroOf(x, def.types[1])

\* A cell for a variable, or for a value that is pointed at: one in each call.
Keep(w, key, v) ==
  IF ~ Going(w) THEN w
  ELSE IF key \in DOMAIN w.cells THEN [w EXCEPT !.mem[w.cells[key]] = v]
  ELSE [w EXCEPT !.mem = Append(@, v), !.cells = (key :> Len(w.mem) + 1) @@ @]
CellOf(w, key) == Place(<< w.cells[key], <<>> >>)

RECURSIVE Eval(_, _)
\* The value an expression ends with, read where it is a place.
ReadPlace(w) ==
  LET p == w.v.val
  IN IF ~ Going(w) \/ w.v.is # "place" THEN w
     ELSE IF Mapped(w.mem, p) THEN Says(w, Val(Part(w.mem[p[1]], p[2]))) ELSE Fails(w, "wild")
Seen(w, n) == ReadPlace(Eval(w, n))
\* The values of several, in order.
Saw(w, vals) == [w |-> w, vals |-> Append(vals, w.v.val)]
SeenAll(w, ns) ==
  FoldLeft(LAMBDA r, n : IF ~ Going(r.w) THEN r ELSE Saw(Seen(r.w, n), r.vals), [w |-> w, vals |-> <<>>], ns)

Write(w, p, v) ==
  IF ~ Going(w) THEN w
  ELSE IF Mapped(w.mem, p) THEN [w EXCEPT !.mem[p[1]] = WithPart(@, p[2], v)] ELSE Fails(w, "wild")

\* An operation on numbers of type t.  Where unsigned numbers on both sides of the sign bit
\* are put in order, llvm_codegen.rs compares them as signed ones: nothing is said of those.
Operation(w, op, t, a, b) ==
  LET exact == CASE op = "+" -> a + b
                 [] op = "-" -> a - b
                 [] op = "*" -> IF IsFloat(t) THEN Quotient(a * b, 2) ELSE a * b
                 [] op = "/" -> Quotient(IF IsFloat(t) THEN 2 * a ELSE a, b)
                 [] op = "%" -> Remainder(a, b)
      order == CASE op = ">" -> a > b [] op = "<" -> a < b [] op = ">=" -> a >= b
                 [] op = "<=" -> a <= b [] op = "==" -> a = b [] op = "!=" -> a # b
  IN IF op \in {"/", "%"} /\ b = 0 THEN Fails(w, "undefined")
     ELSE IF op \in DOMAIN FloatOps THEN Says(w, Val(IF IsFloat(t) THEN exact ELSE Fit(t, exact)))
     ELSE IF IsUnsigned(t) /\ op \notin {"==", "!="} /\ (a < Half(t)) # (b < Half(t)) THEN Fails(w, "order")
     ELSE Says(w, Val(order))

Conversion(w, from, to, v) ==
  CASE IsPointer(from) /\ IsPointer(to) -> Says(w, Val(v))
    [] IsInt(from) /\ IsInt(to)         -> Says(w, Val(Fit(to, v)))
    [] IsInt(from) /\ IsFloat(to)       -> Says(w, Val(2 * v))
    [] IsFloat(from) /\ IsFloat(to)     -> Says(w, Val(v))
    [] IsFloat(from) /\ IsInt(to)       -> IF Fitting(to, Quotient(v, 2)) THEN Says(w, Val(Quotient(v, 2)))
                                           ELSE Fails(w, "undefined")
    [] OTHER                            -> Fails(w, "external")

Called(w, id, vals) ==
  LET x     == w.units[id[1]]
      node  == x.nodes[id[2]]
      enter == [w EXCEPT !.x = x, !.cells = <<>>, !.fuel = @ - 1]
      given == FoldLeft(LAMBDA u, i : Keep(u, << node.params[i] >>, vals[i]), enter, [i \in DOMAIN vals |-> i])
      back(u) == [u EXCEPT !.x = w.x, !.cells = w.cells]
  IN IF ~ Going(w) THEN w
     ELSE IF id[1] \notin DOMAIN w.units THEN Fails(w, "external")
     ELSE IF w.fuel = 0 THEN Fails(w, "unending")
     ELSE back(Seen(given, node.kids[1]))

\* && and || look at the second operand only if they must.
Intrinsic(w, n, name, args) ==
  LET t == NodeType(w.x, args[1])
      r == SeenAll(w, args)
      a == r.vals[1]
      first == Seen(w, args[1])
      inner == Eval(w, args[1])
      moved == IF t.is = "Ptr" THEN Moved(a, r.vals[2]) ELSE Moved(a[1], r.vals[2])
  IN CASE args = <<>>                -> Says(w, Val(ZeroOf(w.x, NodeType(w.x, n))))
       [] name \in {"&&", "||"}      -> IF Going(first) /\ first.v.val = (name = "&&") THEN Seen(first, args[2]) ELSE first
       [] name = "&"                 -> IF ~ Going(inner) THEN inner
                                        ELSE IF inner.v.is = "place" THEN Says(inner, Val(inner.v.val))
                                        ELSE LET kept == Keep(inner, << "of", n >>, inner.v.val)
                                             IN Says(kept, Val(CellOf(kept, << "of", n >>).val))
       [] ~ Going(r.w) /\ name \notin {"&&", "||", "&"} -> r.w
       [] name = "Index"             -> Says(r.w, Val(moved))
       [] name = "*" /\ Len(args) = 1 -> Says(r.w, Place(a))
       [] name = "!"                 -> Says(r.w, Val(~ a))
       [] name = "-" /\ Len(args) = 1 -> Says(r.w, Val(IF IsFloat(t) THEN - a ELSE Fit(t, - a)))
       [] Len(args) = 2              -> Operation(r.w, name, t, a, r.vals[2])
       [] OTHER                      -> Fails(r.w, "external")

Call1(w, node, n) ==
  LET fn   == node.kids[1]
      r    == SeenAll(w, node.kids)
      def  == RefersTo(w.x, fn)
  IN IF fn \in DOMAIN w.x.refs /\ def.init = "Intrinsic" THEN Intrinsic(w, n, def.name, Tail(node.kids))
     ELSE IF ~ Going(r.w) THEN r.w ELSE Called(r.w, r.vals[1], Tail(r.vals))

RECURSIVE Loop(_, _)
Loop(w, node) ==
  LET test == Seen(w, node.kids[1])
      body == Eval(test, node.kids[2])
  IN IF ~ Going(test) \/ ~ test.v.val THEN Says(test, None)
     ELSE IF w.fuel = 0 THEN Fails(w, "unending")
     ELSE IF Going(body) THEN Loop([body EXCEPT !.fuel = @ - 1], node) ELSE body

Choice(w, node) ==
  LET test == Seen(w, node.kids[1])
      taken == IF test.v.val THEN Seen(test, node.kids[2])
               ELSE IF Len(node.kids) = 3 THEN Seen(test, node.kids[3]) ELSE test
  IN IF ~ Going(test) THEN test ELSE IF Len(node.kids) = 3 THEN taken ELSE Says(taken, None)

Construct1(w, node, n) ==
  LET t    == NodeType(w.x, n)
      r    == SeenAll(w, node.kids)
      kept == Keep(r.w, << "new", n >>, r.vals[1])
  IN IF ~ Going(r.w) THEN r.w
     ELSE IF TypeDef(w.x, t).is = "struct" THEN Says(r.w, Val(r.vals)) ELSE Says(kept, CellOf(kept, << "new", n >>))

\* All fields of a union are the same place.
RECURSIVE Reached(_, _)
Reached(w, t) ==
  IF t.is # "Ptr" \/ ~ Going(w) THEN w
  ELSE LET p == IF w.v.is = "value" THEN w.v.val ELSE Part(w.mem[w.v.val[1]], w.v.val[2])
       IN IF w.v.is = "value" \/ Mapped(w.mem, w.v.val) THEN Reached(Says(w, Place(p)), t.kids[1]) ELSE Fails(w, "wild")
FieldOf(w, node) ==
  LET t   == NodeType(w.x, node.kids[1])
      r   == Reached(Eval(w, node.kids[1]), t)
      def == TypeDef(w.x, Behind(t))
      i   == Min({k \in DOMAIN def.fields : def.fields[k] = node.name})
  IN IF ~ Going(r) \/ def.is = "union" THEN r
     ELSE IF r.v.is = "value" THEN Says(r, Val(r.v.val[i]))
     ELSE Says(r, Place(<< r.v.val[1], Append(r.v.val[2], i) >>))

Elements(w, node) ==
  LET r    == SeenAll(w, node.kids)
      heap == [r.w EXCEPT !.mem = Append(@, r.vals)]
  IN IF Going(r.w) THEN Says(heap, Val(<< << Len(heap.mem), << 1 >> >>, Len(r.vals) >>)) ELSE r.w

Assigned(w, node) ==
  LET place == Eval(w, node.kids[1])
      v     == Seen(place, node.kids[2])
  IN IF Going(place) /\ Going(v) THEN Says(Write(v, place.v.val, v.v.val), None) ELSE v

\* Of a variable, and of a static.
Begun(w, node, n) ==
  LET v == Seen(w, node.kids[1])
  IN IF ~ Going(v) THEN v
     ELSE IF node.name = "Local" THEN Says(Keep(v, << node.to >>, v.v.val), None)
     ELSE Says(Write(v, << w.statics[<< w.x.number, n >>], <<>> >>, v.v.val), None)

Named(w, node, n) ==
  LET d   == RefersTo(w.x, n)
      def == IF d.vars = <<>> THEN d ELSE w.x.instances[<< d.id, NodeType(w.x, n) >>]
  IN IF node.to # 0 THEN Says(w, CellOf(w, << node.to >>))
     ELSE IF def.init = "Expression" THEN Says(w, Place(<< w.statics[def.id], <<>> >>))
     ELSE IF def.init = "Function" THEN Says(w, Val(def.id)) ELSE Fails(w, "external")

\* A break takes its value to the label.
Broken(w, node) ==
  LET v == IF node.kids = <<>> THEN Says(w, None) ELSE Seen(w, node.kids[1])
  IN IF Going(v) THEN [v EXCEPT !.jump = node.to] ELSE v
Labelled(w, node) ==
  LET body == Seen(w, node.kids[1]) IN IF body.jump = node.to THEN [body EXCEPT !.jump = 0] ELSE body

Literally(w, node) ==
  LET text == [w EXCEPT !.mem = Append(@, [i \in 1 .. Len(node.name) |-> 0])]
  IN CASE node.is = "Unit"  -> Says(w, None)
       [] node.is = "Bool"  -> Says(w, Val(node.name = "true"))
       [] node.is = "Int"   -> Says(w, Val(Number(node.name)))
       [] node.is = "FloatLiteral"  -> Says(w, Val(Halves(node.name)))
       [] node.is = "StringLiteral" -> Says(text, Val(<< << Len(text.mem), << 1 >> >>, Len(node.name) >>))

\* sizeof: each field as far from the start as its own size allows.
RECURSIVE Bytes(_, _), Boundaries(_, _)
FieldTypes(x, t) == LET d == TypeDef(x, t) IN [i \in DOMAIN d.types |-> InstanceType(d, d.types[i], t.kids)]
Boundaries(x, t) ==
  IF t.is # "Def" THEN Bytes(x, t)
  ELSE IF TypeDef(x, t).is = "union" THEN 1 ELSE Max({1} \cup {Boundaries(x, f) : f \in Range(FieldTypes(x, t))})
Bytes(x, t) ==
  LET up(n, to) == n + ((0 - n) % to)
      fields    == FieldTypes(x, t)
      end       == FoldLeft(LAMBDA at, f : up(at, Boundaries(x, f)) + Bytes(x, f), 0, fields)
  IN CASE t = Void -> 0
       [] t.name \in {"bool", "u8"} /\ t.is = "Prim" -> 1
       [] t.name = "u16" /\ t.is = "Prim" -> 2
       [] t.name \in {"i32", "u32", "f32"} /\ t.is = "Prim" -> 4
       [] IsPointer(t) \/ (t.is = "Prim" /\ t.name \in {"i64", "u64", "f64"}) -> 8
       [] t.is = "Def" /\ TypeDef(x, t).is = "struct" -> up(end, Boundaries(x, t))
       [] t.is = "Def" /\ TypeDef(x, t).is = "union"  -> Max({0} \cup {Bytes(x, f) : f \in Range(fields)})

Eval(w, n) ==
  LET node  == w.x.nodes[n]
      kid   == Seen(w, node.kids[1])
      to(i) == NodeType(w.x, i)
  IN CASE ~ Going(w) -> w
       [] node.is \in Literals           -> Literally(w, node)
       [] node.is = "FunctionCall"       -> Call1(w, node, n)
       [] node.is = "SizeOf"             -> Says(w, Val(Bytes(w.x, w.x.sizes[n])))
       [] node.is = "Convert"            -> IF Going(kid) THEN Conversion(kid, to(node.kids[1]), to(n), kid.v.val) ELSE kid
       [] node.is = "While"              -> Loop(w, node)
       [] node.is \in {"IfThen", "IfThenElse"} -> Choice(w, node)
       [] node.is = "Label"              -> Labelled(w, node)
       [] node.is = "Block"              -> FoldLeft(LAMBDA u, k : Eval(Says(u, None), k), Says(w, None), node.kids)
       [] node.is = "Quote"              -> Fails(w, "external")
       [] node.is = "TypeConstructor"    -> Construct1(w, node, n)
       [] node.is = "FieldAccess"        -> FieldOf(w, node)
       [] node.is = "ArrayLiteral"       -> Elements(w, node)
       [] node.is = "Assignment"         -> Assigned(w, node)
       [] node.is = "VariableInitialise" -> Begun(w, node, n)
       [] node.is = "Reference"          -> Named(w, node, n)
       [] node.is = "BreakToLabel"       -> Broken(w, node)
       [] OTHER                          -> Says(w, None)

\* Whether a value of the generated code is the one that is meant.
RECURSIVE Agree(_, _, _, _)
Agree(x, t, meant, made) ==
  CASE IsInt(t)   -> made = meant % (2 * Half(t))
    [] IsFloat(t) -> made = meant
    [] t = Bool   -> (made = 1) = meant
    [] t.is = "Def" /\ TypeDef(x, t).is = "struct" ->
         \A i \in DOMAIN FieldTypes(x, t) : Agree(x, FieldTypes(x, t)[i], meant[i], made[i])
    [] OTHER      -> TRUE
=============================================================================
