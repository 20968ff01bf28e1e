------------------------------ MODULE Codegen ------------------------------
(***************************************************************************)
(* From the typed nodes of a unit to functions of blocks                   *)
(* (llvm_codegen.rs).  A generator is a record that is passed along: the   *)
(* unit it is about (x), the function that is being made (its blocks, the  *)
(* block code is added at, how many registers are set, the variables, the  *)
(* labels it is within), and v, the value of the expression made last.     *)
(***************************************************************************)
EXTENDS Solver, Llvm

\* x: number, nodes, and what inference found: slots, refs, sizes, types, defs, and
\* instances, the definition made for a polymorphic one and a type.
NodeType(x, n) == x.slots[NodeSlot(n)]

-----------------------------------------------------------------------------
\* to_basic_type, in a sequence that is empty for void.  A type has no layout if it has a
\* void part, if it contains itself, or if a union's widest field leaves part of a byte.
NoLayout == Ty("none", <<>>)
RECURSIVE HasLayout(_)
HasLayout(t) == t # NoLayout /\ \A i \in DOMAIN t.kids : HasLayout(t.kids[i])

PrimTy == "f64" :> I("double") @@ "f32" :> I("float") @@ "bool" :> I("i1") @@ "u8" :> I("i8") @@
          "u16" :> I("i16") @@ "i32" :> I("i32") @@ "u32" :> I("i32") @@ "i64" :> I("i64") @@ "u64" :> I("i64")

\* Mutant of UnionTy: the widest field is taken for the most aligned one.
UnionOfWidest(fields) ==
  LET widest == CHOOSE t \in ToSet(fields) : \A u \in ToSet(fields) : PreferredAlignment(t) <= PreferredAlignment(u)
  IN Ty("packed", << widest, BytesTy(0) >>)
MostAligned(fields) ==
  LET aligned == Max({PreferredAlignment(t) : t \in ToSet(fields)})
  IN SelectSeq(fields, LAMBDA t : PreferredAlignment(t) = aligned)[1]
Padded(t, bits) == IF bits % 8 # 0 THEN NoLayout ELSE Ty("packed", << t, BytesTy(bits \div 8) >>)
UnionTy(fields) ==
  LET first  == MostAligned(fields)
      widest == Max({BitSize(t) : t \in ToSet(fields)})
  IN IF fields = <<>> THEN Ty("packed", << BytesTy(0) >>) ELSE Padded(first, widest - BitSize(first))

Or(ty, other) == IF ty = <<>> THEN other ELSE ty[1]
Composite(is, fields) ==
  IF \E i \in DOMAIN fields : ~ HasLayout(Or(fields[i], NoLayout)) THEN NoLayout
  ELSE IF is = "struct" THEN Ty("struct", [i \in DOMAIN fields |-> fields[i][1]])
  ELSE UnionTy([i \in DOMAIN fields |-> fields[i][1]])

RECURSIVE BasicWithin(_, _, _)
FieldTy(x, t, within) == IF t.is = "Ptr" THEN << BytePointer >> ELSE BasicWithin(x, t, within)
\* composite_type, without its cache, which gives types of one name in one group a common
\* layout (llvm_codegen.rs:583): here each type has its own.
CompositeType(x, def, t, within) ==
  IF t \in within THEN NoLayout
  ELSE Composite(def.is, [i \in DOMAIN def.types |->
                            FieldTy(x, InstanceType(def, def.types[i], t.kids), within \cup {t})])

BasicWithin(x, t, within) ==
  LET kids == [i \in DOMAIN t.kids |-> BasicWithin(x, t.kids[i], within)]
      args == [i \in DOMAIN Tail(t.kids) |-> Or(kids[i + 1], NoLayout)]
  IN CASE t = Void   -> <<>>
       [] t.is = "Prim" /\ t # Void -> << PrimTy[t.name] >>
       [] t.is = "Fun" -> << Pointer(FunctionTy(Or(kids[1], VoidTy), args)) >>
       [] t.is = "Ptr" -> << Pointer(Or(kids[1], I("i8"))) >>
       [] t.is = "Def" -> << CompositeType(x, TypeDef(x, t), t, within) >>
Basic(x, t) == BasicWithin(x, t, {})
TyOf(x, t)  == Or(Basic(x, t), NoLayout)
AllocSize(t) == Aligned(StoreSize(t), Alignment(t)) \div 8

-----------------------------------------------------------------------------
\* Values: none, in a register, or in memory, where type is what the register points to.
NoValue == [in |-> "void", reg |-> 0, type |-> VoidTy]
InRegister(r, t) == [in |-> "register", reg |-> r, type |-> t]
InMemory(r, t)   == [in |-> "memory", reg |-> r, type |-> t]
Gives(g, v) == [g EXCEPT !.v = v]

\* The generator gives up: with an error, or in a panic.
Abort(g, why) == [g EXCEPT !.fault = IF @ = "" THEN why ELSE @, !.v = NoValue]

Emit(g, op, of, type, n) ==
  LET r == g.regs + 1
  IN IF g.fault # "" THEN g
     ELSE IF ~ HasLayout(type) THEN Abort(g, "layout")
     ELSE [g EXCEPT !.regs = r, !.v = IF type = VoidTy THEN NoValue ELSE InRegister(r, type),
             !.blocks[g.at] = Append(@, [op |-> op, to |-> r, of |-> of, type |-> type, n |-> n])]
NewBlocks(g, n) == [g EXCEPT !.blocks = @ \o [i \in 1 .. n |-> <<>>]]
At(g, b) == [g EXCEPT !.at = b]
Br(g, b) == Gives(Emit(g, "br", <<>>, VoidTy, << b >>), g.v)
CondBr(g, then, else) == Emit(g, "condbr", << g.v.reg >>, VoidTy, << then, else >>)
\* sides: what the generator was when it left each of the blocks that meet.
Phi(g, type, sides) ==
  Emit(g, "phi", [i \in DOMAIN sides |-> sides[i].v.reg], type, [i \in DOMAIN sides |-> sides[i].at])
Cast(g, type) == Emit(g, "cast", << g.v.reg >>, type, <<>>)

\* create_entry_block_alloca: before all else in the function.
EntryAlloca(g, t) ==
  LET r == g.regs + 1
      i == [op |-> "alloca", to |-> r, of |-> <<>>, type |-> Pointer(t), n |-> <<>>]
  IN IF g.fault # "" THEN g
     ELSE [g EXCEPT !.regs = r, !.blocks[1] = << i >> \o @, !.v = InRegister(r, Pointer(t))]
StoreIn(g, ptr, v) == Gives(Emit(g, "store", << ptr.reg, v.reg >>, VoidTy, <<>>), ptr)
StoreNew(g, v) == LET a == EntryAlloca(g, v.type) IN StoreIn(a, a.v, v)

ToRegister(g) == IF g.v.in = "memory" THEN Emit(g, "load", << g.v.reg >>, g.v.type, <<>>) ELSE g

RECURSIVE Generate(_, _)
\* codegen_value: an expression that must have a value.
HasValue(g) == IF g.v.in = "void" THEN Abort(g, "void") ELSE g
Value(g, n) == HasValue(ToRegister(Generate(g, n)))
Gather(g, vs) == [g |-> g, vs |-> Append(vs, g.v)]
Values(g, ids) == FoldLeft(LAMBDA r, n : Gather(Value(r.g, n), r.vs), [g |-> g, vs |-> <<>>], ids)
Regs(vs) == [i \in DOMAIN vs |-> vs[i].reg]

\* init_local_var
InitLocal(g, s, v) ==
  LET h == StoreNew(g, v)
  IN IF s \in DOMAIN g.vars THEN Abort(g, "initialised twice") ELSE [h EXCEPT !.vars = (s :> h.v) @@ @]

Address(h) ==
  CASE h.v.in = "void"     -> Abort(h, "void")
    [] h.v.in = "memory"   -> Gives(h, InRegister(h.v.reg, Pointer(h.v.type)))
    [] h.v.in = "register" -> StoreNew(h, h.v)
AddressOf(g, n) == Address(Generate(g, n))

-----------------------------------------------------------------------------
\* The intrinsics.
IntOps(signed) == "+" :> "add" @@ "-" :> "sub" @@ "*" :> "mul" @@
  "/" :> (IF signed THEN "sdiv" ELSE "udiv") @@ "%" :> (IF signed THEN "srem" ELSE "urem")
FloatOps == "+" :> "fadd" @@ "-" :> "fsub" @@ "*" :> "fmul" @@ "/" :> "fdiv" @@ "%" :> "frem"
Orders   == {">", ">=", "<", "<=", "=="}

BinaryOp(g, name, t, vs) ==
  LET ops == IF IsFloat(t) THEN FloatOps ELSE IntOps(~ IsUnsigned(t))
      cmp == IF IsFloat(t) THEN Orders ELSE Orders \cup {"!="}
  IN IF name \in DOMAIN ops THEN Emit(g, "arith", Regs(vs), vs[1].type, << ops[name] >>)
     ELSE IF name \in cmp THEN Emit(g, IF IsFloat(t) THEN "fcmp" ELSE "icmp", Regs(vs), I("i1"), << name >>)
     ELSE Abort(g, "invalid intrinsic")

\* && and ||: the second operand has a block of its own, which is skipped once the value is known.
Second(first, known, b, and, start) ==
  LET end == start + 1
  IN Value(At(CondBr(Gives(known, first.v), IF and THEN start ELSE end, IF and THEN end ELSE start), start), b)
Meet(known, other, end) == Phi(At(Br(other, end), end), I("i1"), << known, other >>)
ShortCircuit(g, a, b, and) ==
  LET start == Len(g.blocks) + 1
      first == Value(NewBlocks(g, 2), a)
      known == Emit(first, "number", <<>>, I("i1"), << IF and THEN 0 ELSE 1 >>)
  IN Meet(known, Second(first, known, b, and, start), start + 1)

\* codegen_index: a pointer to the element.
DataOf(c, t) ==
  IF t.is = "Ptr" THEN c
  ELSE Cast(Emit(c, "extract", << c.v.reg >>, BytePointer, << 1 >>), Pointer(TyOf(c.x, t.kids[1])))
ElementAt(i, ptr) == Emit(i, "index", << ptr.reg, i.v.reg >>, ptr.type, <<>>)
IndexFrom(ptr, index) == ElementAt(Value(ptr, index), ptr.v)
Index(g, container, index) == IndexFrom(DataOf(Value(g, container), NodeType(g.x, container)), index)

UnaryOp(v, name, t) ==
  LET is == CASE name = "-" -> IF IsFloat(t) THEN "fneg" ELSE "neg"
              [] name = "!" -> "not"
              [] OTHER      -> "external"
  IN IF name = "*" THEN Gives(v, InMemory(v.v.reg, Pointee(v.v.type)))
     ELSE Emit(v, is, << v.v.reg >>, v.v.type, << name >>)

IntrinsicCall(g, name, args, return) ==
  LET t == NodeType(g.x, args[1])
      r == Values(g, args)
  IN CASE args = <<>> -> Emit(g, "zero", <<>>, TyOf(g.x, return), <<>>)
       [] Len(args) = 2 /\ name = "Index" -> Index(g, args[1], args[2])
       [] Len(args) = 2 /\ name \in {"&&", "||"} -> ShortCircuit(g, args[1], args[2], name = "&&")
       [] Len(args) = 2 /\ name \notin {"Index", "&&", "||"} -> BinaryOp(r.g, name, t, r.vs)
       [] Len(args) = 1 /\ name = "&"  -> AddressOf(g, args[1])
       [] Len(args) = 1 /\ name # "&"  -> UnaryOp(r.g, name, t)

-----------------------------------------------------------------------------
\* One operator for each kind of node.
\* How the bits change: width is how many there are more.
Conversions(from, to, width) ==
  CASE IsInt(from) /\ IsInt(to) /\ width < 0     -> << "trunc" >>
    [] IsInt(from) /\ IsInt(to) /\ width > 0     -> << IF IsUnsigned(from) THEN "zext" ELSE "sext" >>
    [] IsFloat(from) /\ IsFloat(to) /\ width # 0 -> << IF width < 0 THEN "fptrunc" ELSE "fpext" >>
    [] IsInt(from) /\ IsFloat(to) -> << IF IsUnsigned(from) THEN "uitofp" ELSE "sitofp" >>
    [] IsFloat(from) /\ IsInt(to) -> << IF IsUnsigned(to) THEN "fptoui" ELSE "fptosi" >>
    [] OTHER -> <<>>
ConvertNumber(v, from, to, ty, is) ==
  IF is # <<>> THEN Emit(v, "convert", << v.v.reg >>, ty, is)
  ELSE IF IsInt(from) /\ IsInt(to) THEN v ELSE Abort(v, "cast")
\* from_ty and to_ty are the layouts of the types.
ConvertValue(v, from, to, from_ty, to_ty) ==
  CASE IsPointer(from) /\ IsPointer(to) -> Cast(v, to_ty)
    [] IsPointer(from) # IsPointer(to)  -> Emit(v, "external", << v.v.reg >>, to_ty, <<>>)
    [] ~ IsPointer(from) /\ ~ IsPointer(to) ->
         ConvertNumber(v, from, to, to_ty, Conversions(from, to, BitSize(to_ty) - BitSize(from_ty)))
ConvertNode(g, n) ==
  LET value == g.x.nodes[n].kids[1]
      from  == NodeType(g.x, value)
      to    == NodeType(g.x, n)
  IN IF Void \in {from, to} THEN Abort(g, "void cast")
     ELSE ConvertValue(Value(g, value), from, to, TyOf(g.x, from), TyOf(g.x, to))

\* While and IfThen have no value.
While(g, node) ==
  LET cond == Len(g.blocks) + 1
      test == Value(At(Br(NewBlocks(g, 3), cond), cond), node.kids[1])
      body == Generate(At(CondBr(test, cond + 1, cond + 2), cond + 1), node.kids[2])
  IN Gives(At(Br(body, cond), cond + 2), NoValue)
IfThen(g, node) ==
  LET then == Len(g.blocks) + 1
      test == Value(NewBlocks(g, 2), node.kids[1])
      body == Generate(At(CondBr(test, then, then + 1), then), node.kids[2])
  IN Gives(At(Br(body, then + 1), then + 1), NoValue)

Else(yes, node, then) ==
  ToRegister(Generate(At(Br(yes, then + 2), then + 1), node.kids[3]))
EndIf(yes, no, end) ==
  IF "void" \in {yes.v.in, no.v.in} THEN Gives(At(Br(no, end), end), NoValue)
  ELSE Phi(At(Br(no, end), end), yes.v.type, << yes, no >>)
IfThenElse(g, node) ==
  LET then == Len(g.blocks) + 1
      test == Value(NewBlocks(g, 3), node.kids[1])
      yes  == ToRegister(Generate(At(CondBr(test, then, then + 1), then), node.kids[2]))
  IN EndIf(yes, Else(yes, node, then), then + 2)

\* A label joins the end of its body and every break to it.
EndLabel(body, labels, exit) ==
  LET end == [At(Br([body EXCEPT !.labels = labels], exit), exit) EXCEPT !.labels = Front(body.labels)]
  IN IF body.v.in = "void" THEN Gives(end, NoValue)
     ELSE Phi(end, body.v.type, << body >> \o Last(body.labels).sent)
Label(g, node) ==
  LET exit == Len(g.blocks) + 1
      here == [label |-> node.to, exit |-> exit, sent |-> <<>>]
  IN EndLabel(ToRegister(Generate([NewBlocks(g, 1) EXCEPT !.labels = Append(@, here)], node.kids[1])),
              g.labels, exit)

\* A break sends its value along; what is after it goes to a block that nothing reaches.
BreakValue(g, node) == IF node.kids = <<>> THEN Gives(g, NoValue) ELSE ToRegister(Generate(g, node.kids[1]))
LabelAt(g, label) == {i \in DOMAIN g.labels : g.labels[i].label = label}
Unreached(g) == Gives(At(NewBlocks(g, 1), Len(g.blocks) + 1), NoValue)
Send(g, i, from) ==
  IF from.v.in = "void" THEN g
  ELSE [g EXCEPT !.labels[i].sent = Append(@, [v |-> from.v, at |-> from.at])]
\* Mutant of Break: the value is not passed on.
BreakWithoutValue(g, at) ==
  IF at = {} THEN Abort(g, "label") ELSE Unreached(Br(g, g.labels[Min(at)].exit))
Break(g, at) ==
  IF at = {} THEN Abort(g, "label") ELSE Unreached(Send(Br(g, g.labels[Min(at)].exit), Min(at), g))
BreakToLabel(g, node) == LET v == BreakValue(g, node) IN Break(v, LabelAt(v, node.to))

\* Structs hold their pointers as pointers to bytes.
StructInit(g, t, vs) ==
  LET part(h, v) == IF v.type.is = "ptr" THEN Cast(Gives(h, v), BytePointer) ELSE Gives(h, v)
      put(h, p, i) == Emit(p, "insert", << h.v.reg, p.v.reg >>, t, << i >>)
      insert(h, i) == put(h, part(h, vs[i]), i)
  IN FoldLeft(insert, Emit(g, "zero", <<>>, t, <<>>), [i \in DOMAIN vs |-> i])
UnionInit(room, t, v) ==
  LET part == Cast(room, Pointer(v.type))
  IN Gives(StoreIn(part, part.v, v), InMemory(room.v.reg, t))
TypeInit(is, r, ty) ==
  IF is = "struct" THEN StructInit(r.g, ty, r.vs)
  ELSE IF ~ HasLayout(ty) THEN Abort(r.g, "layout")
  ELSE UnionInit(EntryAlloca(r.g, ty), ty, r.vs[1])
TypeConstructor(g, node, n) ==
  LET t == NodeType(g.x, n)
  IN TypeInit(TypeDef(g.x, t).is, Values(g, node.kids), TyOf(g.x, t))

\* Through pointers, to a struct or a union.
RECURSIVE Dereferenced(_, _)
Dereferenced(g, t) ==
  LET p == ToRegister(g)
  IN IF t.is = "Ptr" /\ g.v.in # "void" THEN Dereferenced(Gives(p, InMemory(p.v.reg, Pointee(p.v.type))), t.kids[1]) ELSE g
\* A part of a struct or a union: where the whole is, or its value.
PartOf(s, def, i, ty) ==
  LET part == Emit(s, "extract", << s.v.reg >>, s.v.type.kids[i], << i >>)
  IN IF def.is = "union" THEN Emit(s, "bitcast", << s.v.reg >>, ty, <<>>)
     ELSE IF ty.is = "ptr" THEN Cast(part, ty) ELSE part
PlaceOf(s, def, i, ty) ==
  LET place == Emit(s, "field", << s.v.reg >>, Pointer(s.v.type.kids[i]), << i >>)
      whole == Gives(s, InRegister(s.v.reg, Pointer(s.v.type)))
      p     == Cast(IF def.is = "union" THEN whole ELSE place, Pointer(ty))
  IN Gives(p, InMemory(p.v.reg, ty))
FieldIn(s, def, i, ty) ==
  CASE s.v.in = "void"     -> Abort(s, "void")
    [] s.v.in = "memory"   -> PlaceOf(s, def, i, ty)
    [] s.v.in = "register" -> PartOf(s, def, i, ty)
Field(g, node, n) ==
  LET ct  == NodeType(g.x, node.kids[1])
      def == TypeDef(g.x, Behind(ct))
      i   == Min({k \in DOMAIN def.fields : def.fields[k] = node.name})
  IN FieldIn(Dereferenced(Generate(g, node.kids[1]), ct), def, i, TyOf(g.x, NodeType(g.x, n)))

\* Element k of an array that is being made; v has its value.
Element(v, array, elem, k) ==
  LET i  == Emit(v, "number", <<>>, I("i32"), << k - 1 >>)
      at == Emit(i, "index", << array.v.reg, i.v.reg >>, Pointer(elem), <<>>)
  IN StoreIn(at, at.v, v.v)
ArrayOf(full, t, ptr, n) ==
  LET len == Emit(full, "number", <<>>, I("i64"), << n >>) IN StructInit(len, t, << ptr, len.v >>)
ElementsOf(array, node, elem) ==
  FoldLeft(LAMBDA h, k : Element(Value(h, node.kids[k]), array, elem, k), array, [k \in DOMAIN node.kids |-> k])
ArrayWith(array, node, elem, t) == ArrayOf(ElementsOf(array, node, elem), t, array.v, Len(node.kids))
NewArray(g, node, elem, t) ==
  ArrayWith(Emit(g, "malloc", <<>>, Pointer(elem), << Len(node.kids) >>), node, elem, t)
ArrayLiteral(g, node, n) ==
  LET t == NodeType(g.x, n) IN NewArray(g, node, TyOf(g.x, t.kids[1]), TyOf(g.x, t))

Assign(place, v) ==
  CASE place.v.in = "void"     -> Abort(place, "void")
    [] place.v.in = "register" -> Abort(place, "assign")
    [] place.v.in = "memory"   -> Gives(StoreIn(v, place.v, v.v), NoValue)
Assignment(g, node) ==
  LET place == Generate(g, node.kids[1]) IN Assign(place, Value(place, node.kids[2]))

\* A global, or a function.  Of the definitions of a group with one name, the module keeps one.
GlobalAt(g, name, here) ==
  LET p == Emit([g EXCEPT !.globals = (name :> here) @@ @], "global", <<>>, Pointer(here.type), here.id)
  IN Gives(p, InMemory(p.v.reg, here.type))
ValueOfDef(g, def, ty) ==
  CASE def.init = "Intrinsic" -> Abort(g, "intrinsic")
    [] def.init = "Function" \/ (def.init = "CBind" /\ def.type.is = "Fun") ->
         Emit(g, "function", <<>>, ty, << 0, def.id >>)
    [] OTHER ->
         GlobalAt(g, def.name, IF def.name \in DOMAIN g.globals THEN g.globals[def.name] ELSE [id |-> def.id, type |-> ty])
GlobalValue(g, n, d) ==
  LET def == IF d.vars = <<>> THEN d ELSE g.x.instances[<< d.id, NodeType(g.x, n) >>]
  IN ValueOfDef(g, def, TyOf(g.x, def.type))

StoreGlobal(v, at) ==
  LET p == Emit(v, "global", <<>>, Pointer(at.type), at.id) IN StoreIn(p, p.v, v.v)
InitVariable(v, node) ==
  IF node.name = "Local" THEN InitLocal(v, node.to, v.v) ELSE StoreGlobal(v, v.globals[node.params[1]])
Initialise(g, node) == Gives(InitVariable(Value(g, node.kids[1]), node), NoValue)

RefersTo(x, n) == CHOOSE d \in x.defs : d.id = x.refs[n]
Reference(g, node, n) ==
  IF node.to \in DOMAIN g.vars THEN Gives(g, InMemory(g.vars[node.to].reg, Pointee(g.vars[node.to].type)))
  ELSE IF n \in DOMAIN g.x.refs THEN GlobalValue(g, n, RefersTo(g.x, n)) ELSE Abort(g, "no value")

CallOf(f, r) ==
  IF f.fault # "" THEN f
  ELSE Emit(r.g, "call", << f.v.reg >> \o Regs(r.vs), Pointee(f.v.type).kids[1], <<>>)
CallNode(g, node, n) ==
  LET fn == node.kids[1]
      f  == Value(g, fn)
  IN IF fn \in DOMAIN g.x.refs /\ RefersTo(g.x, fn).init = "Intrinsic"
     THEN IntrinsicCall(g, RefersTo(g.x, fn).name, Tail(node.kids), NodeType(g.x, n))
     ELSE CallOf(f, Values(f, Tail(node.kids)))

\* Literals: a text of digits, and a float in halves.
RECURSIVE Number(_)
Number(word) ==
  LET last == SubSeq(word, Len(word), Len(word))
  IN IF word = "" THEN 0
     ELSE 10 * Number(SubSeq(word, 1, Len(word) - 1)) + (CHOOSE d \in 0 .. 9 : ToString(d) = last)
Halves(word) ==
  LET dot == CHOOSE i \in 1 .. Len(word) : SubSeq(word, i, i) = "."
  IN 2 * Number(SubSeq(word, 1, dot - 1)) + (IF SubSeq(word, dot + 1, Len(word)) = "5" THEN 1 ELSE 0)
CodegenStatic(g, node, type) ==
  LET const(v) == Emit(g, "number", <<>>, type, << v >>)
  IN CASE node.is = "Bool" -> const(IF node.name = "true" THEN 1 ELSE 0)
       [] node.is = "Int"  -> const(Number(node.name))
       [] node.is = "FloatLiteral" -> const(Halves(node.name))
LiteralOf(g, node, ty) ==
  LET text == Emit(g, "bytes", <<>>, BytePointer, << Len(node.name) >>)
      len  == Emit(text, "number", <<>>, I("i64"), << Len(node.name) >>)
  IN CASE node.is = "Unit"          -> Gives(g, NoValue)
       [] node.is = "StringLiteral" -> StructInit(len, ty, << text.v, len.v >>)
       [] OTHER                     -> CodegenStatic(g, node, ty)
Literal(g, node, n) == LiteralOf(g, node, TyOf(g.x, NodeType(g.x, n)))

Block(g, node) == FoldLeft(LAMBDA h, k : Generate(Gives(h, NoValue), k), Gives(g, NoValue), node.kids)
SizeOfNode(g, n) ==
  LET size(ty) == IF ty = <<>> THEN 0 ELSE AllocSize(ty[1])
  IN Emit(g, "number", <<>>, I("i64"), << size(Basic(g.x, g.x.sizes[n])) >>)

Generate(g, n) ==
  LET node == g.x.nodes[n]
  IN CASE g.fault # "" -> g
       [] g.fault = "" /\ node.is \in Literals -> Literal(g, node, n)
       [] node.is = "FunctionCall"       -> CallNode(g, node, n)
       [] node.is = "SizeOf"             -> SizeOfNode(g, n)
       [] node.is = "Convert"            -> ConvertNode(g, n)
       [] node.is = "While"              -> While(g, node)
       [] node.is = "IfThen"             -> IfThen(g, node)
       [] node.is = "IfThenElse"         -> IfThenElse(g, node)
       [] node.is = "Label"              -> Label(g, node)
       [] node.is = "Block"              -> Block(g, node)
       [] node.is = "Quote"              -> Emit(g, "external", <<>>, TyOf(g.x, NodeType(g.x, n)), <<>>)
       [] node.is = "TypeConstructor"    -> TypeConstructor(g, node, n)
       [] node.is = "FieldAccess"        -> Field(g, node, n)
       [] node.is = "ArrayLiteral"       -> ArrayLiteral(g, node, n)
       [] node.is = "Assignment"         -> Assignment(g, node)
       [] node.is = "VariableInitialise" -> Initialise(g, node)
       [] node.is = "Reference"          -> Reference(g, node, n)
       [] node.is = "BreakToLabel"       -> BreakToLabel(g, node)
       [] node.is \in {"CBind", "FunctionDefinition", "TypeAlias", "struct", "union"} -> Gives(g, NoValue)

-----------------------------------------------------------------------------
\* codegen_function: the arguments get a place in memory, and the function is verified.
Argument(p, s) == InitLocal(p, s, p.v)
EndFunction(body) == Emit(body, "ret", IF body.v.in = "void" THEN <<>> ELSE << body.v.reg >>, VoidTy, <<>>)
AddFunction(g, id, f, fault) ==
  IF fault # "" THEN [g EXCEPT !.fault = fault]
  ELSE IF ~ Verify(f) THEN Abort(g, "invalid") ELSE [g EXCEPT !.code = (id :> f) @@ @]
FunctionOf(g, def, return, end) == AddFunction(g, def.id, [return |-> return, blocks |-> end.blocks], end.fault)
GenerateFunction(g, def) ==
  LET node  == g.x.nodes[def.id[2]]
      start == [NewBlocks([g EXCEPT !.blocks = <<>>, !.regs = 0, !.vars = <<>>, !.labels = <<>>], 1) EXCEPT !.at = 1]
      args  == FoldLeft(LAMBDA h, i : Argument(Emit(h, "param", <<>>, TyOf(g.x, def.type.kids[i + 1]), << i >>), node.params[i]),
                        start, [i \in DOMAIN node.params |-> i])
  IN IF g.fault # "" THEN g
     ELSE FunctionOf(g, def, Pointee(TyOf(g.x, def.type)).kids[1], EndFunction(ToRegister(Generate(args, node.kids[1]))))

\* codegen_module: the code of the units of a group, in a sequence.
OwnDefs(x) ==
  LET at(n) == {d \in x.defs : d.id = << x.number, n >>}
      ids   == SelectSeq([n \in DOMAIN x.nodes |-> n], LAMBDA n : at(n) # {})
  IN SelectSeq([i \in DOMAIN ids |-> CHOOSE d \in at(ids[i]) : TRUE], LAMBDA d : d.vars = <<>>)
\* Its globals: of the statics with one name, the first.
Globals(statics) ==
  [name \in {statics[i][2].name : i \in DOMAIN statics} |->
     LET first == statics[Min({i \in DOMAIN statics : statics[i][2].name = name})]
     IN [id |-> first[2].id, type |-> TyOf(first[1], first[2].type)]]
NoCode == [x |-> <<>>, code |-> <<>>, globals |-> <<>>, blocks |-> <<>>, at |-> 0, regs |-> 0,
           vars |-> <<>>, labels |-> <<>>, v |-> NoValue, fault |-> ""]
GenerateDefs(all) ==
  LET of(init) == SelectSeq(all, LAMBDA p : p[2].init = init)
      sound    == \A i \in DOMAIN all : HasLayout(TyOf(all[i][1], all[i][2].type))
  IN IF ~ sound THEN Abort(NoCode, "layout")
     ELSE FoldLeft(LAMBDA g, p : GenerateFunction([g EXCEPT !.x = p[1]], p[2]),
                   [NoCode EXCEPT !.globals = Globals(of("Expression"))], of("Function"))
DefsOf(x) == LET own == OwnDefs(x) IN [k \in DOMAIN own |-> << x, own[k] >>]
GenerateGroup(xs) == GenerateDefs(FlattenSeq([i \in DOMAIN xs |-> DefsOf(xs[i])]))
=============================================================================
