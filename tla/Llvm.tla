-------------------------------- MODULE Llvm --------------------------------
(***************************************************************************)
(* What llvm_codegen.rs asks of LLVM: its types and how large they are,    *)
(* the check of a generated function, and the run of one.  Integers are    *)
(* bit patterns, of fewer bits than LLVM's but in the same order of size;  *)
(* a floating point number is counted in halves.  A pointer is a cell of   *)
(* the memory and a path into it; a pointer to a field, or an element, is  *)
(* one step longer.                                                        *)
(***************************************************************************)
EXTENDS Integers, Sequences, SequencesExt, FiniteSetsExt, TLC

Ty(is, kids) == [is |-> is, kids |-> kids]
I(bits)      == Ty(bits, <<>>)
Pointer(t)   == Ty("ptr", << t >>)
VoidTy       == Ty("void", <<>>)
BytePointer  == Pointer(I("i8"))
BytesTy(n)   == Ty("array", [i \in 1 .. n |-> I("i8")])
FunctionTy(return, args) == Ty("fun", << return >> \o args)
Pointee(t)   == IF t.is = "ptr" THEN t.kids[1] ELSE VoidTy
IntTys       == {"i1", "i8", "i16", "i32", "i64"}
FloatTys     == {"float", "double"}
Aggregates   == {"struct", "packed", "array"}

-----------------------------------------------------------------------------
\* Sizes in bits on x86-64.  The preferred alignment of a struct is eight bytes, also of
\* a packed one, which otherwise has one of one byte.
PrimBits == "i1" :> 1 @@ "i8" :> 8 @@ "i16" :> 16 @@ "i32" :> 32 @@ "i64" :> 64 @@
            "float" :> 32 @@ "double" :> 64 @@ "ptr" :> 64
Aligned(n, to) == ((n + to - 1) \div to) * to

RECURSIVE BitSize(_), Alignment(_)
StoreSize(t) == Aligned(BitSize(t), 8)
Alignment(t) == IF t.is \in {"packed", "array"} THEN 8
                ELSE IF t.is = "struct" THEN Max({8} \cup {Alignment(t.kids[i]) : i \in DOMAIN t.kids})
                ELSE Max({8, PrimBits[t.is]})
PreferredAlignment(t) == IF t.is \in {"struct", "packed"} THEN 64 ELSE Alignment(t)
\* Where the fields begin, and behind them where the struct ends.
Offsets(t) ==
  LET place(at, f) == Aligned(Last(at), IF t.is = "struct" THEN Alignment(f) ELSE 8)
      put(at, n, f) == Front(at) \o << n, n + StoreSize(f) >>
  IN FoldLeft(LAMBDA at, f : put(at, place(at, f), f), << 0 >>, t.kids)
BitSize(t) == IF t.is \in Aggregates THEN Aligned(Last(Offsets(t)), Alignment(t)) ELSE PrimBits[t.is]

-----------------------------------------------------------------------------
\* Numbers.
Width == "i1" :> 1 @@ "i8" :> 8 @@ "i16" :> 10 @@ "i32" :> 12 @@ "i64" :> 14
Bits(t, v)   == v % 2 ^ Width[t.is]
Signed(t, v) == IF v >= 2 ^ (Width[t.is] - 1) THEN v - 2 ^ Width[t.is] ELSE v
Quotient(a, b)  == IF a < 0 /\ b < 0 THEN (- a) \div (- b)
                   ELSE IF a < 0 THEN - ((- a) \div b)
                   ELSE IF b < 0 THEN - (a \div (- b)) ELSE a \div b
Remainder(a, b) == a - b * Quotient(a, b)
Truth(b) == IF b THEN 1 ELSE 0

Compared(op, a, b) ==
  Truth(CASE op = ">" -> a > b [] op = ">=" -> a >= b [] op = "<" -> a < b
          [] op = "<=" -> a <= b [] op = "==" -> a = b [] op = "!=" -> a # b)

\* A division by zero, and a float that no integer of the type is near to, have no
\* defined result.
Divides == {"sdiv", "udiv", "srem", "urem", "fdiv", "frem"}
Arithmetic(op, t, a, b) ==
  CASE op = "add"  -> Bits(t, a + b)
    [] op = "sub"  -> Bits(t, a - b)
    [] op = "mul"  -> Bits(t, a * b)
    [] op = "sdiv" -> Bits(t, Quotient(Signed(t, a), Signed(t, b)))
    [] op = "udiv" -> a \div b
    [] op = "srem" -> Bits(t, Remainder(Signed(t, a), Signed(t, b)))
    [] op = "urem" -> a % b
    [] op = "fadd" -> a + b
    [] op = "fsub" -> a - b
    [] op = "fmul" -> Quotient(a * b, 2)
    [] op = "fdiv" -> Quotient(2 * a, b)
    [] op = "frem" -> Remainder(a, b)

InRange(t, v, signed) ==
  IF signed THEN v \in - 2 ^ (Width[t.is] - 1) .. 2 ^ (Width[t.is] - 1) - 1 ELSE v \in 0 .. 2 ^ Width[t.is] - 1
Converted(op, from, to, v) ==
  CASE op \in {"trunc", "zext"} -> Bits(to, v)
    [] op = "sext"   -> Bits(to, Signed(from, v))
    [] op = "sitofp" -> 2 * Signed(from, v)
    [] op = "uitofp" -> 2 * v
    [] op \in {"fptosi", "fptoui"} -> Bits(to, Quotient(v, 2))
    [] op \in {"fpext", "fptrunc"} -> v

-----------------------------------------------------------------------------
\* Memory.
Null == << 0, <<>> >>
RECURSIVE Zero(_)
Zero(t) == CASE t.is = "ptr" -> Null
             [] t.is \in {"struct", "array"} -> [i \in DOMAIN t.kids |-> Zero(t.kids[i])]
             [] t.is = "packed" -> Zero(t.kids[1])
             [] OTHER -> 0

Part(v, path) == FoldLeft(LAMBDA w, i : w[i], v, path)
RECURSIVE WithPart(_, _, _)
WithPart(v, path, part) ==
  IF path = <<>> THEN part ELSE [v EXCEPT ![path[1]] = WithPart(@, Tail(path), part)]
RECURSIVE HasPart(_, _)
HasPart(v, path) == path = <<>> \/ (path[1] \in DOMAIN v /\ HasPart(v[path[1]], Tail(path)))
Mapped(mem, p) == p[1] \in DOMAIN mem /\ HasPart(mem[p[1]], p[2])
Moved(p, n) == IF n = 0 THEN p ELSE IF p[2] = <<>> THEN Null ELSE << p[1], Append(Front(p[2]), Last(p[2]) + n) >>

-----------------------------------------------------------------------------
\* A function is the type it returns and its blocks; an instruction has a register for
\* its result, operands, the type of the result, and n, what else it needs.
Endings == {"br", "condbr", "ret"}
Instructions(f) == FlattenSeq(f.blocks)
RegisterTypes(f) ==
  LET all == Instructions(f) IN [r \in {all[i].to : i \in DOMAIN all} |->
                                   all[CHOOSE i \in DOMAIN all : all[i].to = r].type]
Targets(i) == CASE i.op = "br" -> {i.n[1]} [] i.op = "condbr" -> {i.n[1], i.n[2]} [] OTHER -> {}
Predecessors(f, b) == {p \in DOMAIN f.blocks : f.blocks[p] # <<>> /\ b \in Targets(Last(f.blocks[p]))}

\* What the verifier looks at in an instruction, ty being the types of its operands.
Fits(i, ty, return) ==
  CASE i.op = "store"   -> ty[1] = Pointer(ty[2])
    [] i.op = "load"    -> ty[1] = Pointer(i.type)
    [] i.op = "insert"  -> ty[1].is \in Aggregates /\ ty[1].kids[i.n[1]] = ty[2]
    [] i.op = "extract" -> ty[1].is \in Aggregates /\ ty[1].kids[i.n[1]] = i.type
    [] i.op = "call"    -> ty[1].is = "ptr" /\ Pointee(ty[1]) = FunctionTy(i.type, Tail(ty))
    [] i.op = "ret"     -> IF ty = <<>> THEN return = VoidTy ELSE ty[1] = return
    [] i.op = "condbr"  -> ty[1] = I("i1")
    [] i.op = "phi"     -> \A k \in DOMAIN ty : ty[k] = i.type
    [] i.op = "bitcast" -> ty[1].is \notin Aggregates /\ i.type.is \notin Aggregates
    [] i.op \in {"cast", "field", "index"} -> ty[1].is = "ptr" /\ i.type.is = "ptr"
    [] OTHER            -> TRUE

\* The blocks that can be reached from b without going through `avoided`.
RECURSIVE ReachedFrom(_, _, _)
ReachedFrom(f, from, avoided) ==
  LET more == (UNION {Targets(Last(f.blocks[b])) : b \in from} \ avoided) \ from
  IN IF more = {} THEN from ELSE ReachedFrom(f, from \cup more, avoided)

\* Each register is set before it is used: above, or in a block that every way leads through.
Dominates(f) ==
  LET set(b)     == {f.blocks[b][k].to : k \in DOMAIN f.blocks[b]}
      past(d)    == ReachedFrom(f, {1}, {d}) \ {d}
      above(b, k) == {f.blocks[b][j].to : j \in 1 .. k - 1}
      used(b, k) == IF f.blocks[b][k].op = "phi" THEN {} ELSE ToSet(f.blocks[b][k].of) \ above(b, k)
  IN \A d \in DOMAIN f.blocks :
       LET without == IF d = 1 THEN {} ELSE past(d)
       IN \A b \in DOMAIN f.blocks : \A k \in DOMAIN f.blocks[b] :
            used(b, k) \cap set(d) # {} => b # d /\ b \notin without

\* function.verify: each block ends, once; each phi has one input for each predecessor.
Verify(f) ==
  LET types == RegisterTypes(f)
  IN /\ \A b \in DOMAIN f.blocks :
          /\ f.blocks[b] # <<>>
          /\ \A k \in DOMAIN f.blocks[b] :
               LET i == f.blocks[b][k]
               IN /\ i.op \in Endings <=> k = Len(f.blocks[b])
                  /\ Fits(i, [j \in DOMAIN i.of |-> types[i.of[j]]], f.return)
                  /\ i.op = "phi" => ToSet(i.n) = Predecessors(f, b) /\ IsInjective(i.n)
     /\ Dominates(f)

-----------------------------------------------------------------------------
\* A run: the registers of the function that is running, the memory, how many blocks may
\* still be run, what went wrong, and the value returned.
RECURSIVE RunBlock(_, _, _, _, _), Call(_, _, _, _)
Stop(r, why) == [r EXCEPT !.fault = IF @ = "" THEN why ELSE @]

RunInstruction(code, f, r, i, from) ==
  LET v(k)     == r.regs[i.of[k]]
      ty(k)    == f.types[i.of[k]]
      set(x)   == [r EXCEPT !.regs = (i.to :> x) @@ @]
      given(x) == [set(<< Len(r.mem) + 1, <<>> >>) EXCEPT !.mem = Append(@, x)]
      called   == Call(code, v(1)[2], [k \in DOMAIN Tail(i.of) |-> v(k + 1)], r)
  IN CASE r.fault # "" \/ i.op \in Endings -> r
       [] i.op = "function" -> set(i.n)
       [] i.op = "number"  -> set(IF i.type.is \in IntTys THEN Bits(i.type, i.n[1]) ELSE i.n[1])
       [] i.op = "param"   -> set(r.args[i.n[1]])
       [] i.op = "global"  -> set(<< r.globals[i.n], <<>> >>)
       [] i.op = "zero"    -> set(Zero(i.type))
       [] i.op = "bytes"   -> [given([k \in 1 .. i.n[1] |-> 0]) EXCEPT !.regs[i.to] = << @[1], << 1 >> >>]
       [] i.op = "alloca"  -> given(Zero(Pointee(i.type)))
       [] i.op = "malloc"  -> [given([k \in 1 .. i.n[1] |-> Zero(Pointee(i.type))]) EXCEPT !.regs[i.to] = << @[1], << 1 >> >>]
       [] i.op = "load"    -> IF Mapped(r.mem, v(1)) THEN set(Part(r.mem[v(1)[1]], v(1)[2])) ELSE Stop(r, "wild")
       [] i.op = "store"   -> IF Mapped(r.mem, v(1)) THEN [r EXCEPT !.mem[v(1)[1]] = WithPart(@, v(1)[2], v(2))]
                              ELSE Stop(r, "wild")
       [] i.op = "extract" -> set(v(1)[i.n[1]])
       [] i.op = "insert"  -> set([v(1) EXCEPT ![i.n[1]] = v(2)])
       [] i.op = "field"   -> set(<< v(1)[1], Append(v(1)[2], i.n[1]) >>)
       [] i.op = "index"   -> set(Moved(v(1), Signed(ty(2), v(2))))
       [] i.op \in {"cast", "bitcast"} -> set(v(1))
       [] i.op = "phi"     -> set(v(CHOOSE k \in DOMAIN i.n : i.n[k] = from))
       [] i.op = "icmp"    -> set(Compared(i.n[1], Signed(ty(1), v(1)), Signed(ty(2), v(2))))
       [] i.op = "fcmp"    -> set(Compared(i.n[1], v(1), v(2)))
       [] i.op = "not"     -> set(1 - v(1))
       [] i.op = "neg"     -> set(Bits(i.type, - v(1)))
       [] i.op = "fneg"    -> set(- v(1))
       [] i.op = "arith"   -> IF i.n[1] \in Divides /\ v(2) = 0 THEN Stop(r, "undefined")
                              ELSE set(Arithmetic(i.n[1], i.type, v(1), v(2)))
       [] i.op = "convert" -> IF i.n[1] \in {"fptosi", "fptoui"} /\ ~ InRange(i.type, Quotient(v(1), 2), i.n[1] = "fptosi")
                              THEN Stop(r, "undefined") ELSE set(Converted(i.n[1], ty(1), i.type, v(1)))
       [] i.op = "call"    -> IF v(1)[2] \notin DOMAIN code THEN Stop(r, "external")
                              ELSE [called EXCEPT !.regs = (i.to :> called.value) @@ r.regs, !.args = r.args]
       [] OTHER            -> Stop(r, "external")

\* What the last instruction of block b does with r, the run so far.
RunEnding(code, f, r, b, last) ==
  LET v == r.regs[last.of[1]]
  IN IF r.fault # "" THEN r
     ELSE IF r.fuel = 0 THEN Stop(r, "unending")
     ELSE CASE last.op = "ret"    -> [r EXCEPT !.value = IF last.of = <<>> THEN 0 ELSE v]
            [] last.op = "br"     -> RunBlock(code, f, r, last.n[1], b)
            [] last.op = "condbr" -> RunBlock(code, f, r, last.n[IF v = 1 THEN 1 ELSE 2], b)
RunBlock(code, f, r, b, from) ==
  RunEnding(code, f, FoldLeft(LAMBDA s, i : RunInstruction(code, f, s, i, from), [r EXCEPT !.fuel = @ - 1], f.blocks[b]),
            b, Last(f.blocks[b]))

Call(code, id, args, r) ==
  LET f == [blocks |-> code[id].blocks, types |-> RegisterTypes(code[id])]
  IN RunBlock(code, f, [r EXCEPT !.regs = <<>>, !.args = args], 1, 0)
=============================================================================
