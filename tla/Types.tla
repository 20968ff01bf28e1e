------------------------------- MODULE Types -------------------------------
(***************************************************************************)
(* Types and their unification (types/types.rs), and the operations that   *)
(* every program may call (intrinsics.rs).  A type is its content and its  *)
(* children.  An abstract type stands for the types it contains; a         *)
(* polytype is a type variable.                                            *)
(***************************************************************************)
EXTENDS Integers, Sequences, SequencesExt, FiniteSetsExt, TLC

\* unit: the unit of a defined type; 0, the number of the intrinsics, for the others.
TypeOf(is, name, kids) == [is |-> is, name |-> name, unit |-> 0, kids |-> kids]
Prim(p)           == TypeOf("Prim", p, <<>>)
FunOf(ret, args)  == TypeOf("Fun", "", << ret >> \o args)
PtrTo(t)          == TypeOf("Ptr", "", << t >>)
Polytype(v)       == TypeOf("Polytype", v, <<>>)
AbstractDef(n)    == TypeOf("AbstractDef", n, <<>>)
AnyType           == TypeOf("Any", "", <<>>)
Def(n, unit, kids) == [TypeOf("Def", n, kids) EXCEPT !.unit = unit]
Void == Prim("()")
Bool == Prim("bool")

SignedInts   == {"i64", "i32"}
UnsignedInts == {"u64", "u32", "u16", "u8"}
Floats       == {"f64", "f32"}
PrimNames    == SignedInts \cup UnsignedInts \cup Floats \cup {"bool", "()"}

Content(t)    == << t.is, t.name, t.unit >>
IsAbstract(t) == t.is \in {"Any", "Float", "Integer", "AbstractDef"}
IsInt(t)      == t.is = "Prim" /\ t.name \in SignedInts \cup UnsignedInts
IsUnsigned(t) == t.is = "Prim" /\ t.name \in UnsignedInts
IsFloat(t)    == t.is = "Prim" /\ t.name \in Floats
IsNumber(t)   == IsInt(t) \/ IsFloat(t)
IsPointer(t)  == t.is \in {"Ptr", "Fun"}

RECURSIVE IsConcrete(_), Depth(_), PolytypesIn(_)
IsConcrete(t)  == ~ IsAbstract(t) /\ \A i \in DOMAIN t.kids : IsConcrete(t.kids[i])
Depth(t)       == 1 + Max({Depth(t.kids[i]) : i \in DOMAIN t.kids} \cup {0})
PolytypesIn(t) == (IF t.is = "Polytype" THEN {t.name} ELSE {})
                    \cup UNION {PolytypesIn(t.kids[i]) : i \in DOMAIN t.kids}

ContainsType(abstract, t) ==
  CASE abstract.is = "Float"       -> IsFloat(t)
    [] abstract.is = "Integer"     -> IsInt(t)
    [] abstract.is = "Any"         -> TRUE
    [] abstract.is = "AbstractDef" -> t.is = "Def" /\ t.name = abstract.name
    [] OTHER                       -> FALSE

\* The type a literal has when nothing says otherwise; in a sequence, empty if none.
\* Mutant of DefaultType: whole numbers have none.
DefaultTypeOfFloats(t) == IF t.is = "Float" THEN << Prim("f64") >> ELSE <<>>
DefaultType(t) ==
  CASE t.is = "Float" -> << Prim("f64") >> [] t.is = "Integer" -> << Prim("i64") >> [] OTHER -> <<>>

\* incremental_unify: makes the type `new` as specific as `old`, in place.  It tells if it
\* could, if `new` was the more specific somewhere (immutable), and if it changed; when it
\* cannot, the children it has been through stay changed.
RECURSIVE Unify(_, _)
Unify(old, new) ==
  LET result(ok, t, immutable, mutable) ==
        [ok |-> ok, type |-> t, immutable |-> immutable, mutable |-> mutable]
      child(r, i) ==
        IF ~ r.ok THEN r
        ELSE LET u == Unify(old.kids[i], r.type.kids[i])
             IN result(u.ok, [r.type EXCEPT !.kids[i] = u.type],
                       r.immutable \/ u.immutable, r.mutable \/ u.mutable)
  IN CASE "Polytype" \in {old.is, new.is} -> result(TRUE, new, FALSE, FALSE)
       [] "Polytype" \notin {old.is, new.is} /\ Content(old) # Content(new) ->
            IF ContainsType(old, new) THEN result(TRUE, new, TRUE, FALSE)
            ELSE IF ContainsType(new, old) THEN result(TRUE, old, FALSE, TRUE)
            ELSE result(FALSE, new, FALSE, FALSE)
       [] OTHER ->
            IF Len(old.kids) # Len(new.kids) THEN result(FALSE, new, FALSE, FALSE)
            ELSE FoldLeft(child, result(TRUE, new, FALSE, FALSE), [i \in DOMAIN old.kids |-> i])

\* Whether unify_types finds two types compatible, and whether they are the same.
RECURSIVE CanUnify(_, _)
CanUnify(u, t) ==
  CASE "Polytype" \in {u.is, t.is} -> "can"
    [] "Polytype" \notin {u.is, t.is} /\ Content(u) # Content(t) ->
         IF ContainsType(u, t) \/ ContainsType(t, u) THEN "can" ELSE "cannot"
    [] OTHER ->
         LET kids == {CanUnify(u.kids[i], t.kids[i]) : i \in DOMAIN u.kids}
         IN IF Len(u.kids) # Len(t.kids) THEN "cannot"
            ELSE IF "cannot" \in kids THEN "cannot"
            ELSE IF "can" \in kids THEN "can" ELSE "equal"

\* unify_types: what both types say, in a sequence; empty if they disagree.
UnifyTypes(a, b) ==
  CASE CanUnify(a, b) = "cannot" -> <<>>
    [] CanUnify(a, b) = "equal"  -> << a >>
    [] CanUnify(a, b) = "can"    -> << Unify(a, b).type >>

RECURSIVE TypeIntersection(_, _)
TypeIntersection(a, b) ==
  IF Content(a) = Content(b) /\ Len(a.kids) = Len(b.kids)
  THEN [a EXCEPT !.kids = [i \in DOMAIN a.kids |-> TypeIntersection(a.kids[i], b.kids[i])]]
  ELSE AnyType

\* polytype_match: the types that the variables of a polymorphic type are bound to if it is
\* matched with t, and whether it can be.  Under an abstract part nothing is bound.
RECURSIVE PolytypeMatch(_, _, _)
PolytypeMatch(bound, t, poly) ==
  LET result(ok, b) == [ok |-> ok, bound |-> b]
      child(r, i)   == IF r.ok THEN PolytypeMatch(r.bound, t.kids[i], poly.kids[i]) ELSE r
      unified       == UnifyTypes(bound[poly.name], t)
  IN CASE poly.is = "Polytype" ->
            IF poly.name \notin DOMAIN bound THEN result(TRUE, poly.name :> t @@ bound)
            ELSE IF unified = <<>> THEN result(FALSE, bound)
            ELSE result(TRUE, poly.name :> unified[1] @@ bound)
       [] poly.is # "Polytype" /\ IsAbstract(t) -> result(ContainsType(t, poly), bound)
       [] poly.is # "Polytype" /\ ~ IsAbstract(t) /\ IsAbstract(poly) ->
            result(ContainsType(poly, t), bound)
       [] OTHER ->
            IF Content(t) # Content(poly) \/ Len(t.kids) # Len(poly.kids) THEN result(FALSE, bound)
            ELSE FoldLeft(child, result(TRUE, bound), [i \in DOMAIN t.kids |-> i])

\* polytype_replace and instance_type: the variables replaced by what they are bound to.
RECURSIVE PolytypeReplace(_, _)
PolytypeReplace(bound, t) ==
  IF t.is = "Polytype" THEN IF t.name \in DOMAIN bound THEN bound[t.name] ELSE AnyType
  ELSE [t EXCEPT !.kids = [i \in DOMAIN t.kids |-> PolytypeReplace(bound, t.kids[i])]]
InstanceType(def, t, args) ==
  PolytypeReplace([v \in ToSet(def.vars) |-> args[IndexFirstSubSeq(<< v >>, def.vars)]], t)

\* find_symbol: the definitions of a set with this name that a type allows, each with the
\* type it would have.
FindSymbol(defs, name, t) ==
  LET named == {d \in defs : d.name = name}
      bind(m, d) == IF m.ok THEN << PolytypeReplace(m.bound, d.type) >> ELSE <<>>
      as(d) == IF d.vars = <<>> THEN UnifyTypes(t, d.type) ELSE bind(PolytypeMatch(<<>>, t, d.type), d)
      typed == {[id |-> d.id, types |-> as(d)] : d \in named}
  IN {[id |-> d.id, type |-> d.types[1]] : d \in {e \in typed : e.types # <<>>}}

-----------------------------------------------------------------------------
\* The intrinsics unit: its types and its symbols, each under a name of its own.
StructDef(name, unit, fields, types, vars) ==
  [name |-> name, unit |-> unit, is |-> "struct", fields |-> fields, types |-> types, vars |-> vars]
IntrinsicTypes ==
  { StructDef("string", 0, << "data", "length" >>, << PtrTo(Prim("u8")), Prim("u64") >>, <<>>),
    StructDef("array", 0, << "data", "length" >>, << PtrTo(Polytype("A")), Prim("u64") >>, << "A" >>) }

NumberNames == SignedInts \cup UnsignedInts \cup Floats
IntrinsicSignatures ==
  LET A == Polytype("A")
  IN { << "-", FunOf(Prim(p), << Prim(p) >>) >> : p \in NumberNames }
     \cup { << op, FunOf(Prim(p), << Prim(p), Prim(p) >>) >> : op \in {"+", "-", "*", "/", "%"}, p \in NumberNames }
     \cup { << op, FunOf(Bool, << Prim(p), Prim(p) >>) >> :
              op \in {"==", ">", "<", ">=", "<=", "!="}, p \in NumberNames }
     \cup { << op, FunOf(Bool, << Bool, Bool >>) >> : op \in {"&&", "||"} }
     \cup { << "!", FunOf(Bool, << Bool >>) >> }
     \cup { << op, FunOf(Prim(p), << Prim(p) >>) >> :
              op \in {"sqrt", "floor", "cos", "sin", "pow", "log"}, p \in Floats }
     \cup { << "Index", FunOf(PtrTo(A), << c, Prim(p) >>) >> :
              c \in {PtrTo(A), Def("array", 0, << A >>)}, p \in {"i64", "i32", "u64", "u32"} }
     \cup { << "*", FunOf(A, << PtrTo(A) >>) >>, << "&", FunOf(PtrTo(A), << A >>) >>,
            << "UnsafeZeroInit", FunOf(A, <<>>) >> }
Intrinsics ==
  { [id |-> << 0, s[1], s[2] >>, name |-> s[1], type |-> s[2], init |-> "Intrinsic",
     vars |-> IF PolytypesIn(s[2]) = {} THEN <<>> ELSE << "A" >>] : s \in IntrinsicSignatures }
=============================================================================
