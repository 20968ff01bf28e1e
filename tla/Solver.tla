------------------------------- MODULE Solver -------------------------------
(***************************************************************************)
(* Type inference (types/solver.rs, types/slots.rs, types/type_graph.rs).  *)
(* A unit is a record of its nodes, its constraints and what it imports;   *)
(* an inference is a record of what is known so far.  Constraints are      *)
(* taken in the order of a hash table, round by round: those of a round    *)
(* touch slots, and the constraints of the slots touched are the next.     *)
(***************************************************************************)
EXTENDS Constraints

\* A type deeper than this is taken to grow for ever.
CONSTANT MaxDepth
ASSUME DepthAssumption == MaxDepth \in Nat

\* slots: the types of the slots that have one; tags: the types of the unit's definitions;
\* refs: the definition each reference means; sizes: the types that sizeof is asked for;
\* dirty, names: the slots and definitions touched since the last round.
Blank(unit) ==
  [slots |-> <<>>, tags |-> [id \in {d.id : d \in unit.symbols} |-> AnyType], refs |-> <<>>,
   sizes |-> <<>>, dirty |-> {}, names |-> {}, errors |-> {}, deep |-> FALSE]

ErrorAt(s, what, slot) == [s EXCEPT !.errors = @ \cup {<< what, slot >>}]
Known(s, slot)  == slot \in DOMAIN s.slots
GetOrAny(s, slot) == IF Known(s, slot) THEN s.slots[slot] ELSE AnyType
Definitions(unit, s) == {[d EXCEPT !.type = s.tags[d.id]] : d \in unit.symbols} \cup unit.imports
TypeDef(unit, t) == CHOOSE d \in unit.types : d.name = t.name /\ d.unit = t.unit

\* slots.update_type, which keeps what a unification that fails has changed.
\* u: what the slot's type and t come to.
\* Mutant of Merge: what depends on the slot is not looked at again.
MergeQuietly(s, slot, t, u) ==
  [s EXCEPT !.slots = (slot :> u.type) @@ @,
            !.errors = IF u.ok THEN @ ELSE @ \cup {<< "conflict", slot >>},
            !.deep = @ \/ Depth(u.type) > MaxDepth]
\* Mutant of Merge: the slot takes the new type where the old one says more.
MergeWider(s, slot, t, u) ==
  [s EXCEPT !.slots = (slot :> IF u.ok THEN t ELSE u.type) @@ @,
            !.errors = IF u.ok THEN @ ELSE @ \cup {<< "conflict", slot >>},
            !.dirty = IF u.mutable THEN @ \cup {slot} ELSE @]
Merge(s, slot, t, u) ==
  [s EXCEPT !.slots = (slot :> u.type) @@ @,
            !.errors = IF u.ok THEN @ ELSE @ \cup {<< "conflict", slot >>},
            !.dirty = IF u.mutable THEN @ \cup {slot} ELSE @,
            !.deep = @ \/ Depth(u.type) > MaxDepth]
UpdateType(s, slot, t) == Merge(s, slot, t, Unify(t, GetOrAny(s, slot)))

\* update_type_mut: what the type becomes that the slot was updated with.
Narrowed(s, slot, t) ==
  LET u == Unify(t, GetOrAny(s, slot)) IN IF u.ok /\ u.immutable THEN Unify(u.type, t).type ELSE t

-----------------------------------------------------------------------------
\* process_constraint, one operator for each kind.
Inform(s, a, b) == IF Known(s, a) THEN UpdateType(s, b, s.slots[a]) ELSE s
ForceEquivalence(s, a, b) == Inform(Inform(s, a, b), b, a)

Branch(s, out, cases) ==
  LET unify   == FoldLeft(LAMBDA r, c : ForceEquivalence(r, out, c), s, cases)
      here(c) == GetOrAny(s, c)
      \* The first case that is void or not known yet.
      ends    == SelectSeq(cases, LAMBDA c : here(c) = Void \/ ~ IsConcrete(here(c)))
  IN IF here(out) = Void THEN s
     ELSE IF IsConcrete(here(out)) \/ ends = <<>> THEN unify
     ELSE IF here(ends[1]) = Void THEN UpdateType(s, out, Void) ELSE s

Function(s, fn, args, return) ==
  LET sig == GetOrAny(s, fn)
      step(r, i) ==
        LET slot == IF i = 1 THEN return ELSE args[i - 1]
        IN << UpdateType(r[1], slot, r[2].kids[i]),
              [r[2] EXCEPT !.kids[i] = Narrowed(r[1], slot, @)] >>
      order == [i \in DOMAIN args |-> i + 1] \o << 1 >>
      met   == FoldLeft(step, << s, sig >>, order)
  IN IF sig.is = "Fun" /\ Len(sig.kids) = Len(args) + 1 THEN UpdateType(met[1], fn, met[2]) ELSE s

\* Mutant of Constructor: the fields of a union may have any type.
ConstructorOfStruct(unit, s, c) ==
  LET t == GetOrAny(s, c.slots[1])
      d == TypeDef(unit, t)
  IN IF t.is # "Def" \/ d.is # "struct" THEN s
     ELSE FoldLeft(LAMBDA r, i : UpdateType(r, c.slots[i + 1], InstanceType(d, d.types[i], t.kids)),
                   s, [i \in DOMAIN c.fields |-> i])
Constructor(unit, s, c) ==
  LET t      == GetOrAny(s, c.slots[1])
      d      == TypeDef(unit, t)
      values == Tail(c.slots)
      named  == {i \in DOMAIN d.fields : c.fields # <<>> /\ d.fields[i] = c.fields[1]}
      wrong  == \E i \in DOMAIN c.fields : c.fields[i] \notin {"", d.fields[i]}
      field(r, i) == UpdateType(r, values[i], InstanceType(d, d.types[i], t.kids))
  IN CASE t.is # "Def" -> s
       [] t.is = "Def" /\ d.is = "struct" ->
            IF Len(values) # Len(d.fields) THEN ErrorAt(s, "fields", c.slots[1])
            ELSE FoldLeft(field, IF wrong THEN ErrorAt(s, "field", c.slots[1]) ELSE s,
                          [i \in DOMAIN values |-> i])
       [] t.is = "Def" /\ d.is = "union" ->
            IF Len(values) # 1 \/ named = {} THEN ErrorAt(s, "fields", c.slots[1])
            ELSE UpdateType(s, values[1], d.types[Min(named)])

CanConvert(t, into) ==
  \/ IsPointer(t) /\ (IsPointer(into) \/ IsUnsigned(into))
  \/ IsNumber(t) /\ IsNumber(into)
  \/ IsUnsigned(t) /\ IsPointer(into)
Convert(s, val, into) ==
  IF /\ Known(s, val) /\ Known(s, into)
     /\ IsConcrete(s.slots[val]) /\ IsConcrete(s.slots[into])
     /\ ~ CanConvert(s.slots[val], s.slots[into])
  THEN ErrorAt(s, "convert", val) ELSE s

SymbolDef(s, id, name, slot) ==
  LET t   == s.tags[id]
      now == Narrowed(s, slot, t)
      met == UpdateType(s, slot, t)
  IN IF now = t THEN met ELSE [met EXCEPT !.tags[id] = now, !.names = @ \cup {name}]

Refer(s, node, slot, found) ==
  LET one   == CHOOSE d \in found : TRUE
      agree == FoldSet(LAMBDA d, t : TypeIntersection(t, d.type), one.type, found)
  IN CASE found = {}           -> ErrorAt(s, "reference", slot)
       [] Cardinality(found) = 1 ->
            UpdateType([s EXCEPT !.refs = (node :> one.id) @@ @], slot, one.type)
       [] OTHER                -> UpdateType(s, slot, agree)
SymbolReference(unit, s, node, name, slot) ==
  Refer(s, node, slot, FindSymbol(Definitions(unit, s), name, GetOrAny(s, slot)))

RECURSIVE Behind(_)
Behind(t) == IF t.is = "Ptr" THEN Behind(t.kids[1]) ELSE t
FieldAccess(unit, s, container, field, result) ==
  LET t     == Behind(GetOrAny(s, container))
      d     == TypeDef(unit, t)
      named == IF t.is # "Def" THEN {} ELSE {i \in DOMAIN d.fields : d.fields[i] = field}
  IN IF named # {} THEN UpdateType(s, result, InstanceType(d, d.types[Min(named)], t.kids))
     ELSE IF IsConcrete(t) THEN ErrorAt(s, "field", result) ELSE s

TypeParameter(s, parent, parameter) ==
  LET up == IF ~ Known(s, parameter) THEN s
            ELSE UpdateType(s, parent, [GetOrAny(s, parent) EXCEPT !.kids = << s.slots[parameter] >>])
  IN IF Known(up, parent) /\ Len(up.slots[parent].kids) = 1
     THEN UpdateType(up, parameter, up.slots[parent].kids[1]) ELSE up

SizeOf(s, node, slot) ==
  IF Known(s, slot) /\ IsConcrete(s.slots[slot])
  THEN [s EXCEPT !.sizes = (node :> s.slots[slot]) @@ @] ELSE s

ProcessConstraint(unit, s, c) ==
  LET a == c.slots[1]
      b == c.slots[2]
  IN CASE c.is = "Equivalent"      -> ForceEquivalence(s, a, b)
       [] c.is = "Branch"          -> Branch(s, a, Tail(c.slots))
       [] c.is = "Function"        -> Function(s, a, Front(Tail(c.slots)), Last(c.slots))
       [] c.is = "Constructor"     -> Constructor(unit, s, c)
       [] c.is = "Convert"         -> Convert(s, a, b)
       [] c.is = "SymbolDef"       -> SymbolDef(s, << unit.number, c.node >>, c.name, a)
       [] c.is = "SymbolReference" -> SymbolReference(unit, s, c.node, c.name, a)
       [] c.is = "FieldAccess"     -> FieldAccess(unit, s, a, c.name, b)
       [] c.is = "TypeParameter"   -> TypeParameter(s, a, b)
       [] c.is = "SizeOf"          -> SizeOf(s, c.node, a)

-----------------------------------------------------------------------------
\* resolve_abstract_defs: names of types become the types they name, in a sequence; it is
\* empty if there is none, or none with as many arguments.
RECURSIVE ResolveAbstractDefs(_, _)
ResolveAbstractDefs(types, t) ==
  LET kids == [i \in DOMAIN t.kids |-> ResolveAbstractDefs(types, t.kids[i])]
      defs == {d \in types : d.name = t.name}
      def  == CHOOSE d \in defs : \A e \in defs : e.unit <= d.unit
      args == [i \in DOMAIN def.vars |-> IF kids = <<>> THEN AnyType ELSE kids[i][1]]
  IN IF \E i \in DOMAIN kids : kids[i] = <<>> THEN <<>>
     ELSE IF t.is # "AbstractDef" THEN << [t EXCEPT !.kids = [i \in DOMAIN kids |-> kids[i][1]]] >>
     ELSE IF defs = {} \/ Len(kids) \notin {0, Len(def.vars)} THEN <<>>
     ELSE << Def(def.name, def.unit, args) >>

\* A unit to infer the types of, from what its constraint generator gathered.
Unit(number, N, g, imports) ==
  LET resolved(t) == ResolveAbstractDefs(g.types, t)
      field(t)    == IF resolved(t) = <<>> THEN AnyType ELSE resolved(t)[1]
  IN [number |-> number, nodes |-> N, imports |-> imports, symbols |-> g.symbols,
      slots |-> g.slots, literals |-> g.literals, constraints |-> g.constraints,
      assertions |-> [i \in DOMAIN g.assertions |-> << g.assertions[i][1], resolved(g.assertions[i][2]) >>],
      types |-> {[d EXCEPT !.types = [i \in DOMAIN @ |-> field(@[i])]] : d \in g.types},
      ok |-> g.ok /\ \A d \in g.types : \A i \in DOMAIN d.types : resolved(d.types[i]) # <<>>]

ProcessAssertions(unit) ==
  FoldLeft(LAMBDA s, a : IF a[2] = <<>> THEN ErrorAt(s, "type", a[1]) ELSE UpdateType(s, a[1], a[2][1]),
           IF unit.ok THEN Blank(unit) ELSE ErrorAt(Blank(unit), "syntax", 0), unit.assertions)

\* find_boundary_constraints: the constraints of what was touched.
Boundary(unit, s) ==
  {i \in DOMAIN unit.constraints :
     LET c == unit.constraints[i]
     IN ToSet(c.slots) \cap s.dirty # {} \/ (c.is = "SymbolReference" /\ c.name \in s.names)}
Clean(s) == [s EXCEPT !.dirty = {}, !.names = {}]

TryHarden(s, slot) ==
  LET default == DefaultType(s.slots[slot])
  IN IF default = <<>> THEN s ELSE UpdateType(s, slot, default[1])

\* How an inference ends.
Verdict(unit, s) ==
  LET open   == {slot \in unit.slots : ~ IsConcrete(GetOrAny(s, slot))}
      all    == ToSet(unit.constraints)
      unmet  == {c \in all : ToSet(c.slots) \cap open # {}}
      unsaid == {c \in all : c.is = "SymbolReference" /\ c.node \notin DOMAIN s.refs}
      told   == {c \in unmet : c.is \in {"SymbolDef", "SymbolReference", "FieldAccess",
                                         "TypeParameter", "SizeOf"}}
      nodes  == {slot \in unit.slots : slot % 3 = 0}
  IN IF s.errors # {} \/ told # {} \/ unsaid # {} THEN "failed"
     ELSE IF unmet # {} \/ nodes \cap open # {} THEN "panicked" ELSE "typed"

\* The end of a round: what to go on with.  When nothing is touched a literal gets its default type.
NextRound(unit, s, literals) ==
  LET next == Boundary(unit, s)
      hard == TryHarden(Clean(s), literals[1])
  IN IF next # {} \/ literals = <<>> THEN [s |-> Clean(s), active |-> next, literals |-> literals]
     ELSE [s |-> Clean(hard), active |-> Boundary(unit, hard), literals |-> Tail(literals)]

\* The whole inference, its constraints taken in the order of the program.
RECURSIVE Infer(_, _, _, _)
Resume(unit, r) == Infer(unit, r.s, r.active, r.literals)
Infer(unit, s, active, literals) ==
  LET step(r, i) == IF i \in active THEN ProcessConstraint(unit, r, unit.constraints[i]) ELSE r
      round(is)  == FoldLeft(step, s, is)
  IN IF s.deep THEN << "runaway", s >>
     ELSE IF s.errors # {} \/ (active = {} /\ literals = <<>>) THEN << Verdict(unit, s), s >>
     ELSE Resume(unit, NextRound(unit, round([i \in DOMAIN unit.constraints |-> i]), literals))
=============================================================================
