------------------------------- MODULE Parser -------------------------------
(***************************************************************************)
(* The parser (compiler/src/parser.rs): from tokens to an expression tree, *)
(* by precedence climbing.  An operator takes the tokens and the index of  *)
(* the next one, and returns how it ended ("ok", "bad": an error at a      *)
(* token; "more": the tokens ran out where one was needed), the index      *)
(* reached, and what was read.                                             *)
(***************************************************************************)
EXTENDS Integers, Sequences, SequencesExt, TLC

CONSTANT MaxDigits      \* a longer integer literal does not fit 64 bits
ASSUME MaxDigitsAssumption == MaxDigits \in Nat \ {0}

Pairs       == "(" :> ")" @@ "{" :> "}" @@ "[" :> "]"
Terminators == {")", "}", "]"}
Separators  == ";" :> 1 @@ "," :> 2
KeywordPrecedence == 3
SpecialOperators  == {"=", ".", "as", "in", ":", "#", "$"}
Levels == << {"=", "+=", "in"}, {":"}, {"as"}, {"&&", "||"},
             {">", "<", ">=", "<=", "==", "!="}, {}, {"+", "-"}, {"*", "/", "%"},
             {"=>"}, {"(", "["}, {"."} >>
Infix  == [op \in UNION Range(Levels) |-> CHOOSE n \in 4 .. 14 : op \in Levels[n - 3]]
Prefix == "-" :> 10 @@ "!" :> 12 @@ "&" :> 12 @@ "*" :> 12 @@ "#" :> 15 @@ "$" :> 15

Leaf(type, text) == [type |-> type, tag |-> text, args |-> <<>>]
Construct(tag, args) == [type |-> "Construct", tag |-> tag, args |-> args]
IsBlock(e) == e.type = "Construct" /\ e.tag = "block"

Ok(p, e) == [is |-> "ok", pos |-> p, e |-> e]
\* Mutants of Stuck: every error is final; every error asks for more.
StuckForGood(ts, p)  == [is |-> "bad", pos |-> p, e |-> <<>>]
StuckForMore(ts, p)  == [is |-> "more", pos |-> p, e |-> <<>>]
Stuck(ts, p) == [is |-> IF p <= Len(ts) THEN "bad" ELSE "more", pos |-> p, e |-> <<>>]
Bind(r, F(_)) == IF r.is = "ok" THEN F(r) ELSE r
Made(r, tag, args) == Ok(r.pos, Construct(tag, args))

Symbol(ts, p) == IF p \in 1 .. Len(ts) /\ ts[p].type = "Symbol" THEN ts[p].text ELSE ""
\* Mutant of PeekNewline: an opening parenthesis binds across lines.
PeekNewlineUnlessCall(ts, p) ==
  p \in 2 .. Len(ts) /\ ts[p - 1].to.line # ts[p].from.line /\ Symbol(ts, p) # "("
PeekNewline(ts, p) == p \in 2 .. Len(ts) /\ ts[p - 1].to.line # ts[p].from.line
Accept(ts, p, s) == IF Symbol(ts, p) = s THEN p + 1 ELSE p
Expect(ts, p, s) == IF Symbol(ts, p) = s THEN Ok(p + 1, s) ELSE Stuck(ts, p)
SimpleString(ts, p) ==
  IF Symbol(ts, p) # "" THEN Ok(p + 1, Leaf("Symbol", ts[p].text)) ELSE Stuck(ts, p)

\* How tightly what comes next binds to an expression on its left; 0: not at all.
Follow(ts, p) ==
  LET s == Symbol(ts, p)
  IN CASE p > Len(ts) \/ s \in Terminators -> 0
       [] p <= Len(ts) /\ s \notin Terminators /\ PeekNewline(ts, p) -> Separators[";"]
       [] p <= Len(ts) /\ ~ PeekNewline(ts, p) /\ s \in DOMAIN Separators -> Separators[s]
       [] p <= Len(ts) /\ ~ PeekNewline(ts, p) /\ s \in DOMAIN Infix -> Infix[s]
       [] OTHER -> 0

StatementTerminated(ts, p) ==
  \/ p > Len(ts)
  \/ Symbol(ts, p) \in Terminators \cup DOMAIN Separators
  \/ PeekNewline(ts, p)

RECURSIVE Pratt(_, _, _), Grow(_, _, _), IntoList(_, _, _, _), Term(_, _)

ParseList(ts, p, list, sep, tag) ==
  Bind(IntoList(ts, p, list, sep), LAMBDA l : Made(l, tag, l.e))

\* An opening token, a list and its closing token; Wrap makes the expression.
Enclosed(ts, p, open, list, sep, tag) ==
  Bind(Expect(ts, p, open), LAMBDA o :
    Bind(IntoList(ts, o.pos, list, sep), LAMBDA l :
      Bind(Expect(ts, l.pos, Pairs[open]), LAMBDA c : Made(c, tag, l.e))))

BlockInBraces(ts, p) == Enclosed(ts, p, "{", <<>>, ";", "block")

NewScope(ts, p) ==
  Bind(Pratt(ts, p, KeywordPrecedence), LAMBDA r :
    IF IsBlock(r.e) THEN r ELSE Made(r, "block", <<r.e>>))

ParenInfix(ts, p, list) ==
  IF Symbol(ts, p) = "(" THEN Enclosed(ts, p, "(", list, ",", "call")
  ELSE Enclosed(ts, p, "[", list, ",", "index")

\* a.b(c) is the call b(a, c): the parenthesis is looked for on any line.
InfixOn(ts, p, left) ==
  LET op == Symbol(ts, p)
  IN Bind(Pratt(ts, p + 1, Infix[op]), LAMBDA r :
       IF op = "."
       THEN IF Symbol(ts, r.pos) = "(" THEN ParenInfix(ts, r.pos, <<r.e, left>>)
            ELSE Made(r, ".", <<left, r.e>>)
       ELSE IF op \in SpecialOperators THEN Made(r, op, <<left, r.e>>)
       ELSE Made(r, "call", <<Leaf("Symbol", op), left, r.e>>))

PrefixOrTerm(ts, p) ==
  LET op == Symbol(ts, p)
  IN IF op \notin DOMAIN Prefix THEN Term(ts, p)
     ELSE Bind(Pratt(ts, p + 1, Prefix[op]), LAMBDA r :
            IF op \in SpecialOperators THEN Made(r, op, <<r.e>>)
            ELSE Made(r, "call", <<Leaf("Symbol", op), r.e>>))

\* One turn of the loop of pratt_parse: left takes in what follows it.
Extended(ts, left) ==
  LET p == left.pos
      s == Symbol(ts, p)
  IN CASE PeekNewline(ts, p) -> ParseList(ts, p, <<left.e>>, ";", "block")
       [] ~ PeekNewline(ts, p) /\ s = ";" -> ParseList(ts, p + 1, <<left.e>>, ";", "block")
       [] ~ PeekNewline(ts, p) /\ s = "," -> ParseList(ts, p + 1, <<left.e>>, ",", "tuple")
       [] ~ PeekNewline(ts, p) /\ s \in {"(", "["} -> ParenInfix(ts, p, <<left.e>>)
       [] OTHER -> InfixOn(ts, p, left.e)

\* Mutant of Grow: an operator of the same level is taken in too.
GrowRight(ts, left, precedence) ==
  IF Follow(ts, left.pos) < precedence \/ Follow(ts, left.pos) = 0 THEN left
  ELSE Bind(Extended(ts, left), LAMBDA r : Grow(ts, r, precedence))

Grow(ts, left, precedence) ==
  IF Follow(ts, left.pos) <= precedence THEN left
  ELSE Bind(Extended(ts, left), LAMBDA r : Grow(ts, r, precedence))

Pratt(ts, p, precedence) ==
  Bind(PrefixOrTerm(ts, p), LAMBDA left : Grow(ts, left, precedence))

IntoList(ts, p, list, sep) ==
  IF p > Len(ts) \/ Symbol(ts, p) \in Terminators THEN Ok(p, list)
  ELSE Bind(Pratt(ts, p, Separators[sep]), LAMBDA r :
         LET more == Append(list, r.e)
             implicit == sep = ";" /\ PeekNewline(ts, r.pos)
         IN IF implicit THEN IntoList(ts, r.pos, more, sep)
            ELSE IF Symbol(ts, r.pos) = sep THEN IntoList(ts, r.pos + 1, more, sep)
            ELSE Ok(r.pos, more))

If(ts, p) ==
  Bind(Pratt(ts, p, KeywordPrecedence), LAMBDA cond :
    Bind(NewScope(ts, Accept(ts, cond.pos, "then")), LAMBDA then :
      IF Symbol(ts, then.pos) # "else" THEN Made(then, "if", <<cond.e, then.e>>)
      ELSE Bind(NewScope(ts, then.pos + 1), LAMBDA else :
             Made(else, "if", <<cond.e, then.e, else.e>>))))

\* fun: with a name comes a body, and perhaps type variables; without, a type.
Fun(ts, p) ==
  LET full == Symbol(ts, p) # "("
      name == IF full THEN Bind(PrefixOrTerm(ts, p), LAMBDA n : Ok(n.pos, <<n.e>>))
              ELSE Ok(p, <<>>)
      returns(a, es) ==
        IF Symbol(ts, a.pos) # "=>" THEN Ok(a.pos, es)
        ELSE Bind(Pratt(ts, a.pos + 1, KeywordPrecedence), LAMBDA r : Ok(r.pos, Append(es, r.e)))
      polytypes(r) ==
        IF Symbol(ts, r.pos) # "with" THEN r
        ELSE Bind(ParseList(ts, r.pos + 1, <<>>, ",", "polytypes"),
                  LAMBDA v : Ok(v.pos, Append(r.e, v.e)))
  IN IF p > Len(ts) THEN Stuck(ts, p)
     ELSE Bind(name, LAMBDA n :
            Bind(Enclosed(ts, n.pos, "(", <<>>, ",", "args"), LAMBDA a :
              Bind(returns(a, Append(n.e, a.e)), LAMBDA r :
                IF ~ full THEN Made(r, "fun", r.e)
                ELSE Bind(polytypes(r), LAMBDA v :
                       Bind(BlockInBraces(ts, v.pos), LAMBDA b :
                         Made(b, "fun", Append(v.e, b.e)))))))

HeadAndBlock  == {"while", "for", "struct", "union"}
OneDefinition == {"cbind", "static", "let", "type"}

KeywordTerm(ts, p, s) ==
  CASE s = "if"  -> If(ts, p + 1)
    [] s = "fun" -> Fun(ts, p + 1)
    [] s \in HeadAndBlock ->
         Bind(Pratt(ts, p + 1, KeywordPrecedence), LAMBDA h :
           Bind(BlockInBraces(ts, h.pos), LAMBDA b : Made(b, s, <<h.e, b.e>>)))
    [] s \in OneDefinition ->
         Bind(Pratt(ts, p + 1, KeywordPrecedence), LAMBDA d : Made(d, s, <<d.e>>))
    [] s = "return" ->
         IF StatementTerminated(ts, p + 1) THEN Ok(p + 1, Construct("return", <<>>))
         ELSE Bind(Pratt(ts, p + 1, KeywordPrecedence), LAMBDA v : Made(v, "return", <<v.e>>))

\* A parenthesis holds (), or statements up to its closing token.
Parens(ts, p) ==
  IF Symbol(ts, p + 1) = ")" THEN Ok(p + 2, Leaf("Unit", "()"))
  ELSE Bind(Pratt(ts, p + 1, 0), LAMBDA e :
         Bind(Expect(ts, e.pos, ")"), LAMBDA c : Ok(c.pos, e.e)))

Term(ts, p) ==
  LET s == Symbol(ts, p)
  IN CASE p > Len(ts) -> Stuck(ts, p)
       [] p <= Len(ts) /\ ts[p].type = "IntLiteral" ->
            IF Len(ts[p].text) > MaxDigits THEN Stuck(ts, p)
            ELSE Ok(p + 1, Leaf("Int", ts[p].text))
       [] p <= Len(ts) /\ ts[p].type \in {"FloatLiteral", "StringLiteral"} ->
            Ok(p + 1, Leaf(ts[p].type, ts[p].text))
       [] s = "(" -> Parens(ts, p)
       [] s = "[" -> Enclosed(ts, p, "[", <<>>, ",", "array")
       [] s = "{" -> Enclosed(ts, p, "{", <<>>, ";", "block")
       [] s \in {"true", "false"} -> Ok(p + 1, Leaf("Bool", s))
       [] s \in HeadAndBlock \cup OneDefinition \cup {"if", "fun", "return"} -> KeywordTerm(ts, p, s)
       [] OTHER -> SimpleString(ts, p)

Parse(ts) ==
  Bind(ParseList(ts, 1, <<>>, ";", "block"), LAMBDA r :
    IF r.pos <= Len(ts) THEN Stuck(ts, r.pos) ELSE r)
=============================================================================
