-------------------------------- MODULE Repl --------------------------------
(***************************************************************************)
(* The command line's two ways to give the compiler a text (main.rs):      *)
(* "run", a file that is read and evaluated once, and "repl" (repl.rs),    *)
(* lines that are evaluated together until their parse no longer fails for *)
(* want of a token.  The text grows a chunk at a time; what the later      *)
(* stages of the compiler say of a text that parses is left open.          *)
(***************************************************************************)
EXTENDS Lexer, Structure

CONSTANTS Alphabets,    \* sets of chunks with a bound on their number
          NextLines,    \* lines that may follow a text
          MaxFinish,    \* the number of lines that finish any text of the bounds
          Finishers     \* lines that may finish an incomplete text, in the order to try
ASSUME AlphabetsAssumption ==
  \A a \in Alphabets :
    a.medium \in {"run", "repl"} /\ a.chunks \subseteq STRING /\ a.max \in Nat \ {0}

VARIABLES alphabet, \* where the chunks come from, and the medium: "run" or "repl"
          typed,    \* the chunks and the lines typed since the last text ended
          input_line, \* the lines entered so far, in the repl
          line,     \* the line being typed, or the file
          said      \* the answer to what was entered last, until a new text is
                    \* begun: "none", a ReplResult, or "dead", the process gone
vars == << alphabet, typed, input_line, line, said >>

\* What lexing and parsing say of a text.
Verdict(text) ==
  LET l == Lex(text)
  IN IF l.died THEN "dead" ELSE IF l.errors # <<>> THEN "bad" ELSE Parse(l.tokens).is
Tree(text) == Parse(Lex(text).tokens).e

\* The text the next evaluation sees.
Text == IF said = "Incomplete" THEN input_line \o "\n" \o line ELSE line

ReplInit ==
  /\ alphabet \in Alphabets
  /\ typed = 0 /\ input_line = "" /\ line = "" /\ said = "none"

Type(chunk) ==
  /\ IF alphabet.medium = "run" THEN said = "none" ELSE said # "dead" /\ chunk # "\n"
  /\ typed < alphabet.max
  /\ line' = line \o chunk
  /\ typed' = typed + 1
  /\ said' = IF said = "Incomplete" THEN said ELSE "none"
  /\ UNCHANGED << alphabet, input_line >>

\* repl_eval: only a parse error for want of a token is incomplete.
Outcomes(text) ==
  CASE Verdict(text) = "dead" -> {"dead"}
    [] Verdict(text) = "bad"  -> {"Failed"}
    [] Verdict(text) = "more" -> {"Incomplete"}
    [] Verdict(text) = "ok"   -> {"Complete", "Failed"}

\* load_and_run: whatever the outcome it is printed, and the process ends.
RunFile ==
  /\ alphabet.medium = "run" /\ said = "none"
  /\ said' \in {IF o = "Incomplete" THEN "Failed" ELSE o : o \in Outcomes(Text)}
  /\ UNCHANGED << alphabet, typed, input_line, line >>

\* One turn of the inner loop of run_repl.
EnterLine ==
  /\ alphabet.medium = "repl" /\ said # "dead"
  /\ typed <= alphabet.max
  /\ said' \in Outcomes(Text)
  /\ input_line' = IF said' = "Incomplete" THEN Text ELSE ""
  /\ line' = ""
  /\ typed' = IF said' = "Incomplete" THEN typed + 1 ELSE 0
  /\ UNCHANGED alphabet

\* readline fails at the end of the input, and the result is unwrapped.
CloseInput ==
  /\ alphabet.medium = "repl" /\ said # "dead"
  /\ said' = "dead"
  /\ UNCHANGED << alphabet, typed, input_line, line >>

ReplNext ==
  \/ \E chunk \in alphabet.chunks : Type(chunk)
  \/ RunFile
  \/ EnterLine
  \/ CloseInput

ReplSpec == ReplInit /\ [][ReplNext]_vars

-----------------------------------------------------------------------------
TypeOK ==
  /\ alphabet \in Alphabets
  /\ typed \in 0 .. alphabet.max + 1
  /\ input_line \in STRING /\ line \in STRING
  /\ said \in {"none", "Complete", "Incomplete", "Failed", "dead"}
  /\ said = "Incomplete" => alphabet.medium = "repl"
  /\ input_line # "" => said \in {"Incomplete", "dead"}

HasPart(text, w) == \E p \in 1 .. Len(text) - Len(w) + 1 : SubSeq(text, p, p + Len(w) - 1) = w

\* A string literal, or a comment, is open at the end of the text.
OpenString(text)  == Len(Lex(text \o "\"").errors) < Len(Lex(text).errors)
OpenComment(text) == Len(Lex(text \o "\n*/").tokens) = Len(Lex(text).tokens)
IsOpen(text) == Lex(text).died \/ OpenString(text) \/ OpenComment(text)

\* Where the lines that are counted begin: behind a newline, unless a comment is
\* open there (the TODO at lexer.rs:280).  (OpenComment is true of an open string too.)
Before(text, p) == SubSeq(text, 1, p - 1)
NewlineIn(text, p) == SubSeq(text, p, p) = "\n"
Counted(text, p) ==
  NewlineIn(text, p) /\ (OpenComment(Before(text, p)) => OpenString(Before(text, p)))
LineStarts(text) == {0} \cup {p \in 1 .. Len(text) : Counted(text, p)}
StartOfLine(text, n) ==
  CHOOSE p \in LineStarts(text) : Cardinality({q \in LineStarts(text) : q < p}) = n - 1
\* The columns of a line that begins within a string have the newline as the first
\* (lexer.rs:327).
FirstColumn(text, p) == IF p > 0 /\ OpenString(Before(text, p)) THEN 1 ELSE 0
PlaceOf(text, marker) ==
  LET p == StartOfLine(text, marker.line) IN p + marker.col - FirstColumn(text, p)
OnItsLine(text, marker) ==
  marker.line = Cardinality({p \in LineStarts(text) : p <= PlaceOf(text, marker)})

\* A token's markers lead back to its characters, in every text, with newlines between
\* tokens, in comments and in strings: its line is the number of newlines before it, its
\* column the distance from the last of them, but for the two exceptions above.  Every
\* error message and the parser's newline rule rest on these markers (lexer.rs:103, :125).
\* A string literal's are those of what is between the quotes and of the closing one.
MarkersLeadToTheToken ==
  \A t \in ToSet(Lex(Text).tokens) :
    LET from == PlaceOf(Text, t.from)
        to   == PlaceOf(Text, t.to)
    IN /\ OnItsLine(Text, t.from) /\ OnItsLine(Text, t.to)
       /\ from <= to /\ to <= Len(Text)
       /\ IF t.type = "StringLiteral"
          THEN /\ SubSeq(Text, from, from) = "\"" /\ SubSeq(Text, to, to) = "\""
               /\ OpenString(Before(Text, to)) /\ ~ OpenString(Before(Text, from))
          ELSE t.text = SubSeq(Text, from + 1, to)

\* A line lexes to the same tokens wherever it stands: an error, a number or an escape
\* before it leaves nothing behind.  Only an open string or comment reaches the next
\* line.  The repl lexes the earlier lines again with each new one (repl.rs:50).
LinesLexApart ==
  LET above == Lex(Text)
      below(m) == [m EXCEPT !.line = @ + above.loc.line]
  IN ~ IsOpen(Text) =>
       \A line2 \in NextLines :
         LET next == Lex(line2)
             both == Lex(Text \o "\n" \o line2)
         IN /\ both.tokens = above.tokens \o [i \in DOMAIN next.tokens |->
                 [next.tokens[i] EXCEPT !.from = below(@), !.to = below(@)]]
            /\ Len(both.errors) = Len(above.errors) + Len(next.errors)

\* No text kills the lexer but one that ends in the middle of an escape (lexer.rs:320
\* reads past the end of the text there).
OnlyAnOpenEscapeKills ==
  Lex(Text).died => OpenString(Text \o "n") /\ SubSeq(Text, Len(Text), Len(Text)) = "\\"

\* The repl gives up on a text only when no further line can make it parse: an error at a
\* token is an error whatever follows (repl.rs:22).  An open string is the exception.
FailureIsFinal ==
  Verdict(Text) = "bad" /\ ~ OpenString(Text) =>
    \A next \in NextLines : Verdict(Text \o "\n" \o next) \in {"bad", "dead"}

\* A text with the first words added that leave it right or incomplete, until it is right.
RECURSIVE FirstFit(_, _), Finished(_, _)
FirstFit(text, i) ==
  IF i > Len(Finishers) \/ Verdict(text \o Finishers[i]) # "bad" THEN i ELSE FirstFit(text, i + 1)
Finished(text, n) ==
  LET i == FirstFit(text, 1)
  IN IF n = 0 \/ Verdict(text) # "more" \/ i > Len(Finishers) THEN text
     ELSE Finished(text \o Finishers[i] \o "\n", n - 1)
\* The repl asks for more only when more can help: an incomplete text is a prefix of one
\* that parses, so that the user is never caught at the second prompt (repl.rs:47).
IncompleteCanBeFinished ==
  Verdict(Text) = "more" /\ ~ OpenComment(Text) =>
    Verdict(Finished(Text \o "\n", MaxFinish)) = "ok"

-----------------------------------------------------------------------------
\* What precedence and associativity mean, without climbing: tokens of one line, operands
\* and operators only.  A prefix operator covers what binds tighter on its right, up to
\* the first operator that does not; the tree splits at the rightmost of the loosest
\* operators that no prefix operator covers.
Operand(t) == t.type # "Symbol" \/ t.text \in {"a", "b"}
IsInfixOp(ts, k) == k > 1 /\ ~ Operand(ts[k]) /\ Operand(ts[k - 1])
IsPrefixOp(ts, k) == ~ Operand(ts[k]) /\ ~ IsInfixOp(ts, k)
IsOperation(ts) ==
  /\ ts # <<>> /\ Operand(Last(ts)) /\ Last(ts).to.line = 1
  /\ \A k \in DOMAIN ts :
       /\ Operand(ts[k]) => k = 1 \/ ~ Operand(ts[k - 1])
       /\ IsInfixOp(ts, k) => ts[k].text \in DOMAIN Infix \ {"(", "["}
       /\ IsPrefixOp(ts, k) => ts[k].text \in DOMAIN Prefix
       /\ ts[k].type = "IntLiteral" => Len(ts[k].text) <= MaxDigits

RECURSIVE Reference(_, _, _)
Reference(ts, i, j) ==
  LET infixes == {k \in i .. j : IsInfixOp(ts, k)}
      bind(k) == Infix[ts[k].text]
      covers(p, k) == \A m \in infixes : m \in p .. k => bind(m) > Prefix[ts[p].text]
      free == {k \in infixes : ~ \E p \in i .. k : IsPrefixOp(ts, p) /\ covers(p, k)}
      split == CHOOSE k \in free : \A m \in free \ {k} :
                 bind(k) < bind(m) \/ (bind(k) = bind(m) /\ m < k)
      node(k, operands) ==
        IF ts[k].text \in SpecialOperators THEN Construct(ts[k].text, operands)
        ELSE Construct("call", << Leaf("Symbol", ts[k].text) >> \o operands)
  IN IF i = j THEN Term(ts, i).e
     ELSE IF free = {} THEN node(i, << Reference(ts, i + 1, j) >>)
     ELSE node(split, << Reference(ts, i, split - 1), Reference(ts, split + 1, j) >>)

\* Climbing finds the tree that the table of precedences means (parser.rs:255), with a
\* loose prefix operator after a tight infix one (parser.rs:339) and the "%" that is
\* entered at two levels (parser.rs:80).
ClimbingMeetsTheTable ==
  LET ts == Lex(Text).tokens
  IN ~ Lex(Text).died /\ Lex(Text).errors = <<>> /\ IsOperation(ts) =>
       Parse(ts).e = Construct("block", << Reference(ts, 1, Len(ts)) >>)

\* Text that may follow a newline, or end at one, as part of one statement.
Continues(ts) == ts # <<>> /\ ts[1].text \in {"else", "then", "=>"}
Ends(ts) == ts # <<>> => Last(ts).text \notin DOMAIN Separators \cup DOMAIN Infix
Stacked(next) ==
  LET both == Parse(Lex(Text \o "\n" \o next).tokens)
  IN both.is = "ok" /\ both.e.args = Tree(Text).args \o Tree(next).args
\* A newline ends a statement: two texts that parse, one above the other, are the
\* statements of the one and those of the other.  "New lines are imlicitly semi-colons
\* (except after an infix operator)" (parser.rs:262): so too after a separator; and a
\* word that continues a keyword term is looked for on the next line.
NewlineEndsStatement ==
  Verdict(Text) = "ok" /\ ~ IsOpen(Text) /\ Ends(Lex(Text).tokens) =>
    \A next \in NextLines :
      Verdict(next) = "ok" /\ ~ Continues(Lex(next).tokens) => Stacked(next)

\* The one newline that does not is before the parenthesis of a method call.
NewlineEndsStatementButNotMethod ==
  Verdict(Text) = "ok" /\ ~ IsOpen(Text) /\ Ends(Lex(Text).tokens) =>
    \A next \in NextLines :
      /\ Verdict(next) = "ok" /\ ~ Continues(Lex(next).tokens)
      /\ HasPart(Text, ".") => SubSeq(next, 1, 1) # "("
      => Stacked(next)

-----------------------------------------------------------------------------
\* The nodes of a text, its blocks closed, if it parses and converts.
RECURSIVE Closed(_, _)
Closed(text, open) == IF open <= 0 THEN text ELSE Closed(text \o " }", open - 1)
Unit ==
  LET braces(b) == Cardinality({p \in 1 .. Len(Text) : SubSeq(Text, p, p) = b})
      text == Closed(Text, braces("{") - braces("}"))
  IN IF Verdict(text) = "ok" THEN ToNodes(Tree(text)) ELSE Failed(Converter)

\* What a node is within, the node itself too, from a function `whole` that gives the nodes
\* each is a part of.
WholeOf(c) == [n \in DOMAIN c.nodes |-> {m \in DOMAIN c.nodes : n \in ToSet(c.nodes[m].kids)}]
RECURSIVE Around(_, _)
Around(whole, n) == {n} \cup UNION {Around(whole, m) : m \in whole[n]}
Nearest(c, whole, n, is) == Min({m \in Around(whole, n) \ {n} : c.nodes[m].is = is} \cup {Len(c.nodes)})

\* A jump out of one of the labels around it.
JumpLeaves(c, n, labels, words) ==
  LET left == {m \in labels : c.nodes[m].to = c.nodes[n].to}
  IN /\ left # {}
     /\ c.nodes[n].kids # <<>> \/ "break" \notin words => left = { Max(labels) }
     /\ "return" \notin words => left = { Min(labels) }
JumpsLeaveLabels(c, whole, words) ==
  c.ok => \A n \in DOMAIN c.nodes : c.nodes[n].is = "BreakToLabel" =>
    JumpLeaves(c, n, {m \in Around(whole, n) : /\ c.nodes[m].is = "Label"
                                               /\ m < Nearest(c, whole, n, "FunctionDefinition")}, words)
\* break and return leave a label they are within, of the function they are in: return,
\* the only one with a value, the function's own; break the innermost.  The converter's
\* stack of labels says so only if every conversion leaves it as it was (structure.rs:620).
JumpsLeaveTheirFunctionsLabels ==
  LET c == Unit IN JumpsLeaveLabels(c, WholeOf(c), {t.text : t \in ToSet(Lex(Text).tokens)})

\* The last of the lets that a name can mean, or else the last parameter.
Meant(c, lets, params, name) ==
  IF lets # {} THEN c.nodes[Max(lets)].to ELSE Max({s \in ToSet(params) : c.symbols[s] = name} \cup {0})
NamesAreLatest(c, whole) ==
  LET fun(n)  == Nearest(c, whole, n, "FunctionDefinition")
      lets(n) == {d \in 1 .. n : /\ c.nodes[d].is = "VariableInitialise" /\ c.nodes[d].name = "Local"
                                  /\ fun(d) = fun(n) /\ Nearest(c, whole, d, "Block") \in Around(whole, n)
                                  /\ c.symbols[c.nodes[d].to] = c.nodes[n].name}
  IN c.ok => \A n \in DOMAIN c.nodes : c.nodes[n].is = "Reference" =>
       c.nodes[n].to = Meant(c, lets(n), c.nodes[fun(n)].params, c.nodes[n].name)
\* A name means the latest declaration it can see: an argument of its function, or a let
\* that came before it, in its function, in a block it is within; if there is none the
\* name is left to the symbols of the unit and its imports.  A variable of another
\* function has no storage in this one (llvm_codegen.rs:1725, :1732).
NamesMeanTheLatestVisible == LET c == Unit IN NamesAreLatest(c, WholeOf(c))
=============================================================================
