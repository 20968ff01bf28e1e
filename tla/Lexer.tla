------------------------------- MODULE Lexer -------------------------------
(***************************************************************************)
(* The lexer (compiler/src/lexer.rs): from a text, a string, to tokens     *)
(* with the place each was read at, or to errors.  A lexer state is a      *)
(* record; LexStep is one turn of the loop of lex, and Lex runs the loop   *)
(* to the end of the text.                                                 *)
(***************************************************************************)
EXTENDS Integers, Sequences, SequencesExt, FiniteSetsExt, TLC

Letters == {"a", "b", "c", "d", "e", "f", "g", "h", "i", "j", "k", "l", "m", "n",
            "o", "p", "q", "r", "s", "t", "u", "v", "w", "x", "y", "z",
            "A", "B", "C", "D", "E", "F", "G", "H", "I", "J", "K", "L", "M", "N",
            "O", "P", "Q", "R", "S", "T", "U", "V", "W", "X", "Y", "Z", "_"}
Digits  == {"0", "1", "2", "3", "4", "5", "6", "7", "8", "9"}
Spaces  == {" ", "\t"}
Escapes == "\\" :> "\\" @@ "n" :> "\n" @@ "t" :> "\t" @@ "\"" :> "\"" @@ "0" :> "^0"

\* The operators, in the order in which they are tried.
SYNTAX == << "==", "!=", "<=", ">=", "=>", "+=", "-=", "*=", "/=", "||",
             "&&", "{", "}", "(", ")", "[", "]", "<", ">", ";", ":", ",",
             ".", "=", "+", "-", "*", "/", "%", "?", "|", "&", "^", "!",
             "$", "'", "#" >>

\* loc.pos counts the characters read; line_start is the pos where the line begins.
StreamStart == [pos |-> 0, line |-> 1, line_start |-> 0]
Marker(loc) == [line |-> loc.line, col |-> loc.pos - loc.line_start]
HasChars(text, loc) == loc.pos < Len(text)
Peek(text, loc) == SubSeq(text, loc.pos + 1, loc.pos + 1)
Skip(loc, n) == [loc EXCEPT !.pos = @ + n]
\* Mutant of AdvanceLine: the new line's start is not noted.
AdvanceLineOnly(loc) == [loc EXCEPT !.line = @ + 1]
AdvanceLine(loc) == [loc EXCEPT !.line = @ + 1, !.line_start = loc.pos]

PeekString(text, loc, w) ==
  /\ loc.pos + Len(w) <= Len(text)
  /\ SubSeq(text, loc.pos + 1, loc.pos + Len(w)) = w

\* Skips characters up to the first place of a set, or the end of the text.
SkipTo(text, loc, places) ==
  [loc EXCEPT !.pos = Min({p \in places : p >= @} \cup {Max({Len(text), @})})]
PlacesOf(text, w) == {p \in 0 .. Len(text) - Len(w) : SubSeq(text, p + 1, p + Len(w)) = w}
SkipChars(text, loc, S) ==
  SkipTo(text, loc, {p \in 0 .. Len(text) - 1 : SubSeq(text, p + 1, p + 1) \notin S})

LexerStart == [loc |-> StreamStart, tokens |-> <<>>, errors |-> <<>>, died |-> FALSE]

TokenOf(type, word, from, to) ==
  [type |-> type, text |-> word, from |-> Marker(from), to |-> Marker(to)]

\* complete_token: the token covers the text from start to the place reached.
CompleteToken(l, type, word, start, end) ==
  [l EXCEPT !.loc = end, !.tokens = Append(@, TokenOf(type, word, start, end))]
RaiseError(l, start, end) ==
  [l EXCEPT !.loc = end, !.errors = Append(@, [from |-> Marker(start), to |-> Marker(end)])]
Read(text, start, end) == SubSeq(text, start.pos + 1, end.pos)

LexSymbol(text, l) ==
  LET end == SkipChars(text, l.loc, Letters \cup Digits)
  IN CompleteToken(l, "Symbol", Read(text, l.loc, end), l.loc, end)

\* A fraction may be empty.
LexFraction(text, whole) ==
  IF HasChars(text, whole) /\ Peek(text, whole) = "." THEN SkipChars(text, Skip(whole, 1), Digits) ELSE whole
NumberType(whole, end) == IF whole = end THEN "IntLiteral" ELSE "FloatLiteral"
NumberToken(text, l, whole, end) ==
  IF HasChars(text, end) /\ Peek(text, end) \in Letters
  THEN RaiseError(l, l.loc, SkipChars(text, end, Letters \cup Digits))
  ELSE CompleteToken(l, NumberType(whole, end), Read(text, l.loc, end), l.loc, end)
LexNumber(text, l) ==
  LET whole == SkipChars(text, l.loc, Digits) IN NumberToken(text, l, whole, LexFraction(text, whole))

\* The body of a string literal: [end, word, is], where is says how it ended. A
\* newline counts as a line before it is read; an escape reads the next character
\* without a look at the end of the text, and the process dies there.
RECURSIVE StringBody(_, _, _)
StringBody(text, loc, word) ==
  LET ended(is, end) == [is |-> is, end |-> end, word |-> word]
      c == Peek(text, loc)
      e == Peek(text, Skip(loc, 1))
  IN CASE ~ HasChars(text, loc) -> ended("open", loc)
       [] HasChars(text, loc) /\ c = "\"" -> ended("closed", Skip(loc, 1))
       [] HasChars(text, loc) /\ c = "\\" ->
            IF ~ HasChars(text, Skip(loc, 1)) THEN ended("dead", loc)
            ELSE IF e \notin DOMAIN Escapes THEN ended("bad escape", Skip(loc, 1))
            ELSE StringBody(text, Skip(loc, 2), word \o Escapes[e])
       [] HasChars(text, loc) /\ c \notin {"\"", "\\"} ->
            StringBody(text, Skip(IF c = "\n" THEN AdvanceLine(loc) ELSE loc, 1), word \o c)

\* Mutant of StringToken: the closing quote is read without a look at the end.
StringTokenUnchecked(l, start, body) ==
  CASE body.is = "closed" -> CompleteToken(l, "StringLiteral", body.word, start, body.end)
    [] body.is \in {"dead", "open"} -> [l EXCEPT !.died = TRUE]
    [] OTHER              -> RaiseError(l, start, body.end)
StringToken(l, start, body) ==
  CASE body.is = "closed" -> CompleteToken(l, "StringLiteral", body.word, start, body.end)
    [] body.is = "dead"   -> [l EXCEPT !.died = TRUE]
    [] OTHER              -> RaiseError(l, start, body.end)
LexStringLiteral(text, l) ==
  LET start == Skip(l.loc, 1) IN StringToken(l, start, StringBody(text, start, ""))

\* Mutant of LexComment: a line comment takes the newline with it.
LexCommentAndNewline(text, l) ==
  [l EXCEPT !.loc = Skip(SkipTo(text, @, PlacesOf(text, "\n")), 1)]

\* A comment's lines are not counted.
LexComment(text, l) ==
  [l EXCEPT !.loc =
     IF PeekString(text, @, "/*")
     THEN LET open == Skip(@, 2)
          IN Skip(SkipTo(text, open, PlacesOf(text, "*/")), 2)
     ELSE SkipTo(text, @, PlacesOf(text, "\n"))]

LexSyntax(text, l) ==
  LET op == SYNTAX[Min({i \in DOMAIN SYNTAX : PeekString(text, l.loc, SYNTAX[i])})]
  IN CompleteToken(l, "Symbol", op, l.loc, Skip(l.loc, Len(op)))

UnknownToken(l) == RaiseError(l, l.loc, Skip(l.loc, 1))

\* One turn of lex_with_errors; an error is noted and lexing goes on after it.
LexStep(text, l) ==
  LET c == Peek(text, l.loc)
  IN CASE c = "\n"        -> [l EXCEPT !.loc = AdvanceLine(Skip(@, 1))]
       [] PeekString(text, l.loc, "\r\n") -> [l EXCEPT !.loc = AdvanceLine(Skip(@, 2))]
       [] c \in Spaces    -> [l EXCEPT !.loc = SkipChars(text, @, Spaces)]
       [] c \in Letters   -> LexSymbol(text, l)
       [] c = "\""        -> LexStringLiteral(text, l)
       [] c \in Digits    -> LexNumber(text, l)
       [] PeekString(text, l.loc, "/*") \/ PeekString(text, l.loc, "//") -> LexComment(text, l)
       [] c \in ToSet(SYNTAX) /\ ~ PeekString(text, l.loc, "/*")
                              /\ ~ PeekString(text, l.loc, "//") -> LexSyntax(text, l)
       [] OTHER           -> UnknownToken(l)

RECURSIVE LexFrom(_, _)
LexFrom(text, l) ==
  IF ~ HasChars(text, l.loc) \/ l.died THEN l ELSE LexFrom(text, LexStep(text, l))

Lex(text) == LexFrom(text, LexerStart)
=============================================================================
