------------------------------- MODULE MCRepl -------------------------------
(***************************************************************************)
(* Texts for Repl: characters, and what goes over lines, for the lexer;    *)
(* operators; brackets and separators; words with the brackets they need;  *)
(* and statements.                                                         *)
(***************************************************************************)
EXTENDS Repl

Characters == [medium |-> "run", max |-> 4, chunks |->
  {"a", "1.", "\"", "\\", "/", "*", "\n"}]
Lines      == [medium |-> "run", max |-> 4, chunks |->
  {"/*", "*/", "//", "\"", "\n", "a "}]
Operators  == [medium |-> "run", max |-> 4, chunks |->
  {"1 * ", "a . ", "b = ", "- ", "# ", "a % b "}]
Brackets   == [medium |-> "repl", max |-> 3, chunks |->
  {"a ", "a . a ", "( ", ") ", "[ a ", ", ", "{ "}]
Keywords   == [medium |-> "repl", max |-> 3, chunks |->
  {"if a ", "fun ", "while ", "return ", "else ", "a ", "( ) "}]
Scopes     == [medium |-> "run", max |-> 3, chunks |->
  {"let a = a ; ", "} ; ", "fun b ( b ) { a ; ", "while a { let b = b ; ", "for a in b { b ; ",
   "break ; a ; ", "return b ; b ; "}]
Templates  == [medium |-> "run", max |-> 2, chunks |->
  {"# ( a $ a ) ; ", "struct a { a : b ", "a [ a ] = ", "} ; ", "new a ( b : a ) . a ; ",
   "static b = a ; ", "a as b ; ", "if a { "}]

MCAlphabets == {Characters, Lines, Operators, Brackets, Keywords, Scopes, Templates}
MCNextLines == {"a", "(a)", ")", "\"", "else b", "1.5 == \"c\\n\""}
MCFinishers == << ")", "]", "}", "a", "{", "(" >>
=============================================================================
