\* "New lines are imlicitly semi-colons (except after an infix operator)"
\* (parser.rs:262): not before the parenthesis of a method call.
SPECIFICATION ReplSpec
CONSTANTS
  MaxDigits = 3
  Alphabets <- MCAlphabets
  NextLines <- MCNextLines
  Finishers <- MCFinishers
  MaxFinish = 20
INVARIANTS
  NewlineEndsStatement
CHECK_DEADLOCK FALSE
