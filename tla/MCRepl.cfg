\* What the lexer, the parser and the conversion to nodes make of every small text.
SPECIFICATION ReplSpec
CONSTANTS
  MaxDigits = 3
  Alphabets <- MCAlphabets
  NextLines <- MCNextLines
  MaxFinish = 20
  Finishers <- MCFinishers
INVARIANTS
  MarkersLeadToTheToken
  LinesLexApart
  OnlyAnOpenEscapeKills
  FailureIsFinal
  IncompleteCanBeFinished
  ClimbingMeetsTheTable
  NewlineEndsStatementButNotMethod
  JumpsLeaveTheirFunctionsLabels
  NamesMeanTheLatestVisible
CHECK_DEADLOCK FALSE
