SPECIFICATION Spec
CONSTANTS
  Programs <- Branching
  Steps = 40
  MaxUnits = 6
  MaxDepth = 6
  MaxDigits = 19
INVARIANT VerdictIsOfTheProgram
