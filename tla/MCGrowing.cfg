SPECIFICATION Spec
CONSTANTS
  Programs <- Growing
  Steps = 40
  MaxUnits = 6
  MaxDepth = 6
  MaxDigits = 19
PROPERTY EveryProgramEnds
