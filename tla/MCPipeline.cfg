SPECIFICATION Spec
CONSTANTS
  Programs <- MCPrograms
  Steps = 40
  MaxUnits = 6
  MaxDepth = 6
  MaxDigits = 19
INVARIANTS
  VerdictIsOfTheProgram
  NothingUnknownIsUnreported
  TypedMeansWellTyped
  CodeForAllThatIsSupported
  RunsAsMeant
PROPERTIES
  KnownTypesOnlyNarrow
  EveryProgramEnds
