SPECIFICATION CompilerSpec
CONSTANTS
    Sources <- ReloadSources
    Program <- ReloadProgram
    Calls <- Nested
    MaxUnits = 8
    MaxDepth = 2
    UnloadKinds = {"dependents"}
INVARIANTS
    CompilerTypeOK
    PolyTablesAgree
    LoadedUnitsAreWhole
    CodeLostOnlyByMisgrouping
    LinkedAfterGenerated
PROPERTY
    FailureLeavesOthersAlone
