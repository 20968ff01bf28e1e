SPECIFICATION CompilerSpec
CONSTANTS
    Sources <- StructSources
    Program <- StructProgram
    Calls <- OneGeneric
    MaxUnits = 8
    MaxDepth = 2
    UnloadKinds = {"dependents"}
INVARIANTS
    NoDanglingImport
    InstancesAreOfLiveCode
PROPERTY
    LoadsAreAtomic
