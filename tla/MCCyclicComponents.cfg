SPECIFICATION CompilerSpec
CONSTANTS
    Sources <- ReloadSources
    Program <- ReloadProgram
    Calls <- Mutual
    MaxUnits = 8
    MaxDepth = 2
    UnloadKinds = {}
INVARIANT ComponentsCanBeOrdered
