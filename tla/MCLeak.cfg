SPECIFICATION CompilerSpec
CONSTANTS
    Sources <- SmallSources
    Program <- SmallProgram
    Calls <- Flat
    MaxUnits = 5
    MaxDepth = 2
    UnloadKinds = {}
INVARIANT NothingLeftOfAFailedLoad
