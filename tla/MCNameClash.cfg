SPECIFICATION CompilerSpec
CONSTANTS
    Sources <- ClashSources
    Program <- ClashProgram
    Calls <- OneGeneric
    MaxUnits = 9
    MaxDepth = 3
    UnloadKinds = {}
INVARIANT InstanceNamesAreUnique
