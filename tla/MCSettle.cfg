SPECIFICATION CompilerSpec
CONSTANTS
    Sources <- SmallSources
    Program <- SmallProgram
    Calls <- Mutual
    MaxUnits = 9
    MaxDepth = 2
    UnloadKinds = {"single"}
PROPERTIES
    GroupsAreExactInOrder
    LoadsSettle
