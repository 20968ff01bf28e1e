SPECIFICATION TarjanSpec
CONSTANTS
    Graphs <- SmallLoadGraphs
INVARIANT ComponentsAreStronglyConnected
