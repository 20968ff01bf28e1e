SPECIFICATION TarjanSpec
CONSTANTS
    Graphs <- MCGraphs
INVARIANTS
    EachVertexInOnePlace
    NothingLeftBehind
    ExactWhenDiscoveredInOrder
PROPERTY
    TarjanTerminates
