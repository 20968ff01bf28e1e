SPECIFICATION WatcherSpec
CONSTANTS
    Texts = {"text"}
    MaxWrites = 1
    MaxLines = 0
    MaxChildren = 2
    EditsAtStart = TRUE
    StdinEnds = FALSE
INVARIANT AllChangesAreNoticed
