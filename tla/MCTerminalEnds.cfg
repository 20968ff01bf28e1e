SPECIFICATION WatcherSpec
CONSTANTS
    Texts = {"text"}
    MaxWrites = 1
    MaxLines = 1
    MaxChildren = 3
    EditsAtStart = FALSE
    StdinEnds = TRUE
INVARIANT RestartsAreAskedFor
