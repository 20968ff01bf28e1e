SPECIFICATION WatcherSpec
CONSTANTS
    Texts = {"text"}
    MaxWrites = 2
    MaxLines = 2
    MaxChildren = 3
    EditsAtStart = FALSE
    StdinEnds = TRUE
INVARIANTS
    OnlyOneChildLives
    StaleIsNoticed
PROPERTY WatcherIsLive
