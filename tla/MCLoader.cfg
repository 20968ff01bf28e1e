SPECIFICATION LoaderSpec
CONSTANTS
    Texts = {"game", "no update", "ill-typed", "garbled"}
    MaxWrites = 3
INVARIANTS
    UpdateIsLive
    NameIsFree
    LoaderNotices
PROPERTY LoaderIsLive
