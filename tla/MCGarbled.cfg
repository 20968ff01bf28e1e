SPECIFICATION LoaderSpec
CONSTANTS
    Texts = {"game", "garbled"}
    MaxWrites = 1
INVARIANT FailedLoadsAreSurvived
