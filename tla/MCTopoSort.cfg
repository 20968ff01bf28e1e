SPECIFICATION SortSpec
CONSTANTS
    Graphs <- MCGraphs
INVARIANT
    AnswerIsValid
PROPERTY
    AnswersRightly
