\* A statement ends: no step after "done", "error" or "aborted".
CONSTANTS
    TabCols <- MCTabCols
    Indexes <- MCIndexes
    Databases <- MCDatabases
    Queries <- MCQueries
    BlockCapacity = 2
    INT_MAX = 7
    BUFFER_LENGTH = 290
    RECORD_COUNT_LENGTH = 40
    COL_WIDTH = 16
SPECIFICATION Spec
CHECK_DEADLOCK FALSE
INVARIANTS
    AnswerExactUnlessTwice
    AnswerOrdered
    AggregateExactUnlessWide
    FailsOnlyIf
    SentWholeOrMarked
