SPECIFICATION Spec
CONSTANTS
    c1 = c1
    c2 = c2
    None = None
    Client <- MCClient
    MaxCommands <- MCMaxCommands
    MaxFaults = 1
CHECK_DEADLOCK FALSE
INVARIANTS
    HandOffExact
    AnalysesOwnTree
    AnswersMatchUnlessSplit
    OpenOnlyIfExplicit
PROPERTIES
    AllServedUnlessAcceptFailed
