SPECIFICATION Spec
CONSTANTS
    Key <- EightKeys
    Order = 3
    MaxNodes = 7
INVARIANTS
    LookupExact
    ParentExact
    ScanExactUnlessStuck
