SPECIFICATION Spec
CONSTANTS
    t = t
    u = u
    i = i
    j = j
    Log = Log
    NoTab = NoTab
    Torn = Torn
    Absent = Absent
    Tab <- MCTab
    TabSeq <- MCTabSeq
    Index <- MCIndex
    TabOf <- MCTabOf
    MaxDdl = 4
    MaxCrashes = 2
SYMMETRY MCSymmetry
CHECK_DEADLOCK FALSE
INVARIANTS
    CatalogExact
    RestartOpensUnlessSplit
    NameIsFreeUnlessOrphaned
    RecordsExactUnlessReused
