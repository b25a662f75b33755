SPECIFICATION Spec
CONSTANTS
    t1 = t1
    t2 = t2
    r1 = r1
    v1 = v1
    v2 = v2
    p1 = p1
    None = None
    Absent = Absent
    Txn <- TwoTxn
    Rid <- OneRid
    Val <- TwoVal
    PageOf <- OnePage
    Steal = TRUE
    MaxWrites = 3
    MaxCrashes = 2
CHECK_DEADLOCK FALSE
SYMMETRY Symmetry
INVARIANTS
    RecoveryExactUnlessExposed
    UndoMeetsItsChange
