SPECIFICATION TMSpec
CONSTANTS
    t1 = t1
    t2 = t2
    r1 = r1
    r2 = r2
    fd1 = fd1
    v1 = v1
    v2 = v2
    NoRid = NoRid
    Absent = Absent
    Unseen = Unseen
    Txn <- MCTxn
    Fd <- OneFd
    Rid <- TwoRid
    Val <- TwoVal
    MaxStmts = 2
CHECK_DEADLOCK FALSE
SYMMETRY Symmetry
INVARIANTS
    DirtyIsLocked
    RollbackExact
    ReadsStillCurrent
