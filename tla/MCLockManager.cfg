CONSTANTS
    t1 = t1
    t2 = t2
    t3 = t3
    r1 = r1
    r2 = r2
    fd1 = fd1
    NoRid = NoRid
    Txn <- MCTxn
    Rid <- MCRid
    Fd <- MCFd
SPECIFICATION Spec
SYMMETRY Symmetry
INVARIANTS
    GrantedCompatible
    LockSetAgrees
    NoImplicitConflict
