SPECIFICATION Spec
CONSTANTS
    c1 = c1
    c2 = c2
    fd1 = fd1
    zero = zero
    d1 = d1
    Zero = zero
    NoFd = NoFd
    Client <- MCClient
    Fd <- OneFd
    Data <- TwoData
    PoolSize = 2
    MaxPages = 3
    MaxFaults = 1
    QuiescentClose = TRUE
SYMMETRY Symmetry
INVARIANTS
    PageTableExact
    FramePartition
    PinProtects
    CleanIsOnDisk
PROPERTY ImplementsStore
