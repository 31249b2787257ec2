\* Reliable transport; three calls: a write, then a read of an
\* overlapping range, then one more call of either kind.
CONSTANTS
    Addrs <- MCAddrs
    MemVals = {0, 49}
    Lens = {1, 2}
    MaxCalls = 3
    ShortRecv = FALSE
SPECIFICATION Spec
INVARIANT TypeOK
INVARIANT ReadReturnsWritten
PROPERTY ImplementsPoserMemStore
CHECK_DEADLOCK FALSE
