\* TCP recv may return fewer bytes than asked for.
CONSTANTS
    Addrs <- MCAddrs
    MemVals = {0, 49}
    Lens = {1, 2}
    MaxCalls = 2
    ShortRecv = TRUE
SPECIFICATION Spec
INVARIANT ReadIsWhole
CHECK_DEADLOCK FALSE
