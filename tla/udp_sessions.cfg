SPECIFICATION UPSpec
CONSTANTS
    Addrs = {a1}
    Closers = {k1, k2}
    MaxSessions = 2
    MaxDatagrams = 2
INVARIANT SessionsSafe
PROPERTIES SessionReclaimed ShutdownReturns
CHECK_DEADLOCK FALSE
