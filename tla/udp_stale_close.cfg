SPECIFICATION Spec
CONSTANTS
    Addrs = {a1}
    Closers = {k1}
    MaxSessions = 2
    MaxDatagrams = 2
INVARIANT OpenSessionRegistered
CHECK_DEADLOCK FALSE
