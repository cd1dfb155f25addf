SPECIFICATION SHSpec
CONSTANTS
    Timers = {t1, t2}
    Callers = {g1}
    Modes = {"nowait"}
    FireCap = 1
    MaxDelay = 1
    Repeats = {0, 1}
    Users = {u1, u2}
    Clients = {c1, c2}
    Stoppers = {s1, s2}
    QueueSize = 2
    BatchSize = 2
    MaxUpdates = 3
    DbMayFail = FALSE
    p1 = p1
    p2 = p2
    p3 = p3
    LFProcs = {p1, p2, p3}
    LFProcessOf <- MCProcessOf
    LFContents <- MCContents
    PFProcs = {"i1", "i2"}
    PFRecord <- MCRecord
    PFMaxFiles = 3
    Nil = Nil
    Failed = Failed
SYMMETRY Symmetry
INVARIANTS AcceptedSafe CacheMatchesDbWhenFlushed LockedFileSafe PidFileSafe TimersConsistent
PROPERTY FlushesSafe
CHECK_DEADLOCK FALSE
