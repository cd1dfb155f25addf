SPECIFICATION Spec
CONSTANTS
    Users = {u1, u2}
    Clients = {c1}
    Stoppers = {s1}
    QueueSize = 2
    BatchSize = 2
    MaxUpdates = 3
    DbMayFail = FALSE
INVARIANT DrainGuarantee
CHECK_DEADLOCK FALSE
