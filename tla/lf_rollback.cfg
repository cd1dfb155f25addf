SPECIFICATION LFSpec
CONSTANTS
    LFProcs = {"p1", "p2"}
    LFProcessOf <- MCProcessOf
    LFContents <- MCContents
    Nil = Nil
    Failed = Failed
INVARIANT FailureRollsBack
CHECK_DEADLOCK FALSE
