SPECIFICATION GOSpec
CONSTANTS
    Users = {u1, u2}
    Clients = {c1}
    Stoppers = {s1, s2}
    QueueSize = 2
    BatchSize = 2
    MaxUpdates = 3
    DbMayFail = TRUE
    WDClients = {c1, c2}
    WDStoppers = {s1, s2}
    WDQueueSize = 2
    WDBatchSize = 2
    SFKeys = {k1, k2}
    SFCallers = {p1, p2, p3}
    MaxCalls = 3
    PLValues <- MCValues
    PLStages = 3
    PLOrInputs = 6
    Nil = Nil
    Failed = Failed
INVARIANT PipelineResults
PROPERTIES ImplementsDepth StopReturns AcceptedEventuallyFlushed FlightsShared DoReturns PipelinesEnd
CHECK_DEADLOCK FALSE
