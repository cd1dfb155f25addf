SPECIFICATION GRSpec
CONSTANTS
    TNStreams = {"s1", "s2"}
    TNReqs = {1, 2}
    TNPrefixOf <- MCPrefixOf
    TNPrefixes <- MCPrefixes
    TNUrls <- MCUrls
    OSIds = {"102", "103", "-1"}
    OSSample <- MCSample
    OSOrders <- MCOrders
    OSUpdates <- MCUpdates
    OSBadId = "-1"
    OSScripts <- MCScripts
    OrderBatchSize = 1
    Zero <- MCZero
    PSCalls = {c1, c2}
    PSNumbers = {n1, n2}
    Failed = Failed
    Nil = Nil
INVARIANTS TunnelCorrect ShippedOnce CallsExplained ProductsSafe
PROPERTIES ClientEnds EveryRequestAnswered
CHECK_DEADLOCK FALSE
