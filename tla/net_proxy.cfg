SPECIFICATION NPSpec
CONSTANTS
    TPMaxChunks = 1
    TPTransports <- MCTransports
    TPBalancers <- MCBalancers
    FileSystem <- MCFileSystem
    PemCerts = {"caPem", "certPem"}
    KeyPairs <- MCKeyPairs
    BadIDs = {"badId"}
    SpiffeSource = TRUE
    SystemRoots = {"sysRoot"}
    Failed = Failed
    Nil = Nil
    TMNames = {"default@internal", "a"}
    TMObjs = {o1, o2}
    TMConfigs <- MCConfigs
    DefaultName = "default@internal"
    DefaultObj = defaultObj
    NoObj = noObj
    NoRT = noRT
    HPReqs = {q1, q2}
    HPConns = {c1}
    HPInputs <- MCInputs
    HPTargets <- MCTargets
    HPPeers <- MCPeers
    NoConn = noConn
    Absent = Absent
    EPConfigs <- MCEntryPoints
    EPAddrs <- MCAddrs
    EPForged <- MCForged
    EPMaxHops = 3
    EPMaxOrphans = 1
    DurationWidth = 6
    SecondUnits = 5
    Blank = Blank
    EXFields <- MCFields
    EXOutcomes <- MCOutcomes
    EXOptions <- MCOptions
    EXScrapes = {r1, r2}
INVARIANTS CutOnlyAfterHalfClose NoConnLeft TransportsCurrent
PROPERTIES ServeTCPReturns RequestsForwarded EntryPointRight ScrapesReported
CHECK_DEADLOCK FALSE
