SPECIFICATION LBSpec
CONSTANTS
    Keys = {u1, l1}
    Users = {u1}
    Logs = {l1}
    Clients = {c1, c2}
    Stoppers = {s1}
    MaxVersion = 3
    GCKeys = {k1, k2, k3}
    GCClients = {c1, c2}
    KeyLen = 1
    ValueLens = {0, 2}
    MaxBytes = 4
    GCMaxVersion = 1
    Lengths = {3, 20, 127}
    InitCapacity = 64
    MaxCapacity = 400
    MaxPushes = 7
    MaxResets = 1
    RBValues = {v1, v2}
    RBSizes = {0, 3, 5}
    RINGBUFFER_MIN = 2
    RINGBUFFER_EXP = 4
    RBMaxSize = 5
    LLValues = {v1, v2, v3}
    LLMaxNodes = 4
    GPNodes = {"n1", "n2", "n3"}
    GPKeys = {"a", "b", "c"}
    GPHash <- MCHash
    GPReplicas = 2
    GPMaxRing = 8
    GPNames <- MCNames
    GPGetter <- MCGetter
    Nil = Nil
    Failed = Failed
PROPERTIES CachesAgree LRUCorrect QueueCorrect ContainersCorrect PeersCorrect CacheLoopsEnd
CHECK_DEADLOCK FALSE
