SPECIFICATION MUSpec
CONSTANTS
    UIUses = {{"tcp"}, {"udp", "send"}, {"poll"}, {"hooks"}}
    UIItems = {1, 2}
    UICap = 1
    UIStats = {sa, sb}
    UIErrors <- MCErrors
    UIHooks = {k1}
    Timers = {t1}
    Callers = {g1}
    Modes = {"default", "nowait"}
    FireCap = 1
    MaxDelay = 2
    Repeats = {0, 1}
    Nil = Nil
    Failed = Failed
INVARIANTS TornDown PollTold
PROPERTIES LoopReturns TimerIsCalledBack RunReturns
CHECK_DEADLOCK FALSE
