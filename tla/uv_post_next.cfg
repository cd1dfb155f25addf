SPECIFICATION MUSpec
CONSTANTS
    UIUses = {{"hooks"}}
    UIItems = {1, 2}
    UICap = 1
    UIStats = {sa, sb}
    UIErrors <- MCErrors
    UIHooks = {k1}
    Timers = {t1}
    Callers = {g1}
    Modes = {"default", "nowait"}
    FireCap = 1
    MaxDelay = 2
    Repeats = {0, 1}
    Nil = Nil
    Failed = Failed
PROPERTY PostIsForNextIteration
CHECK_DEADLOCK FALSE
