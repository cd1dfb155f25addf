SPECIFICATION UTFairSpec
CONSTANTS
    Timers = {t1, t2}
    Callers = {g1}
    Modes = {"default"}
    FireCap = 2
    MaxDelay = 1
    Repeats = {0}
PROPERTIES TimerIsCalledBack
CHECK_DEADLOCK FALSE
