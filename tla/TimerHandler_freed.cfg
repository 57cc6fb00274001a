SPECIFICATION NoCallbackSpec
CONSTANTS
    Timers = {t1, t2, t3}
    NoTimer = NoTimer
    Timeouts = {1}
    MaxTime = 1
INVARIANTS
    FoundTimerExists
