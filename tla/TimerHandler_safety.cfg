SPECIFICATION Spec
CONSTANTS
    Timers = {t1, t2, t3}
    NoTimer = NoTimer
    Timeouts = {0, 1}
    MaxTime = 2
SYMMETRY TimerSymmetry
\* A walk over freed memory may end the process.
CHECK_DEADLOCK FALSE
INVARIANTS
    TypeOK
    ListExact
    UseAfterFreeCause
    SkipBound
PROPERTIES
    TickedOnce
