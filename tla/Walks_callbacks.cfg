SPECIFICATION WalksSpec
CONSTANTS
    Listeners = {a, b}
    NoListener = NoListener
    MaxDepth = 2
    MaxLen = 3

    Timers = {t1, t2}
    NoTimer = NoTimer
    Timeouts = {0, 1}
    MaxTime = 1
\* A walk over freed memory may end the process.
CHECK_DEADLOCK FALSE
INVARIANTS
    TypeOK
    HeardAll
    MissBound
PROPERTIES
    AnnouncementsEnd
    DueIsTicked
