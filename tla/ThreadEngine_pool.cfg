SPECIFICATION FairSpec
CONSTANTS
    HardwareConcurrency = 1
    Jobs = {j1, j2}
    NoJob = NoJob
    MaxInits = 2
INVARIANTS
    TypeOK
    LockDiscipline
    WakeAccounting
    QuitAccounting
    ListSafe
    JobConservation
    EngineInv
PROPERTIES
    ImplementsJobPool
    ShutdownEndsOrLost
    OwnerSubmitReturns
    QueuedJobsTaken
