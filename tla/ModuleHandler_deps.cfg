SPECIFICATION FairSpec
CONSTANTS
    NumNames = 3
    MaxDepth = 5
\* Freed memory or an exhausted stack may end the process.
CHECK_DEADLOCK FALSE
INVARIANTS
    TypeOK
    DependenciesHeld
    UndefinedNeedsChain
    DeepOnlyOnCycle
PROPERTIES
    PermanentLeaves
    UnloadAllEnds
