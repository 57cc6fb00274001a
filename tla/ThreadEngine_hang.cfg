SPECIFICATION FairSpec
CONSTANTS
    HardwareConcurrency = 1
    Jobs = {j1}
    NoJob = NoJob
    MaxInits = 1
PROPERTIES
    ShutdownEnds
