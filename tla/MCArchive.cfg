SPECIFICATION Spec
CONSTANTS
    LastEpoch = 4
    GroupEpochs = 2
    MaxPacks = 2
    MaxFiles = 3
    MaxReplays = 2
INVARIANTS
    ExecutesConsecutively
    OpensWholeFilesOnly
    CleanArchiveReplays
CHECK_DEADLOCK FALSE
