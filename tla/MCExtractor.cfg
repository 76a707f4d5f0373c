SPECIFICATION Spec
CONSTANTS
    FirstEpoch = 1
    EpochCount = 5
    ShardEpochs = 2
    Worker = {w1, w2, w3}
    Length = {1, 2}
    TargetBytes = 3
    FileCount = 2
    BlockCount = 2
    Thread = {t1, t2}
    MaxCrashes = 1
INVARIANTS
    FilesJoin
    OkMeansComplete
    PrefixSalvaged
    ShardsComplete
    ShardsSalvaged
    ProgressAccounts
    AllOrNothing
    AscendingOrder
    OkMeansPatched
PROPERTIES
    CommandsReturn
CHECK_DEADLOCK FALSE
