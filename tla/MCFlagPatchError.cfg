SPECIFICATION FlagSpec
CONSTANTS
    FileCount = 1
    BlockCount = 2
    Thread = {t1, t2}
    MaxCrashes = 1
PROPERTIES
    AlwaysReturns
CHECK_DEADLOCK FALSE
