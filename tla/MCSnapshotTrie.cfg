SPECIFICATION SnapSpec
CONSTANTS
    Nibble = {0, 1}
    Key <- TrieKeys
    Value = {v1}
    Tombstone = Tombstone
    Absent = Absent
    Policies = {"Full", "SkipSingleton"}
    RebuildThreshold = 3
    MaxBatch = 2
INVARIANTS
    RootExact
    WalkKeepsToFrontier
    BackendsAgree
PROPERTIES
    CacheRules
CHECK_DEADLOCK FALSE
