SPECIFICATION ManagerSpec
CONSTANTS
    Key <- PairKeys
    Query <- PairQueries
    Value = {v1}
    Tombstone = Tombstone
    Absent = Absent
    Digest <- MCDigest
    Padding <- MCPadding
    NoRoot = NoRoot
    EpochCount = {1, 2}
    MaxHeight = 3
    NoState = NoState
    Torn = Torn
    MaxCrashes = 1
    TrieRoot <- MCTrieRoot
    FromRoots <- MCFromRoots
    CanonicalBytes <- MCCanonicalBytes
    DeltaBytes <- MCDeltaBytes
    KeyOfDelta <- MCKeyOfDelta
    KeyOfCanonical <- MCKeyOfCanonical
    StartsWith <- MCStartsWith
    CutsAddress <- MCCutsAddress
INVARIANTS
    FileCoherent
    AckedIsDurable
PROPERTIES
    DurableRefinement
CHECK_DEADLOCK FALSE
