SPECIFICATION SpecNew
CONSTANTS
    Key <- ShortKeys
    Query <- ShortQueries
    Value = {v1}
    Tombstone = Tombstone
    Absent = Absent
    Digest <- MCDigest
    Padding <- MCPadding
    NoRoot = NoRoot
    EpochCount = {1, 2}
    MaxHeight = 3
    TrieRoot <- MCTrieRoot
    FromRoots <- MCFromRoots
    CanonicalBytes <- MCCanonicalBytes
    DeltaBytes <- MCDeltaBytes
    KeyOfDelta <- MCKeyOfDelta
    KeyOfCanonical <- MCKeyOfCanonical
    StartsWith <- MCStartsWith
    CutsAddress <- MCCutsAddress
INVARIANTS
    DeleteHides
CHECK_DEADLOCK FALSE
