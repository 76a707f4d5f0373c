SPECIFICATION Spec
CONSTANTS
    Key <- FullKeys
    Query <- FullQueries
    Value = {v1}
    Tombstone = Tombstone
    Absent = Absent
    Digest <- MCDigest
    Padding <- MCPadding
    NoRoot = NoRoot
    EpochCount = {1, 2}
    MaxHeight = 3
    TrieRoot <- MCTrieRoot
    FromRoots <- MCFromRoots
    CanonicalBytes <- MCCanonicalBytes
    DeltaBytes <- MCDeltaBytes
    KeyOfDelta <- MCKeyOfDelta
    KeyOfCanonical <- MCKeyOfCanonical
    StartsWith <- MCStartsWith
    CutsAddress <- MCCutsAddress
INVARIANTS
    TypeOK
    LayersKeyed
    RootsCurrent
    PrefixReadsAgree
    DeleteHides
    OracleAnswers
PROPERTIES
    CommitKeepsView
    RootsChain
    Refinement
    OracleRefinement
CHECK_DEADLOCK FALSE
