SPECIFICATION PacketSpec
CONSTANTS
    Databases <- MCDatabases
    FirstEpoch = 1
    LastEpoch = 4
    GroupEpochs = {1, 2, 3}
    PosEnable = 2
    ToolPosEnable = 2
    EspaceRatio = 2
    PrefixSizes <- MCPrefixSizes
    JsonRewards = {5}
    MaxInjections = 2
    None = None
INVARIANTS
    ReplayAccepts
CHECK_DEADLOCK FALSE
