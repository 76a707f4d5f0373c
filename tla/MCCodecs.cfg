SPECIFICATION Spec
CONSTANTS
    ACCOUNT_BYTES = 2
    AddressByte = {"x", "y"}
    SuffixBytes = 2
    Address <- Addresses
    Pad = {1, 2, 3}
    GenesisPad = 1
    Uncached <- NewAccountKey
    ByteBits = 4
    WordBits = 7
    Qc8Bytes = 1
    Qc5eBytes = 2
    GasLimits <- MCGasLimits
    CorePrice = 2
    EspacePrice = 9
INVARIANTS
    RoundTrips
    NoCollisions
    PrefixesAlign
    NumbersRoundTrip
    CachedKeysExact
