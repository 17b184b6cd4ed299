CONSTANTS
    PtLen = {100, 5000}
    Buffer = {0, 64, 128, 4096, 14000}
    Count = {0, 1}
    U64Max = 3
    MaxCreated = 3
    MaxMade = 1
    MaxSealed = 2

SPECIFICATION Spec
CHECK_DEADLOCK FALSE
INVARIANTS
    HandleNamesOneEngine
    LostOnlyOversize
    SentIsReturned
    FingerprintsAgree
