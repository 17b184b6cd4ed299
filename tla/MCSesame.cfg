CONSTANTS
    Node <- MCNode
    Recipients <- MCRecipients
    MAX_USERS = 2
    MAX_DEVICES_PER_USER = 2
    MAX_SESSIONS_PER_DEVICE = 2
    MAX_INITIATING_SESSIONS = 1
    MAX_LATENCY_SECS = 10
    MAX_RESEND_ATTEMPTS = 2
    MaxSkip = 4
    U32Max = 20
    MaxSends <- MCMaxSends
    MaxFailed = 1
    MaxClock = 1
SPECIFICATION Spec
INVARIANTS
    CopiesBounded
    DeliveredOnce
    UnknownIdNeedsClash
PROPERTIES
    LostOnlyOnError
