SPECIFICATION Spec
CONSTANTS
    aws = aws
    azure = azure
    tor = tor
    Cloud <- MCCloud
    Reputation <- MCReputation
    IPtoASN = iptoasn
    Unified = all_providers
    Native <- MCNative
    HasDirect <- MCHasDirect
    Pinned <- MCPinned
    Selections <- MCSelections
    Attempts = 2
    MaxLen = 2
CHECK_DEADLOCK FALSE
INVARIANTS
    TruncatedContributesNothing
