\* What isBlockedAddress() says it rejects, against the code.
SPECIFICATION UploadSpec
CONSTANTS
    Char <- MCChar
    Lower <- MCLower
    Host <- MCHost
    Allowed <- MCAllowed
    Trusted <- MCTrusted
    Address <- MCAddress
    Blocked <- MCBlocked
    Internal <- MCInternal
    Multicast <- MCMulticast
    MaxRedirects = 1
    MaxBytes = 3
    MaxChunk = 2
CHECK_DEADLOCK FALSE
INVARIANTS
    DialsOutside
