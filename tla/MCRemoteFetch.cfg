\* Two redirects among allowed and other hosts; peers and name servers may be
\* silent.
SPECIFICATION FairUploadSpec
CONSTANTS
    Char <- MCChar
    Lower <- MCLower
    Host <- MCHost
    Allowed <- MCAllowed
    Trusted <- MCTrusted
    Address <- MCAddress
    Blocked <- MCBlocked
    Internal <- MCInternal
    Multicast <- MCMulticast
    MaxRedirects = 2
    MaxBytes = 3
    MaxChunk = 2
CHECK_DEADLOCK FALSE
INVARIANTS
    DialsVetted
    ResourcesAccounted
    FiledAsFetched
PROPERTIES
    QuietAfterAbort
    EndsAndCloses
