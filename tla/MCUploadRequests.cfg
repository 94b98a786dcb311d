\* Three requests race for one ticket, under the fairness of FairSpec.
SPECIFICATION FairSpec
CONSTANTS
    Ticket = {t1}
    Request = {r1, r2, r3}
    TTL = 2
    MaxNow = 5
    MaxDoubts = 3
INVARIANTS
    ClaimExclusive
    SlotExclusive
    FilesAccounted
PROPERTIES
    ClaimIsReturned
