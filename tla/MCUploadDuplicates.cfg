\* What the changelog says of duplicates, against the code.
SPECIFICATION Spec
CONSTANTS
    Ticket = {t1}
    Request = {r1}
    TTL = 2
    MaxNow = 3
    MaxDoubts = 2
INVARIANTS
    OnlyWarnedDuplicates
