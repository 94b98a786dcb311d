\* Two tickets whose lives overlap.
SPECIFICATION Spec
SYMMETRY Symmetry
CONSTANTS
    Ticket = {t1, t2}
    Request = {r1, r2}
    TTL = 2
    MaxNow = 4
    MaxDoubts = 1
INVARIANTS
    ToldExpiredIsDead
PROPERTIES
    ResultOutlivesTTL
    ImplementsUploadTicket
