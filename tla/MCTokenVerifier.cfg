\* Two calls at a time for two tokens, one of which expires, a third with an
\* email claim, and a cache with room for one entry.
SPECIFICATION Spec
CONSTANTS
    t1 = t1
    t2 = t2
    t3 = t3
    Call = {c1, c2}
    Token = {t1, t2, t3}
    Claim <- OneClaim
    Exp <- OneExp
    MaxEntries = 1
    Grace = 2
    Timeout = 1
    MaxNow = 4
SYMMETRY Symmetry
INVARIANTS
    CacheBounded
PROPERTIES
    AdmittedOnRecentWord
    DeniedOnRecentWord
