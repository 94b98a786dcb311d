\* Two calls and other users change one record.
SPECIFICATION Spec
CONSTANTS
    Caller = {u1, u2}
    Value <- AllValues
    Given <- SomeRecords
    Asked <- SomePatches
    MaxEdits = 2
SYMMETRY Symmetry
CHECK_DEADLOCK FALSE
INVARIANTS
    ReportsWhatItDid
    RefusedForOwnFields
PROPERTIES
    ImplementsAtomicUpdate
    HonoursLock
    OnlyNamedFieldsChange
