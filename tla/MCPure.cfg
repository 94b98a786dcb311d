\* One contact, patched again and again; file names of every shape; vouchers
\* on pages of two, with a cap of two pages and up to two changes.
SPECIFICATION PureSpec
CONSTANTS
    Property <- SomeProperties
    Scalar <- SomeScalars
    Depth = 1
    Given <- SomeContacts
    Asked <- AllPatches
    Addressed <- AllAddressPatches
    MaxLength = 3
    Arriving <- AllNames
    Others <- SomeNames
    r1 = r1
    r2 = r2
    r3 = r3
    r4 = r4
    r5 = r5
    g1 = g1
    g2 = g2
    Row = {r1, r2, r3, r4, r5}
    groupOf <- MCgroupOf
    amountOf <- MCamountOf
    currencyOf <- MCcurrencyOf
    NoCurrency = NoCurrency
    SIZE = 2
    maxPages = 2
    MaxChanges = 2
CHECK_DEADLOCK FALSE
INVARIANTS
    MergesOverlay
    NamesSafe
    NamedAsOffered
    ExactIfUnchanged
    TotalsAddUp
    OffByChanges
