SPECIFICATION FairSpec
CONSTANTS
    Idle = Idle
    Window = 2
    MaxRegens = 2
    DirectReader = FALSE
    PersistOverlaps = FALSE
    CallsFail = FALSE
    SavesFail = FALSE
    MaxCodes = 4
    MaxRestarts = 0
    MaxClock = 3
    s1 = s1
    k1 = k1
    k2 = k2
    i1 = i1
    r1 = r1
    r2 = r2
    Suppliers <- OneSupplier
    Customers <- OneCustomer
    Items <- OneItem
    Requests <- OneRequest
    Ops <- AllOps
INVARIANT RegensLimited
INVARIANT CodesKept
INVARIANT ItemsAgree
PROPERTY LedgerSpec
PROPERTY CodeReachesErp
