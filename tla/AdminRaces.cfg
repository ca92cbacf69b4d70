SPECIFICATION Spec
CONSTANTS
    Idle = Idle
    Window = 1
    MaxRegens = 1
    DirectReader = FALSE
    PersistOverlaps = TRUE
    CallsFail = TRUE
    SavesFail = TRUE
    MaxCodes = 2
    MaxRestarts = 1
    MaxClock = 2
    s1 = s1
    k1 = k1
    k2 = k2
    i1 = i1
    r1 = r1
    r2 = r2

    Suppliers <- OneSupplier
    Customers <- NoCustomers
    Items <- OneItem
    Requests <- TwoRequests
    Ops <- RaceOps
INVARIANT TypeOK
INVARIANT RemovedIsBlocked
INVARIANT ErpCodeHasStood
SYMMETRY Slots
