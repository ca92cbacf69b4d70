SPECIFICATION Spec
CONSTANTS
    t1 = t1  t2 = t2  u1 = u1  u2 = u2  r1 = r1  r2 = r2
    Tokens <- MCTokens
    Users <- MCUsers
    Requests <- MCRequests
    NoSession = NoSession
    NoUser = NoUser
    NoToken = NoToken
    TTLs <- MCTTLs
    MaxClock = 3
    ReadFaults = 1
    WriteFaults = 2
SYMMETRY MCSymmetry
INVARIANTS TypeOK RightUser LogoutIsFinal
PROPERTIES NothingLost ImplementsBook
