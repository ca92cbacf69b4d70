SPECIFICATION HalvesSpec
CONSTANTS
    v1 = v1  v2 = v2  u1 = u1  u2 = u2  r1 = r1  r2 = r2  r3 = r3
    Values <- MCValues
    Users <- MCUsers
    Requests <- MCRequests
    Reader = TRUE
    Blank = Blank
    Unknown = Unknown
    MaxFaults = 1
SYMMETRY MCSymmetry
INVARIANTS SettingsHold ProfileHolds
