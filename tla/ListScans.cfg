SPECIFICATION Spec
CONSTANTS
    d1 = d1  d2 = d2  d3 = d3  d4 = d4  d5 = d5  s1 = s1
    Docs <- MCDocs
    Scans <- MCScans
    PageSize = 2
    MaxLimit = 3
    DefaultLimit = 1
    MaxChanges = 1
    MaxDeletes = 1
SYMMETRY MCSymmetry
INVARIANTS ScanIsComplete
