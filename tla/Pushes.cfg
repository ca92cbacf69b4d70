SPECIFICATION FairSpec
CONSTANTS
    t1 = t1  t2 = t2  s1 = s1  c1 = c1  h1 = h1
    Tokens <- MCTokens
    Suppliers <- MCSuppliers
    Customers <- MCCustomers
    Requests <- MCRequests
    Lines <- MCLines
    Workers = 2
    MaxFaults = 2
INVARIANTS TypeOK RegistrationsHold NobodyLeftOut
PROPERTY RequestsEnd
