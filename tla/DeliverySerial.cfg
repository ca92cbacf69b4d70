SPECIFICATION FairSpec
CONSTANTS
    i1 = i1  i2 = i2  q1 = q1  q2 = q2  c1 = c1  c2 = c2  k1 = k1
    Issues <- MCIssues
    Responses <- MCResponses
    Customers <- MCOneCustomer
    Keys <- MCKeys
    NoKey = NoKey
    NoCustomer = NoCustomer
    NoNote = NoNote
    Sent <- MCSmallSent
    Tol = 1
    DirectRead = TRUE
    IssueOverlap = FALSE
    ReplyOverlap = FALSE
    IssueFaults = 1
    ReplyFaults = 0
    MaxCrashes = 0
CHECK_DEADLOCK FALSE
INVARIANTS OneNotePerSource ConfirmedHasNoReturn DeliveryListsAgree
PROPERTIES LedgerSpec RequestsTakeEffect
