SPECIFICATION Spec
CONSTANTS
    i1 = i1  i2 = i2  q1 = q1  q2 = q2  c1 = c1  c2 = c2  k1 = k1
    Issues <- MCIssues
    Responses <- MCResponses
    Customers <- MCOneCustomer
    Keys <- MCKeys
    NoKey = NoKey
    NoCustomer = NoCustomer
    NoNote = NoNote
    Sent <- MCSent
    Tol = 1
    DirectRead = TRUE
    IssueOverlap = TRUE
    ReplyOverlap = TRUE
    IssueFaults = 1
    ReplyFaults = 1
    MaxCrashes = 1
SYMMETRY MCSymmetry
INVARIANTS TypeOK SubmittedNoteIsMarked ReturnsAgree FailedIssueLeavesNothing
PROPERTY AnswerNeverWithdrawn
CHECK_DEADLOCK FALSE
