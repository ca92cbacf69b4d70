SPECIFICATION FairSpec
CONSTANTS
    r1 = r1  r2 = r2  q1 = q1  q2 = q2
    Receipts <- MCReceipts
    Replies <- MCReplies
    None = None
    Sent <- MCSent
    Amounts <- MCAmounts
    Overlap = FALSE
    FromList = TRUE
    Stamped = TRUE
    MaxFaults = 1
    MaxCrashes = 0
INVARIANTS RejectedStaysOut NoteTellsBooked NoneForgotten ListsAgree
PROPERTIES LedgerSpec DecisionTakesHold
CHECK_DEADLOCK FALSE
