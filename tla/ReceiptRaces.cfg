SPECIFICATION Spec
CONSTANTS
    r1 = r1  r2 = r2  q1 = q1  q2 = q2
    Receipts <- MCOneReceipt
    Replies <- MCReplies
    None = None
    Sent <- MCSent
    Amounts <- MCAmounts
    Overlap = TRUE
    FromList = FALSE
    Stamped = TRUE
    MaxFaults = 1
    MaxCrashes = 1
SYMMETRY MCSymmetry
INVARIANTS TypeOK WithinSent QuantityWasDecided AckWasSaid
CHECK_DEADLOCK FALSE
