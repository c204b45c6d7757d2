CONSTANTS
    b1 = b1
    b2 = b2
    x1 = x1
    x2 = x2
    r1 = r1
    r2 = r2
    Bills <- OneBill
    Batches <- OneBatch
    Total <- MCTotal
    Amounts = {1}
    Created = {"DRAFT"}
    Statuses = {"APPROVED", "VOID"}
    Requests <- TwoRequests
    Calls = {"status", "pay", "batch", "export", "finalize"}
    MaxPayments = 3
    MaxFinal = 2
SPECIFICATION Spec
SYMMETRY RequestSymmetry
CHECK_DEADLOCK FALSE
INVARIANTS
    MissingIsBatched
    PaidNotInvented
    PayableIsExpensed
    PaidTwiceNeedsExport
