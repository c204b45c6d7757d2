CONSTANTS
    regular = regular
    offcycle = offcycle
    ann = ann
    loan = loan
    r1 = r1
    r2 = r2
    w1 = w1
    w2 = w2
    Employees <- MCEmployees
    Filters <- MCFilters
    Loans <- MCLoans
    Borrower <- MCBorrower
    Principal <- MCPrincipal
    Monthly <- MCMonthly
    Runs <- OneRun
    OffCycle = {}
    Requests <- MCRequests
    Workers <- OneWorker
    MaxStalls = 1
    MaxJobs = 2
    MaxFinal = 2
    Calls = {"process", "approve", "cancel", "pay", "finalize"}
    Decisions = {}
SPECIFICATION Spec
SYMMETRY RequestSymmetry
CHECK_DEADLOCK FALSE
INVARIANTS
    RepaymentsWereApproved
    BalanceIsRepayments
    RepaymentStops
    FinalizedTwiceNeedsRace
    ProcessedIsJournalled
