CONSTANTS
    regular = regular
    offcycle = offcycle
    ann = ann
    loan = loan
    r1 = r1
    r2 = r2
    w1 = w1
    w2 = w2
    Employees <- MCEmployees
    Filters <- MCFilters
    Loans <- MCLoans
    Borrower <- MCBorrower
    Principal <- MCPrincipal
    Monthly <- MCMonthly
    Runs <- OneRun
    OffCycle = {}
    Requests <- OneRequest
    Workers <- MCWorkers
    MaxStalls = 1
    MaxJobs = 2
    MaxFinal = 1
    Calls = {"process", "approve", "cancel", "pay", "finalize"}
    Decisions = {"APPROVED", "DEDUCTED"}
SPECIFICATION FairSpec
CHECK_DEADLOCK FALSE
INVARIANTS
    DeductedWasWithheld
PROPERTIES
    ProcessingEnds
