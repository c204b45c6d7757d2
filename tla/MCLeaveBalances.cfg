CONSTANTS
    annual = annual
    comp = comp
    b1 = b1
    b2 = b2
    b3 = b3
    l1 = l1
    l2 = l2
    r1 = r1
    r2 = r2
    Accounts <- MCAccounts
    Comp <- MCComp
    Quota <- MCQuota
    Balances <- MCBalances
    Leaves <- MCLeaves
    Days = {1}
    Decisions = {"APPROVED_BY_MANAGER", "APPROVED", "REJECTED"}
    Requests <- MCRequests
    MaxYear = 2
    MaxCalls = 4
SPECIFICATION Spec
SYMMETRY Symmetry
CHECK_DEADLOCK FALSE
INVARIANTS
    TypeOK
    ApprovedIsDeducted
    ChangesAreKept
    OneBalancePerYear
