CONSTANTS
    cash = cash
    sales = sales
    r1 = r1
    r2 = r2
    Journals = {1}
    Accounts <- MCAccounts
    Currencies = {"USD", "EUR"}
    Rates = {3}
    Chart <- MCChart
    AccountRows <- MCAccountRows
    Periods = {1}
    Entries <- MCEntries
    InitialStatuses = {"DRAFT", "PENDING_REVIEW", "POSTED"}
    Tolerance = 1
    Requests <- MCRequests
    MaxPostings = 2
SPECIFICATION FairSpec
INVARIANTS
    BooksBalance
    PostedIsApplied
    PostingIsSigned
    DoublePostingNeedsRace
PROPERTIES
    RequestsEnd
