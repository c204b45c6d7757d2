CONSTANTS
    t1 = t1
    t2 = t2
    t3 = t3
    l1 = l1
    l2 = l2
    l3 = l3
    e1 = e1
    e2 = e2
    r1 = r1
    r2 = r2
    Transactions <- MCTransactions
    Lines <- MCLines
    Entries <- MCEntries
    EntryOf <- MCEntryOf
    Fits <- MCFits
    Matchers <- MCMatchers
    MaxStarted = 4
SPECIFICATION BankSpec
SYMMETRY MatcherSymmetry
CHECK_DEADLOCK FALSE
INVARIANTS
    BankTypeOK
    OwnLine
    
