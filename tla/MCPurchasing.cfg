CONSTANTS
    o1 = o1
    b1 = b1
    r1 = r1
    r2 = r2
    Orders <- MCOrders
    Bills <- MCBills
    Ordered = {1, 2}
    Stated = {0, 1}
    Quantities = {1}
    Requests <- MCRequests
    MaxCalls = 4
SPECIFICATION Spec
SYMMETRY Symmetry
CHECK_DEADLOCK FALSE
INVARIANTS
    StockIsDocumented
    OrderAgrees
    SubmittedIsBooked
