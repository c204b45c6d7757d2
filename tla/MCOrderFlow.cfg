CONSTANTS
    q1 = q1
    q2 = q2
    o1 = o1
    o2 = o2
    d1 = d1
    d2 = d2
    r1 = r1
    r2 = r2
    Quotes <- MCQuotes
    Orders <- MCOrders
    Deliveries <- MCDeliveries
    Ordered = 2
    Quantities = {1}
    Created = {"DRAFT"}
    Requests <- MCRequests
    Calls = {"send", "resend", "convert", "confirm", "deliver", "ship", "invoice"}
    MaxCalls = 8
SPECIFICATION Spec
SYMMETRY Symmetry
CHECK_DEADLOCK FALSE
INVARIANTS
    InvoicedIsDocumented
    HalfInvoicedStays
    IssuedIsDelivered
    ShippedTwiceNeedsFailure
    OneOrderPerQuotation
