CONSTANTS
    main = main
    shop = shop
    shelf = shelf
    bin = bin
    counter = counter
    r1 = r1
    r2 = r2
    Warehouses <- MCWarehouses
    Places <- MCPlaces
    WarehouseOf <- MCWarehouseOf
    Batches = {1, 2}
    Opening <- MCOpening
    Valuation = "FEFO"
    Expiry <- LaterExpires
    AllowNegative = FALSE
    Quantities = {1, 2}
    Calls = {"receive", "issue", "transfer", "adjust"}
    Requests <- MCRequests
    MaxCalls = 2
SPECIFICATION Spec
CHECK_DEADLOCK FALSE
SYMMETRY RequestSymmetry
INVARIANTS
    NeverNegative
    BatchLockProtects
    RemainingIsMoved
PROPERTIES
    ConsumesInOrder
