CONSTANTS
    x1 = x1
    x2 = x2
    r1 = r1
    r2 = r2
    r3 = r3
    Rows <- MCRows
    Callers <- MCCallers
    Calls = {"next", "configure"}
    NextValues = {1, 5}
    MaxNumbers = 3
SPECIFICATION SequenceSpec
CHECK_DEADLOCK FALSE
PROPERTIES
    IsConsecutive
