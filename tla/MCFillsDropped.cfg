SPECIFICATION Spec
CONSTANTS
    a = a
    b = b
    Trades = 3
    Orders = {a, b}
    OrderOf <- OrderEach
    Count <- CountEach
    Unit = 2
    MaxGaps = 3
    Lagging = {}
    Unreadable = {}
    Faults = {}

CHECK_DEADLOCK FALSE
INVARIANTS
    DroppedRequestIsFree
