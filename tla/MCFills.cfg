SPECIFICATION Spec
CONSTANTS
    a = a
    b = b
    Trades = 3
    Orders = {a, b}
    OrderOf <- OrderEach
    Count <- CountEach
    Unit = 2
    MaxGaps = 3
    Lagging = {3}
    Unreadable = {1}
    Faults = {"boot", "window", "foreign", "reads"}

CHECK_DEADLOCK FALSE
INVARIANTS
    TypeOK
    CountedOnce
    TotalsAreSums
    NeverPastVenue
    LossIsAccounted
    BankedIsTold
PROPERTIES
    FrameShutsOutRows
