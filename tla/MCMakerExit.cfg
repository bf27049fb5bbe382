SPECIFICATION Spec
CONSTANTS
    NLots = 2
    Open <- OpenEach
    Total = 3
    Prices = {1}
    Scenes <- EachScene
    MaxReceipts = 3
    MaxStarts = 2

CHECK_DEADLOCK FALSE
INVARIANTS
    TypeOK
    BookedExactly
    NeverBeyondOpen
    UncertainIsLatched
PROPERTIES
    KeepsPromise
