SPECIFICATION MCSpec
CONSTANTS
    rel = rel
    bid = bid
    Rels = {rel}
    Slots = {bid}
    RelOf <- RelEach
    DirOf <- DirEach
    Book <- BookEach
    Clip = 2
    MaxOrders = 2
    MaxFills = 2
    MaxCloses = 2
    MaxStrays = 1

CHECK_DEADLOCK FALSE
INVARIANTS
    TypeOK
    ReservationIsTheQuote
    HedgeCashCounted
    ExposureIsTheBook
    NettingHidesNothing
