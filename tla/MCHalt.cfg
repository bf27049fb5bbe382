SPECIFICATION Spec
CONSTANTS
    kalshi = kalshi
    maker = maker
    hedge = hedge
    cancel = cancel
    resting = resting
    sigterm = sigterm
    wal = wal
    panic = panic
    Venues = {kalshi}
    Orders = {maker, hedge, resting}
    Halters = {sigterm, panic}
    Kind <- KindEach
    At <- AtKalshi
    Entry <- EntryEach
    Rounds = 2
    Polls = 2
    NeedEmpty = 2

CHECK_DEADLOCK FALSE
INVARIANTS
    CleanIsProof
    UnconfirmedHidesNothing
    OneOwner
    CleanExitLeavesNothing
PROPERTIES
    NoneSlipsOut
