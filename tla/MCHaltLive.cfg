SPECIFICATION FairSpec
CONSTANTS
    kalshi = kalshi
    maker = maker
    hedge = hedge
    cancel = cancel
    resting = resting
    sigterm = sigterm
    wal = wal
    panic = panic
    Venues = {kalshi}
    Orders = {maker, hedge}
    Halters = {sigterm, wal, panic}
    Kind <- KindEach
    At <- AtKalshi
    Entry <- EntryEach
    Rounds = 1
    Polls = 2
    NeedEmpty = 2

CHECK_DEADLOCK FALSE
PROPERTIES
    HaltEnds
