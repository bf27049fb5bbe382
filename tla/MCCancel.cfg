SPECIFICATION Spec
SYMMETRY OrderSymmetry
CONSTANTS
    Depth = 1
    Floor = 1
    Ceiling = 1
    MaxHalts = 1
    Orders = {o1, o2}
    MaxRefusals = 2
    MaxSends = 2
    o1 = o1
    o2 = o2
INVARIANTS
    TypeOK
    NoneForgotten
    NewestIsAnswered
    HaltedOwesEveryQuote
