SPECIFICATION FairSweepSpec
CONSTANTS
    Depth = 2
    Floor = 1
    Ceiling = 2
    MaxHalts = 3
INVARIANTS
    NeverStacked
    OwedUntilProven
PROPERTIES
    OfferedOnlyInForce
    HaltIsProven
