SPECIFICATION SweepSpec
CONSTANTS
    Depth = 8
    Floor = 1
    Ceiling = 2
    MaxHalts = 3
INVARIANT GaugeIsEarlyNotWrong
