INIT Init
NEXT Next
CONSTANTS
    N = 2
    MaxProcs = 4
    Tasks = {a, b, c}
    Pair = {a, b}
    One = {a}
    MinWorkers = 1
    MaxWorkers = 3
    Configurations <- MCConfigurations
INVARIANT
    SlotsReplaced
