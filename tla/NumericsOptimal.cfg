SPECIFICATION Spec
CONSTANTS
    BPS = 100
    Q96 = 16
    Job <- MCJob
    Low = 1
    High = 64
    GasCost = 2
    MinProfit = 1
    Iterations = 8
    Rounds = 200
    MaxNewton = 256
    None = None
INVARIANT OptimalOfAll
