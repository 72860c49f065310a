SPECIFICATION Spec
CONSTANTS
    BPS = 10000
    Q96 = 1
    Account = {1, 2}
    LendingPool = 7
    Updater = {u1, u2}
    Position <- MCPosition
    One = 10
    Bonus = 500
    GasCost = 5
    MinProfit = 10
    MaxBlock = 2
    MaxWatch = 3
    MaxCalls = 2
    None = None
SYMMETRY Symmetry
INVARIANTS TypeOK RecordsGenuine OpportunityOfOneBlock
