SPECIFICATION Spec
CONSTANTS
    arb = arb
    base = base
    univ3 = univ3
    sushi = sushi
    aero = aero
    NoPool = NoPool
    Engine <- MCEngineSet
    Pool <- MCPoolsArb
    ChainOf <- MCChainOf
    PoolChain <- MCPoolChainArb
    PoolType <- MCPoolTypeArb
    Flaky <- MCNoFlaky
    Mode = "simulate"
    MaxBlock = 2
INVARIANT OwnChainOnly
