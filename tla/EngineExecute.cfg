SPECIFICATION Spec
CONSTANTS
    arb = arb
    base = base
    univ3 = univ3
    sushi = sushi
    aero = aero
    NoPool = NoPool
    Engine <- MCEngineSet
    Pool <- MCPool
    ChainOf <- MCChainOf
    PoolChain <- MCPoolChain
    PoolType <- MCPoolType
    Flaky <- MCFlakyBase
    Mode = "execute"
    MaxBlock = 2
INVARIANTS TypeOK QuoteHeld LegsOfOneBlock
PROPERTIES BackOnlyOnOlderHeader PublishesWholeBlocks
