SPECIFICATION Spec
CONSTANTS
    Token = {"a", "b", "c", "d"}
    Pool <- MCPool
    T0 <- MCT0
    T1 <- MCT1
    ConfigHops = 4
    MaxLive = 4
INVARIANTS TypeOK PoolOnce PricedOnce Complete
