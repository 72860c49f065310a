SPECIFICATION FairSpec
CONSTANTS
    Main = Main
    g1 = g1
    g2 = g2
    Goroutine <- MCGoroutine
    HasWS = TRUE
    MaxBlock = 4
    Buffer = 2
INVARIANTS TypeOK SingleLoop
PROPERTIES Delivers StaysAlive ShutsDown
