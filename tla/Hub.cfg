SPECIFICATION FairSpec
CONSTANTS
    tab = tab
    engine = engine
    Tracker = Tracker
    None = None
    Client <- MCClient
    Sender <- MCSender
    Cap = 2
    MaxBalances = 2
INVARIANTS TypeOK NoPanic NoDeadlock BalancesInOrder
PROPERTIES SendReturnsAlways BrokenIsRemoved
