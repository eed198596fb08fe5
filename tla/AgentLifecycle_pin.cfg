CONSTANTS
    Clients = {c1, c2}
    Peers = {k1}
    MaxLives = 2
SPECIFICATION FairSpec
INVARIANT DropCounterSurfaced
CHECK_DEADLOCK FALSE
