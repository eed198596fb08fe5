CONSTANTS
    Clients = {c1, c2}
    Peers = {k1}
    MaxLives = 2
SPECIFICATION FairSpec
INVARIANTS TypeOK CleanMeansEnded RefusedOnlyAfterKill
PROPERTIES SigtermStops CleanShutdown
CHECK_DEADLOCK FALSE
