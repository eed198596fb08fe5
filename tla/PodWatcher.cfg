CONSTANTS
    Pods = {p1, p2}
    Ips = {a, b}
    NoIp = NoIp
    NumCgroups = 2
    MaxEntries = 1
    BackoffMin = 1
    BackoffMax = 2
    MaxFaults = 2
SPECIFICATION FairSpec
INVARIANTS TypeOK ByIpBounded RunningPodsResolve GhostsNeedFaults
PROPERTIES CatchesUp CancelStops
CHECK_DEADLOCK FALSE
