CONSTANTS
    Pods = {p1, p2}
    Ips = {a, b}
    NoIp = NoIp
    Outside = Outside
    NumCgroups = 2
    MaxEntries = 2
    BackoffMin = 1
    BackoffMax = 3
    MaxFaults = 1
SYMMETRY Symmetry
SPECIFICATION AttrSpec
INVARIANTS AttributionStable AttributionHonest
CHECK_DEADLOCK FALSE
