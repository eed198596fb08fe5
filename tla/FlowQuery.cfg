CONSTANTS
    Keys = {1, 2, 3}
    Bound = 2
    FlowTimeout = 1
    PodOf <- MCPodOf
    Requests <- MCRequests
    MaxQueryLimit = 2
    MaxPackets = 5
    MaxTime = 2
SPECIFICATION QuerySpec
INVARIANTS ReplyCounts NoneMissed
CHECK_DEADLOCK FALSE
