CONSTANTS
    Ifaces = {"eth0", "cni0", "br-1"}
    DockerBridges = {"br-1"}
    Addresses = {n1, n2}
    Loopback = Loopback
    NeedsQdisc = TRUE
    MaxChanges = 1
SPECIFICATION Spec
INVARIANT FallbackFilters
CHECK_DEADLOCK FALSE
