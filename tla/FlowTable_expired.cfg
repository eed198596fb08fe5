CONSTANTS
    NumKeys = 2
    MaxFlows = 2
    FlowTimeout = 1
    EvictionPercent = 50
    HighWatermark = 95
    LowWatermark = 80
    UsizeModulus = 16
    MaxEvents = 3
    TrafficEnd = 1
SPECIFICATION MCSpec
INVARIANT SweepReportsExpired
