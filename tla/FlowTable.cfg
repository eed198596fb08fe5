CONSTANTS
    NumKeys = 3
    MaxFlows = 2
    FlowTimeout = 1
    EvictionPercent = 50
    HighWatermark = 95
    LowWatermark = 80
    UsizeModulus = 16
    MaxEvents = 4
    TrafficEnd = 1
SPECIFICATION MCFairSpec
INVARIANTS TypeOK TableBounded PacketsConserved IInv
PROPERTIES ImplementsLedger DrainsWhenQuiet
