CONSTANTS
    Cpus = {c1, c2}
    RingCapacity = 3
    MaxBatch = 2
    MaxPackets = 5
SPECIFICATION FairSpec
INVARIANTS TypeOK SilentLossBounded DropsNotInvented DropsNoticed PerCpuOrder
PROPERTIES RingDrains DropsReported
