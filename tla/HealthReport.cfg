CONSTANTS
    FailureThreshold = 3
    MaxCount = 1
    MaxStores = 2
SPECIFICATION FairSpec
INVARIANTS ReportWasTrue NeverBareOK SeverityWasTrue
PROPERTY SaturationEnds
CHECK_DEADLOCK FALSE
