CONSTANTS
    Clients = {c1, c2}
    Namespaces = {default, other}
    Filters = {{}, {default}}
    Slots = 1
    Window = 1
    MaxEvents = 3
SPECIFICATION FairSpec
INVARIANTS TypeOK StreamComplete SkippedOnlyWhenFull DropsAreUnheard
PROPERTIES ClientsCatchUp TraceEndsAtEvent
CHECK_DEADLOCK FALSE
