CONSTANTS
    Page = {p1, p2}
    MaxCalls = 2
    Limit = 2
    MaxFaults = 1
SPECIFICATION FairSpec
CHECK_DEADLOCK FALSE
INVARIANTS
    EndsInOrder
PROPERTIES
    ExchangesEnd
    ServerStops
