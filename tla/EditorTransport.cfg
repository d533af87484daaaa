CONSTANTS
    Page = {p1, p2}
    MaxCalls = 4
    Limit = 4
    MaxFaults = 0
SPECIFICATION Spec
CHECK_DEADLOCK FALSE
SYMMETRY PageSymmetry
INVARIANTS
    TransportTypeOK
    ExchangesMatch
    SessionInStep
