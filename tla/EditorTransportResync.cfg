CONSTANTS
    Page = {p1, p2}
    MaxCalls = 3
    Limit = 3
    MaxFaults = 0
SPECIFICATION Spec
CHECK_DEADLOCK FALSE
SYMMETRY PageSymmetry
PROPERTY ResynchronizeReachesChild
