CONSTANTS
    b1 = b1
    b2 = b2
    o1 = o1
    o2 = o2
    Backend = {b1, b2}
    ReadOnly = {}
    Object = {o1, o2}
    Home <- MCHome
    Op = {1, 2, 3}
    NoOp = 0
    Record = {r1}
    NoRecord = NoRecord
    Codes = {0}
    Refs = {NoRecord, r1}
    Intent <- MCIntent
    Ceiling = 3
    MaxRevision = 2
    MaxRows = 1
    MaxFaults = 1
SPECIFICATION FairSpec
INVARIANTS
    ObjectTypeOK
    OutcomesAreTruthful
PROPERTIES
    DoubtEnds
CHECK_DEADLOCK FALSE
