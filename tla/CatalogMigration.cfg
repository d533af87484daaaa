CONSTANTS
    o1 = o1
    o2 = o2
    Operator = {o1, o2}
    r1 = r1
    r2 = r2
    Record = {r1, r2}
    Null = Null
    Absent = Absent
    Catalogs = 2
    Suffixes <- MCSuffixes
    Reserved <- MCReserved
    Names <- MCNames
    MaxPlans = 2
    MaxWrites = 1
SPECIFICATION Spec
INVARIANTS
    NothingLost
    ReportsAreTrue
    DoubtIsResolvable
    LayoutIsLoadable
SYMMETRY Symmetry
CHECK_DEADLOCK FALSE
