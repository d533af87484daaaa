CONSTANTS
    Backend = {b1, b2}
    ReadOnly = {}
    Op = {o1, o2, o3}
    NoOp = NoOp
    r1 = r1
    r2 = r2
    Record <- MCRecord
    Intent <- MCIntent
    NoRecord = NoRecord
    Ceiling = 3
    MaxRevision = 2
    MaxRows = 2
SYMMETRY Symmetry
SPECIFICATION StoreSpec
INVARIANTS
    StoreTypeOK
    ReceiptsExplainRows
    CatalogConsistent
    TransactionsAreIsolated
PROPERTIES
    ReadersSeeOneState
    AtomicSpec
