CONSTANTS
    Forms = {"auto"}
    Value = {0, 1}
    Rows = {0}
    NoValue = 0
    NoRows = 0
    MaxRevision = 3
    MaxOps = 2
SPECIFICATION Spec
INVARIANTS
    UncertainRetainsIntent
CHECK_DEADLOCK FALSE
