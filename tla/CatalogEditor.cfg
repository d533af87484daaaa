CONSTANTS
    Forms = {"auto", "draft", "product"}
    Value = {0, 1}
    Rows = {0, 1}
    NoValue = 0
    NoRows = 0
    MaxRevision = 3
    MaxOps = 2
SPECIFICATION Spec
INVARIANTS
    DoubtLosesNothing
    FormIsTruthful
PROPERTIES
    LeavesNothingOpen
    ChangedSourceStopsSave
CHECK_DEADLOCK FALSE
