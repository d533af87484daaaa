SPECIFICATION Spec
CONSTANTS
    ExitCode = {0, 1}
    Cases = 2
    MaxWrites = 2
    File = {"output", "provenance"}
    MaxMoves = 2
INVARIANTS
    ReportIsTrue
    AcceptedIsSettled
    ReadyIsEarned
PROPERTIES
    OthersLeftAlone
    NativeRunEnds
CHECK_DEADLOCK FALSE
