CONSTANTS
    MaxPromises = 3
    MaxDepth = 2
    Budget = 2
SPECIFICATION Spec
INVARIANTS
    TypeOK
    OneWakeup
    OutcomesArrive
    PromisesWaitSoundly
    FailuresReportedOnce
PROPERTIES
    OutcomesAreFinal
