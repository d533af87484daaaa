CONSTANTS
    MaxPromises = 2
    MaxDepth = 2
    Budget = 1
SPECIFICATION FairSpec
PROPERTIES AnsweredTasksRun
