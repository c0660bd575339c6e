SPECIFICATION FairTasksSpec
CONSTANTS
    a1 = a1
    Retriers <- OneRetrier
    MaxTasks = 2
    MaxAttempts = 2
    MaxTriggers = 1
INVARIANTS
    TasksTypeOK
    OneExecutor
    RunningHasExecutor
PROPERTY
    Settled
    ProcessorStops
