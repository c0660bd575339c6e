SPECIFICATION TasksSpec
CONSTANTS
    a1 = a1
    Retriers <- OneRetrier
    MaxTasks = 2
    MaxAttempts = 2
    MaxTriggers = 1
INVARIANT
    NoStrandedTask
