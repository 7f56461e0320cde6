SPECIFICATION SmpSpec
CONSTANTS
    Cpus = {c1, c2}
    Aps = {c1, c2}
    MaxTasks = 3
    SleepIsEnough = TRUE
    LOG_QUEUE_SIZE = 2
    MaxMsgs = 5
INVARIANTS
    TasksRunOnce
    PrintedInOrder
PROPERTIES
    EveryTaskRuns
    EveryMessagePrinted
CHECK_DEADLOCK FALSE
