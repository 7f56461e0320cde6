SPECIFICATION InputSpec
CONSTANTS
    TTY_BUF_SIZE = 3
    MaxCount = 2
    MaxBytes = 2
    EV_BUFFER_SIZE = 6
    KeyEvents = {k1, k2}
    MAX_PROCESSES = 3
    MaxPid = 3
    MaxSleep = 1
    RingCap = 1
INVARIANTS
    NoSleepOnInput
    LineAtATime
    ModifiersReleased
    OneKeyLost
    ReportsBetweenKeys
    
    GsFollowsRing
PROPERTIES
    CommitsWholeLines
    QueueSpec
    LogSpec
