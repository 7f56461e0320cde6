SPECIFICATION Spec
CONSTANTS
    MAX_PROCESSES = 3
    MaxPid = 2
    MaxSleep = 1
    RingCap = 2
INVARIANT
    NoSleepOnData
