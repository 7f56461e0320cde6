SPECIFICATION CpuSpec
CONSTANTS
    MAX_PROCESSES = 3
    MaxPid = 2
    MaxSleep = 0
    RingCap = 1
INVARIANT
    SyscallsOnOwnStack
CHECK_DEADLOCK FALSE
