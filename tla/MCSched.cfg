SPECIFICATION Spec
CONSTANTS
    MAX_PROCESSES = 3
    MaxPid = 4
    MaxSleep = 1
    RingCap = 1
INVARIANTS
    TableConsistent
    NoOrphans
    NoLostChildWakeup
    AddressSpaceLive
PROPERTY
    ZombiesOnlyReaped
