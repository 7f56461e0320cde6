SPECIFICATION MutexSpec
CONSTANT Threads = {t1, t2}
INVARIANTS StateSaysLocked
CHECK_DEADLOCK FALSE
