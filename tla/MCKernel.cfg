CONSTANTS
    OS_MAX_TASKS = 16
    TCB <- MCTcb
    NULL = NULL
    OS_NUM_MUTEX = 1
    NUM_DEVICES = 2
    dev_freq <- TwoDevices
    ULONG_RANGE = 8
    OS_TIMER_RESOLUTION = 3
    TaskCounts = {2, 3}
    TickDispatch = "free"
SPECIFICATION Spec
INVARIANTS TypeOK OnePlace BitsOK EventsAhead NoLostWakeup HolderHasLocked
PROPERTIES NullOnlyFromIdle DispatchesMostUrgent RecordLostIffTakenUnseen ImplementsTasks
CHECK_DEADLOCK FALSE
