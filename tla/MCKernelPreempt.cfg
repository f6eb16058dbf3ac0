CONSTANTS
    OS_MAX_TASKS = 16
    TCB <- MCTcb
    NULL = NULL
    OS_NUM_MUTEX = 1
    NUM_DEVICES = 1
    dev_freq <- OneDevice
    ULONG_RANGE = 8
    OS_TIMER_RESOLUTION = 3
    TaskCounts = {3}
    TickDispatch = "preempt"
SPECIFICATION FairSpec
PROPERTIES TickRunsMostUrgent DeviceWaitersWake MostUrgentTaskRuns
