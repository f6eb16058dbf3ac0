CONSTANTS
    ULONG_RANGE = 16
    OS_TIMER_RESOLUTION = 3
    MaxMillis = 10
SPECIFICATION TimeSpec
INVARIANT SleepsAtLeast
