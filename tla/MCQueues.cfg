CONSTANTS
    OS_MAX_TASKS = 64
    TCB = {a, b, c, d}
    NULL = NULL
    CallerTCB = {a}
    CallerPrio <- MCCallerPrio
    MutexQueues = {m, n}
    DeviceQueues = {x}
SPECIFICATION QueuesSpec
INVARIANTS Consistent SearchFindsMostUrgent BytesImplementSets Disjoint
PROPERTIES ImplementsTable LoopsEnd ListsAreSequences
