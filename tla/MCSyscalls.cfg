CONSTANTS
    Word = 24
    ROM_END = 1
    SDRAM_BEGIN = 6
    SDRAM_END = 15
    heapbtm = 6
    currentsp = 9
    freebtm = 11
    freetop = 12
    buffersize = 6
    Visible = {a, b}
    Buffers <- MCBuffers
    ULONG_RANGE = 16
    OS_TIMER_RESOLUTION = 3
    MaxMillis = 10
SPECIFICATION SyscallsSpec
SYMMETRY MCSymmetry
INVARIANTS TypeOK EchoShowsLine EarlyOnlyIfSumWraps LateOnlyIfUnpolled
PROPERTIES ReadStaysInBuffer ReadIsWritten ImplementsEditor
