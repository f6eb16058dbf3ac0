CONSTANTS
    Task = {t, u}
    Calls <- MCCalls
    Results <- MCResults
    Values <- MCValues
    HandlerMasks = FALSE
    MaxFrames = 3
SPECIFICATION Spec
INVARIANT UserCodeInUserMode
