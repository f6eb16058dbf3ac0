CONSTANTS
    Task = {t, u}
    Calls <- MCCalls
    Results <- MCResults
    Values <- MCValues
    HandlerMasks = TRUE
    MaxFrames = 3
SPECIFICATION Spec
SYMMETRY MCSymmetry
INVARIANTS RegistersComeBack UserCodeInUserMode KernelStacksBalanced
PROPERTIES WrapperReports ErrnoOnlyFromFailures
