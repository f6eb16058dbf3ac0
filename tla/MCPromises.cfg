CONSTANTS
    ULONG_RANGE = 64
    NullText = NullText
    PRINTF_BUFMAX = 5
    Job <- MCSlippingJob
    TextOf <- MCSlippingTextOf
    Char <- MCSlippingChar
    Size <- MCSize
SPECIFICATION Spec
INVARIANT PrintsAsPromised
