CONSTANTS
    NULL = NULL
    NullText = NullText
    ULONG_RANGE = 64
    PRINTF_BUFMAX = 5
    Job <- MCJob
    TextOf <- MCTextOf
    Char <- MCChar
    Size <- MCSize
    MemSize = 5
    Byte = {0, 1, 2}
    SIZE_RANGE = 8
    FullCounts = FALSE
    Word = 16
SPECIFICATION LibrarySpec
INVARIANTS FormatMeetsSpec PrintedIsEmitted SnprintfBounded ReadBack ScansAgree CopiesAreRight SearchesAreRight ArithmeticIsRight
