\* Windows of 8 characters that overlap by 3.
SPECIFICATION SheetSpec
CONSTANTS
    CHUNK_SIZE = 8
    OVERLAP = 3
    Lengths <- MCLengths
    Sheets <- MCSheets
INVARIANTS
    WindowsCoverTheText
    EveryWindowAddsText
    EveryBlockHasItsPlace
CHECK_DEADLOCK FALSE
