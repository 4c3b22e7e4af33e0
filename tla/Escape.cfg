SPECIFICATION Spec
CONSTANTS
    Chars <- MCChars
    Jobs <- MCJobs
    InitialSize = 2
    SmallSize = 4
    MaxShortages = 1
INVARIANTS
    StaysInside
    ShownSafely
    EscapingCanBeUndone
