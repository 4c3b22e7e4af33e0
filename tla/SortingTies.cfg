SPECIFICATION Spec
CONSTANTS
    N = 2
    NameRanks <- MCTwoNames
    Values <- MCNoBirthTimes
    Unknown = Unknown
    Unasked = Unasked
    MaxChanges = 0
    MaxShortages = 0
INVARIANTS
    TiesAreByName
