SPECIFICATION Spec
CONSTANTS
    N = 3
    NameRanks <- MCNameRanks
    Values = {1, 2}
    Unknown = Unknown
    Unasked = Unasked
    MaxChanges = 1
    MaxShortages = 1
INVARIANTS
    TypeOK
    NoContradiction
    ShownInOrder
