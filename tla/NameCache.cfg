SPECIFICATION Spec
CONSTANTS
    Ids <- MCIds
    NoId = 0
    Names <- MCNames
    Null = "null"
    MapSize = 2
    Listings <- MCListings
    MaxChanges = 2
    MaxShortages = 2
INVARIANTS
    TypeOK
    SlotsAreSound
    NamesAreGiven
    OneNamePerId
PROPERTIES
    TableIsKept
