SPECIFICATION Spec
CONSTANTS
    Listings <- MCListings
    NoName <- MCNoName
    ScreenWidths = {1, 7, 9, 11}
INVARIANTS
    StringsAreEven
PROPERTIES
    DisplayIsUsedProperly
