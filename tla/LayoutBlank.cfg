SPECIFICATION Spec
CONSTANTS
    Listings <- MCBlankListings
    NoName <- MCNoName
    ScreenWidths = {80}
INVARIANTS
    ColumnIsAsWideAsTheWidest
