SPECIFICATION FairSpec
CONSTANTS
    Nodes <- MCNodes
    Root = "R"
    NoNode = "nowhere"
    Names <- MCNames
    Hidden <- MCHidden
    FileSystems <- MCFileSystems
    InitialFileSystems <- MCInitialFileSystems
    OptionSets <- MCOptionSets
    OperandLists <- MCOperandLists
    Orders <- MCOrders
    MaxTroubles = 1
INVARIANTS
    TypeOK
    NothingLeaks
    RecursionGoesDown
    SectionsAreSeparate
    TotalIsSumOfRows
    QuietListingIsComplete
    
PROPERTIES
    ListingEnds
