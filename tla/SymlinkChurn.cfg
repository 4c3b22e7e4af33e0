SPECIFICATION FairSpec
CONSTANTS
    Paths <- ChurnPaths
    First = "a"
    Inodes <- MCInodes
    NoInode = 0
    FileSystems <- ChurnFileSystems
    OptionSets <- ChurnOptionSets
    MaxChain = 3
    KernelMax = 1
    MaxChanges = 1
    Endless = TRUE
    MaxShortages = 0
PROPERTIES
    ListingEnds
