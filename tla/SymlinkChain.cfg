SPECIFICATION Spec
CONSTANTS
    Paths <- MCPaths
    First = "a"
    Inodes <- MCInodes
    NoInode = 0
    FileSystems <- MCFileSystems
    OptionSets <- MCOptionSets
    MaxChain = 3
    KernelMax = 2
    MaxChanges = 2
    Endless = FALSE
    MaxShortages = 1
INVARIANTS
    TypeOK
    ChainBounded
    FinalIsTheEnd
    RowAndExitAgree
    ArrowsReachFinal
    FinalIsKernels
    ArrowsAreTheChain
PROPERTIES
    AnswersAreKept
