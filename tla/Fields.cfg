SPECIFICATION RowSpec
CONSTANTS
    Invocations <- MCInvocations
    NoTerminal = NoTerminal
    IntMax <- MCIntMax
    MaxTime <- MCMaxTime
    Files <- MCFiles
INVARIANTS
    MeansWhatWasGiven
    ReadyToList
    DateTellsTheTime
    SizesAreClose
    EveryFileGetsARow
