SPECIFICATION Spec
CONSTANTS
    Calls <- MCCalls
INVARIANTS
    TypeOK
    EachPrintedOnce
    LinesFitTheScreen
    PageReadsInOrder
    NoLineIsWasted
