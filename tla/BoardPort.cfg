CONSTANTS
    MaxCalls <- MCMaxCalls
    MaxRecv = 2
    MaxResync = 3
    MaxCount = 2
    Block = 3
    Lines = 5
    Ranges <- MCRanges
    Boards <- MCBoards
    Voids = {"late", "ignored", "short"}
SPECIFICATION Spec
INVARIANTS
    TypeOK
    ReadIsFresh
    RamHonest
PROPERTIES
    Implements
    EveryCallReturns
CHECK_DEADLOCK FALSE
