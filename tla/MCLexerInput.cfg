CONSTANTS
    BUFFER_SIZE = 10
    StreamSize = 22
    MaxNumber = 5
    Moves = {TRUE}
    MallocFails = {FALSE}
SPECIFICATION Spec
INVARIANTS
    TypeOK
    AtNextByte
    LexemeIntact
PROPERTIES
    GrowsForOneLexeme
    ReachesEnd
