CONSTANTS
    BUFFER_SIZE = 10
    StreamSize = 22
    MaxNumber = 5
    Moves = {FALSE, TRUE}
    MallocFails = {FALSE}
SPECIFICATION Spec
INVARIANT AtNextByte
