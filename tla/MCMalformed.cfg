CONSTANTS
    Documents <- MCFaultyDocuments
    PastEnd <- MCPastEnd
    Contexts <- MCContexts
    Root = "outer"
    YYSTACKDEPTH = 30
    MallocFails = {FALSE}
    LongTexts = {"text"}
    TextFails = {FALSE, TRUE}
    ElemsMember = "elems"
    ElemSize = 1
    FieldSize = 3
SPECIFICATION Spec
INVARIANTS
    SlotsReleased
    PointersHold
    ValuesInReach
PROPERTIES
    FailureIsFinal
    UsesParser
    EndsOrWaits
