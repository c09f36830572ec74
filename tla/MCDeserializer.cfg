CONSTANTS
    Documents <- MCDocuments
    PastEnd = {}
    Contexts <- MCContexts
    Root = "outer"
    YYSTACKDEPTH = 30
    MallocFails = {FALSE, TRUE}
    LongTexts = {"text"}
    TextFails = {FALSE}
    ElemsMember = "rows"
    ElemSize = 1
    FieldSize = 3
SPECIFICATION Spec
INVARIANTS
    TypeOK
    Defined
    SlotsReleased
    PointersHold
    NoneLost
    InStep
    FieldsRepresented
PROPERTIES
    FailureIsFinal
    KeepsPromise
    UsesParser
    Ends
