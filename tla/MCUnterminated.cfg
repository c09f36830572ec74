CONSTANTS
    Documents <- UnterminatedDocuments
    PastEnd <- Leftovers
    Contexts <- MCContexts
    Root = "outer"
    YYSTACKDEPTH = 100
    MallocFails = {FALSE}
    LongTexts = {"text"}
    TextFails = {FALSE}
    ElemsMember = "rows"
    ElemSize = 1
    FieldSize = 3
SPECIFICATION Spec
INVARIANT StreamNeedsNoTerminator
