CONSTANTS
    ref1 = ref1
    ref2 = ref2
    YYSTACKDEPTH = 9
    Minors = {ref1}
    NoMinor = none
SPECIFICATION FairSpec
INVARIANTS
    TypeOK
    StackIsPath
    HandleOnTop
    AssertionsHold
PROPERTIES
    CallReturns
    ImplementsGrammar
