CONSTANTS
    ref1 = ref1
    ref2 = ref2
    YYSTACKDEPTH = 6
    Minors = {ref1, ref2}
    NoMinor = none
SPECIFICATION FairSpec
INVARIANTS
    EntityIsPreviousToken
    IInv
PROPERTIES
    NoReportLost
