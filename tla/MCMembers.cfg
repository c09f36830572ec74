CONSTANTS
    RuleLists <- MCRuleLists
    Names <- MCNames
    HashSize = 16777216
    Declared <- MCDeclared
    Texts <- MCTexts
    YAJP_BUFFER_SIZE = 32
    SHRT_MAX = 1
    INT_MAX = 3
    LONG_MAX = 7
    LLONG_MAX = 15
    FLT_EXP = 1
    DBL_EXP = 2
    LDBL_EXP = 3
SPECIFICATION MemberSpec
INVARIANTS
    TypeOK
    NothingLost
    StoredExactly
    OverflowsNamed
PROPERTIES
    ImplementsRuleMap
CHECK_DEADLOCK FALSE
