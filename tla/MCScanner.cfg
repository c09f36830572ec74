CONSTANT
    MaxLength = 16
SPECIFICATION Spec
INVARIANTS
    TypeOK
    LongestMatch
    LooksAtWhatItAskedFor
