SPECIFICATION Spec
CONSTANTS
    MaxDepth = 5
    N = 3
    Base = 3
    Word = 16
    Keys <- MCKeys
CHECK_DEADLOCK FALSE
INVARIANTS
    OnlySignedDigest
    RootAsDocumented
    StackFits
