SPECIFICATION KeypairSpec
CONSTANTS
    Half = 2
    Wallet = 0
    m1 = m1
    m2 = m2
    Message = {m1, m2}
    WordBits = 5
    ByteBits = 2
    Ratio = 4
    Counts = {1, 2}
    Generates = 2
    Digest <- MCDigest
    Entered <- MCEntered
SYMMETRY MessageSymmetry
CHECK_DEADLOCK FALSE
INVARIANTS
    TypeOK
    PositionOnce
    NextAgrees
    KeyOnceBelowHalf
    ValidAsDocumented
