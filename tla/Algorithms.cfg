SPECIFICATION Spec
CONSTANTS
    BnU = 1
    P = 103
    Order = 97
    XiReal = 2
    CurveB = 5
    CurveX = 2
    CurveY = 42
    TwistX <- SmallTwistX
    TwistY <- SmallTwistY
    SixuPlus2NAF <- SmallNAF
    OtherNAF <- SmallOtherNAF
    MontR = 256
    rN1 = 68
    r2 = 28
    r3 = 61
    MaxScalar = 400
    Scalars = {0, 2, 3, 96, 97, 150}
    Pairs <- SmallPairs
    Encodings1 <- SmallEncodings1
    Encodings2 <- SmallEncodings2
    MaxOps = 3
CHECK_DEADLOCK FALSE
INVARIANTS MessagesExact RlpEncodes RlpDecodes ChainsExact DocumentsKept CertSignedVerifies PairingGroups PairingBilinear
