CONSTANTS
    HalfBits = 3
    FR_MODULUS = 17
    FQ_MODULUS = 19
    MAX_COEFFS = 3
    MAX_TERMS = 2
    CoeffLists <- MCCoeffLists
    TermLists <- MCTermLists
    ROWS = 2
    COLS = 2
    MAX_GATES = 2
    MAX_GATE_TERMS = 2
    MAX_FACTORS = 2
    KeysGiven <- MCKeys
    CellValues = {0, 1, 5}
    Challenges = {0, 1, 2, 3, 4, 5, 6, 7, 8}
    FoldedPoints = {0, 1, 16}
    FoldedWords = {1, 16, 17, 63}
    MaxFolds = 4
    BITS = 4
    IP_ROUNDS = 2
    RangeValues = {0, 10, 15, 16}
    Blindings = {6}
    Streams <- MCStreams
    YZChallenges <- MCYZChallenges
    XChallenges = {0, 7}
    FoldChallenges = {0, 3, 14}
    Weights <- MCWeights
    MODULUS = 97
    ROOT_OF_UNITY = 28
    COSSET_OFFSET = 2
    FRI_MAX_LOG = 5
    INV2 = 49
    TraceLog = 3
    TracePolys <- MCTracePolys
    Errors = {1, 40}
    Betas = {0, 1, 81, 50}
    Zetas = {0, 1, 5, 96}
    Traces <- MCTraces
    Columns <- MCColumns
    DigestWords = 4
    MAX_COLUMNS = 8
    MAX_DEPTH = 3
    RowIndices = {0, 1, 2, 3, 6, 8}
    RevealedRows <- MCRevealedRows
    PathIndices = {0, 1, 2, 3, 4, 7, 11}
    BadSiblings <- MCBadSiblings
    AetSizes <- MCAetSizes
SPECIFICATION Spec
INVARIANTS
    ProductIsOneIffPermutation
