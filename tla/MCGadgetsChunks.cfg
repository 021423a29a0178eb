CONSTANTS
    WordBits = 3
    BitCounts = {0, 1, 3, 4}
    Wires = {0, 1, 2}
    MaxVector = 4
    Checked = {TRUE, FALSE}
    Words = {0, 1}
    Widths = {0, 1, 2}
    MaxRows = 3
    Byte = 3
    Bytes = 3
    Modulus = 5
    HalfBits = 4
    FR_MODULUS = 13
    FQ_MODULUS = 19
    FULL_HALF = 1
    ROUNDS_P = 2
    RC <- MCRC
    RESCUE_ROUNDS = 4
    RoundKeys <- MCRoundKeys
    Totients = {4, 6, 10, 12, 16, 30, 60}
    Inputs = {0, 1}
    MaxCalls = 4
    MaxMessage = 5
    ByteValues = {0, 1}
    Chunk = 2
    Residue <- MCResidue
    BlockBytes = 64
    LengthBytes = 8
    FieldBytes = 32
    MAX_MSG_BYTES = 2048
    Lengths <- MCLengths
    FieldCounts = {0, 1, 2, 63, 64, 65}
    Base = 4
    MAX_LIMBS = 8
    Weight <- MCWeight
    ForeignModuli = {3, 7, 13, 53}
SPECIFICATION MCSpec
INVARIANTS
    ChunksAreSeparated
