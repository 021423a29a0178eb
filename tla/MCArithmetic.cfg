CONSTANTS
    B = 4
    L = 2
    Weight <- MCWeight
    Engines <- MCEngines
    HalfBits = 3
    FR_MODULUS = 13
    FQ_MODULUS = 19
    Bits = 4
    G1_B = 3
    G2_B <- MCG2B
    G1Generator <- MCG1Generator
    G2Generator <- MCG2Generator
    Scalars <- MCScalars
    Scales = {1, 2, 18}
    G2Scales <- MCG2Scales
    Candidates <- MCCandidates
    Polynomials <- MCPolynomials
    Srs <- MCSrs
    MaxSteps = 2
SPECIFICATION Spec
INVARIANTS
    MontInv
    FieldCallsAreExact
    PointIsGroupLaw
    DecryptsToAmount
    GroupCallsAreExact
