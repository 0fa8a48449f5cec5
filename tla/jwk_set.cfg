SPECIFICATION Spec
CONSTANTS
    Singles <- AllSingles
    Arguments = {"", "HS256", "ES256"}
    Lists <- AllLists
INVARIANTS
    TypeOK
    FamilyMatches
    InferredAlgorithmFits
    KeepsTheUsable
    CryptographyIsMissed
CHECK_DEADLOCK FALSE
