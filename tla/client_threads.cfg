SPECIFICATION Spec
CONSTANTS
    k1 = k1
    k2 = k2
    NoKid = NoKid
    Kids = {k1, k2}
    Threads = {t1, t2}
    Docs <- RotatingDocs
    CacheJwkSet = TRUE
    CacheKeys = FALSE
    MaxCachedKeys = 1
    MaxPublished = 2
    Lifespan = 1
PROPERTIES
    ImplementsDirectory
INVARIANTS
    NotFoundIsCurrent
    FetchedIsCurrent
    FetchBudget
    ErrorsBlameTheEndpoint
SYMMETRY RotatingSymmetry
