SPECIFICATION FairSpec
CONSTANTS
    k1 = k1
    k2 = k2
    NoKid = NoKid
    Kids = {k1, k2}
    Threads = {t1}
    Docs <- UnfitDocs
    CacheJwkSet = TRUE
    CacheKeys = TRUE
    MaxCachedKeys = 1
    MaxPublished = 2
    Lifespan = 2
INVARIANTS
    TypeOK
    Provenance
PROPERTIES
    ServedWithinLifespan
    EveryCallReturns
    UnfitAnswersEnd
