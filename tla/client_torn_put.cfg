SPECIFICATION Spec
CONSTANTS
    k1 = k1
    k2 = k2
    NoKid = NoKid
    Kids = {k1}
    Threads = {t1, t2}
    Docs <- SteadyDocs
    CacheJwkSet = TRUE
    CacheKeys = FALSE
    MaxCachedKeys = 1
    MaxPublished = 1
    Lifespan = 1
PROPERTIES
    ServedWithinLifespan
