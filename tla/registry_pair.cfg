SPECIFICATION RegistrySpec
CONSTANTS
    Registrars = {r1, r2}
    r1 = r1
    r2 = r2
    Names = {"HS256", "AAA"}
    Handlers = {"hmac", "custom"}
    NotAnAlgorithm = "object"
    Defaults <- DefaultHandlers
INVARIANTS
    RegistryTypeOK
    HandlersAreListed
    OnlyRacesBreakUnregister
PROPERTIES
    UnregisterRemovesBoth
    NeverReplaced
