SPECIFICATION Spec
CONSTANTS
    None = None
    Garbage = Garbage
    Registrars = {}
    Names = {"HS256", "HS512", "none"}
    Handlers = {"hmac256", "hmac512", "custom", "none"}
    NotAnAlgorithm = "object"
    Defaults <- AllDefaults
    Accepts <- AcceptsOfAll
    Unsigned = {"none"}
    InstanceOptions <- NothingGiven
    Requests <- SignatureRequests
    Calls <- SignatureCalls
    StrayHeaders <- StrayHeaderSet
    StrayBodies <- StrayBodySet
    Instants = {0}
INVARIANTS
    TypeOK
    AcceptedIsAuthentic
    RoundTrip
CHECK_DEADLOCK FALSE
