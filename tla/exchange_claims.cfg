SPECIFICATION Spec
CONSTANTS
    None = None
    Garbage = Garbage
    Registrars = {}
    Names = {"HS256"}
    Handlers = {"hmac256", "custom"}
    NotAnAlgorithm = "object"
    Defaults <- OneDefault
    Accepts <- AcceptsOfTwo
    Unsigned = {}
    InstanceOptions <- RequiringSub
    Requests <- ClaimRequests
    Calls <- ClaimCalls
    StrayHeaders <- NoStrays
    StrayBodies <- NoStrays
    Instants = {1, 2, 3}
INVARIANTS
    TypeOK
    AcceptedFromTheParties
    AcceptedAtOneInstant
    RefusedForAReason
PROPERTIES
    ImplementsContract
CHECK_DEADLOCK FALSE
