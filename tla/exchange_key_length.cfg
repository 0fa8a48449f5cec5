SPECIFICATION Spec
CONSTANTS
    None = None
    Garbage = Garbage
    Registrars = {r1}
    r1 = r1
    Names = {"HS256"}
    Handlers = {"hmac256", "custom"}
    NotAnAlgorithm = "object"
    Defaults <- OneDefault
    Accepts <- AcceptsOfTwo
    Unsigned = {}
    InstanceOptions <- Told
    Requests <- OptionRequests
    Calls <- OptionCalls
    StrayHeaders <- NoStrays
    StrayBodies <- NoStrays
    Instants = {2}
INVARIANT
    LengthOptionCounts
CHECK_DEADLOCK FALSE
