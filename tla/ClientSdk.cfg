\* Two callers of a session; three requests of a backend.
SPECIFICATION MCSpec
CONSTANTS
    Caller = {c1, c2}
    MaxEvents = 5
    MaxCalls = 4
    Request = {r1, r2, r3}
    None = None
CHECK_DEADLOCK FALSE
INVARIANTS
    SessionInductive
    LeaseIsTracked
PROPERTIES
    ConsumersSeeCanonicalStreams
    WaitsEnd
    EverybodyEnds
