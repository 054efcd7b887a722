SPECIFICATION FairSpec
CONSTANTS
    Call = {1, 2}
    Dialect = {"responses", "chat with usage", "messages"}
    MaxEvents = 4
    MaxLength = 2
    None = None
CHECK_DEADLOCK FALSE
INVARIANTS
    AcceptedIsServable
    WireIsWellFormed
    FinishedWireIsTheAnswer
    OverMeansReleased
PROPERTIES
    AbortSilences
    AbortReleases
