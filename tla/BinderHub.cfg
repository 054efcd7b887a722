\* One client beside all others, three streams, four faults of any kind.
SPECIFICATION FairSpec
CONSTANTS
    Client = {a}
    Others = Others
    MaxStreams = 3
    MaxDeltas = 2
    MaxFaults = 4
    Fault = {"hub dies", "client dies", "revoked", "disconnect", "timeout", "idle"}
    None = None
CHECK_DEADLOCK FALSE
INVARIANTS
    BinderInductive
    SettledMeansDrained
    NoOrphanSession
PROPERTIES
    ConsumersSeeCanonicalStreams
    GateIsFreed
