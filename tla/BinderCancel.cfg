SPECIFICATION Spec
CONSTANTS
    Client = {a}
    Others = Others
    MaxStreams = 2
    MaxDeltas = 1
    MaxFaults = 3
    Fault = {}
    None = None
CHECK_DEADLOCK FALSE
INVARIANT HubIsNotAccused
