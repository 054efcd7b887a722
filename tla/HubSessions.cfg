SPECIFICATION Spec
CONSTANTS
    Manifest <- MCManifest
    Device <- MCDevice
    Context = {2048, 16384}
    Caller = {c1, c2}
    Intent <- MCIntent
    Config <- MCConfig
    Stored <- MCStored
    MaxFailures = 2
    MaxChanges = 2
    None = None
CHECK_DEADLOCK FALSE
INVARIANTS
    HubInductive
    GatesAgree
    ServesWhatWasAsked
PROPERTIES
    OnlyHydrationParts
    NoBlindRepeat
SYMMETRY Symmetry
