\* Two keys, room for two contexts, two native failures; three sessions and a
\* stream, or two sessions and two streams.
SPECIFICATION Spec
CONSTANTS
    Session = {s1, s2, s3}
    Key = {k1, k2}
    Leased = {k1}
    Request = {r1, r2}
    Id = {i1}
    MaxLoadedContexts = 2
    MaxFaults = 2
    None = None
SYMMETRY Symmetry
CONSTRAINT Crowd
CHECK_DEADLOCK FALSE
INVARIANTS
    NoCallOnDyingContext
    StopHitsOnlyItsOwner
    SharingIsExact
    ShutdownIsClean
    ResourcesInductive
PROPERTY
    ResourcesRespected
