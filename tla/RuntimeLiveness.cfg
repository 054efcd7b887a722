\* Native calls answer, failures end, and a caller repeats release() until it holds.
SPECIFICATION PersistentSpec
CONSTANTS
    Session = {s1, s2}
    Key = {k1}
    Leased = {k1}
    Request = {r1, r2}
    Id = {i1}
    MaxLoadedContexts = 1
    MaxFaults = 1
    None = None
CHECK_DEADLOCK FALSE
PROPERTIES
    EverythingSettles
    RetryReleases
