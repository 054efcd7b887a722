\* Two callers, two artifacts, failures, a process death and a damaged file.
SPECIFICATION FairSpec
CONSTANTS
    Model = {m1}
    File = {f1, f2}
    Licensed = {m1}
    Call = {c1, c2}
    MaxFaults = 2
    MaxCrashes = 1
    MaxTampers = 1
    None = None
CHECK_DEADLOCK FALSE
INVARIANTS
    DiskIsHonest
    LeasesProtect
PROPERTIES
    CatalogRespected
    CallsAnswered
    InstallRecovers
