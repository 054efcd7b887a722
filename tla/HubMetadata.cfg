\* Deaths and rejected operations at every step of reads and writes.
SPECIFICATION Spec
CONSTANTS
    Absent = Absent
    Torn = Torn
    MaxWrites = 3
    MaxFaults = 3
    MaxMisreads = 2
    MaxCrashes = 3
INVARIANTS
    MetadataInductive
    ConfirmedSurvives
CHECK_DEADLOCK FALSE
