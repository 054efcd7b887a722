\* The first write of a file is interrupted: the comment's promise does not hold.
SPECIFICATION Spec
CONSTANTS
    Absent = Absent
    Torn = Torn
    MaxWrites = 2
    MaxFaults = 0
    MaxMisreads = 0
    MaxCrashes = 1
INVARIANT InterruptionIsRecoverable
CHECK_DEADLOCK FALSE
