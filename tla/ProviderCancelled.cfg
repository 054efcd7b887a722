SPECIFICATION FairSpec
CONSTANTS
    Call = {1}
    Dialect = {"chat"}
    MaxEvents = 2
    MaxLength = 1
    None = None
CHECK_DEADLOCK FALSE
INVARIANT NoInventedSuccess
