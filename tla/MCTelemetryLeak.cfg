SPECIFICATION Spec
CONSTANTS
    InitialOptOut = FALSE
    MaxChanges = 6
INVARIANT NothingCollectedAfterOptOut
CHECK_DEADLOCK FALSE
