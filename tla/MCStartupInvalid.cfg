SPECIFICATION FairSpec
CONSTANTS
    DetailBytes = 2
    MessageBytes = 1
PROPERTIES
    InvalidDetailsExit
CHECK_DEADLOCK FALSE
