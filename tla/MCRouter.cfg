SPECIFICATION FairSpecCap
CONSTANTS
    N = 3
    A = A
    B = B
    NoName = NoName
    c1 = c1
    Claims <- MCClaims
    Possible <- MCPossible
    Configurers = {2, 3}
    Names = {A, B}
    Passive = {2}
    Commands = {c1}
    Updaters = {2, 3}
    MaxInitializes = 2
INVARIANTS TypeOK FollowupGoesHome AnnouncedAsClaimed UpdateSucceedsAsAWhole
PROPERTIES StableRouting ClientIsAnswered
CHECK_DEADLOCK TRUE
