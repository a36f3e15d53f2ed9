SPECIFICATION FairSpec
CONSTANTS
    r1 = r1
    r2 = r2
    r3 = r3
    Requests = {r1, r2, r3}
    None = None
    Payloads = {"iam", "bearer", "neither"}
    CanDecrypt = TRUE
    StartUrl <- MCStartUrl
INVARIANTS
    TypeOK
    BearerHasItsConnection
    OnlyAcceptedIsVisible
PROPERTIES
    AnsweredNeverReturns
    RefusalStaysInItsChannel
    ImplementsStore
    EveryUpdateIsAnswered
CHECK_DEADLOCK FALSE
