SPECIFICATION SpecAll
CONSTANTS
    r1 = r1
    r2 = r2
    None = None
    Requests = {r1, r2}
    Payloads = {"iam", "bearer", "both", "neither"}
    CanDecrypt = FALSE
    StartUrl <- MCStartUrl
    N = 2
    MayRegisterLate = {2}
    MayRegisterAtAtx = {1}
    MayThrow = {1}
    ExitsOnRejection = TRUE
INVARIANTS TypeOKAll NoneIsKept
CHECK_DEADLOCK FALSE
