SPECIFICATION SpecAll
CONSTANTS
    r1 = r1
    r2 = r2
    None = None
    Requests = {r1, r2}
    Payloads = {"iam", "bearer"}
    CanDecrypt = TRUE
    StartUrl <- MCStartUrl
    N = 2
    MayRegisterLate = {1, 2}
    MayRegisterAtAtx = {}
    MayThrow = {}
    ExitsOnRejection = TRUE
INVARIANTS NoneIsKept
CHECK_DEADLOCK FALSE
