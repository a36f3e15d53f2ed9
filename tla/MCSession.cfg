SPECIFICATION FairSpec
CONSTANTS
    Names = {"fsWrite"}
    Inputs = {"string", "list"}
    Schemas <- MCSchemas
    NoTool = NoTool
    MaxListed = 1
    r1 = r1
    r2 = r2
    sso = sso
    iam = iam
    sts = sts
    Requests = {r1, r2}
    Results = {sso, iam, sts}
    Of <- MCOf
    Temporary = {sts}
    None = None
    Awaiting = {r1}
    MaxParts = 1
    MaxCalls = 1
INVARIANTS
    TypeOK
    BuiltInsAreListed
    NothingInPlain
    SealedOnce
    NoPartAfterAnswer
PROPERTIES EveryRequestIsAnswered
CHECK_DEADLOCK FALSE
