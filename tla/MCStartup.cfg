SPECIFICATION FairSpecAll
CONSTANTS
    DetailBytes = 2
    MessageBytes = 2
    Clients = {c1, c2}
    Machines <- MCMachines
    Settings <- MCSettings
    Malformed = {"a b"}
    Defaults = {"node"}
    Holds <- MCHolds
    Listing <- MCListing
    UnixFiles = {"a.crt"}
    Keychains = {"roots", "user"}
    Fragile <- MCFragile
    Perishable = {"old"}
    MaxChanges = 1
INVARIANTS
    TypeOKAll
    StreamSplitAtNewline
    StartsAndEndsForAReason
    ExplicitProxyHonoured
    OneAgentAsReported
PROPERTIES
    StartupDecides
    MessagesReachConnection
    SourcesFailAlone
CHECK_DEADLOCK FALSE
