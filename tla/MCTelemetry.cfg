SPECIFICATION FairSpecLife
CONSTANTS
    InitialOptOut = FALSE
    MaxChanges = 3
    Wishes = {"debug", "error", "nonsense"}
INVARIANTS TypeOKLife EventsStopAtOptOut ApartShutdownsStopAll CrashIsReported
PROPERTIES ExitWaitsForFlush SettingsAreFollowed CrashExits
CHECK_DEADLOCK FALSE
