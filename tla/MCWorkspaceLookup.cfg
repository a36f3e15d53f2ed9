SPECIFICATION SpecAll
CONSTANTS
    N = 2
    Wishes <- MCWishes
    Straight <- Standalone
    Unheard <- MCUnheard
    Events <- MCEvents
    Docs = {"d1"}
    MaxVersion = 2
    MaxInFlight = 2
    Uris <- MCUris
    Files <- MCFiles
    Inside <- MCInside
    StartsWith <- MCStartsWith
INVARIANTS FolderContainsFile
