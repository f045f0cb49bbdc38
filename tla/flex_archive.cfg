SPECIFICATION Spec
CONSTANTS
    None = None
    Docs <- ManyDocs
    Fills <- SomeFills
    Lots <- Lot1
    MaxPolls = 2
    MaxCalls = 3
    MaxFails = 1
    MaxEdits = 1
CHECK_DEADLOCK FALSE
INVARIANT TypeOK
INVARIANT ArchiveIsImports
INVARIANT LoggedIsStored
PROPERTY FirstSeenKept
PROPERTY EveryCallEnds
