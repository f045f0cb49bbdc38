SPECIFICATION Spec
CONSTANTS
    None = None
    Docs <- HoledDocs
    Fills <- SomeFills
    Lots <- Lot1
    MaxPolls = 2
    MaxCalls = 4
    MaxFails = 1
    MaxEdits = 1
CHECK_DEADLOCK FALSE
INVARIANT VerifiedMeansPresent
