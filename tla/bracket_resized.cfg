SPECIFICATION Spec
CONSTANTS
    None = None
    Parents <- MCParents
    Kids <- MCKids
    More <- MCMore
    MaxLots = 2
    MaxModifies = 2
    Restated = FALSE
CHECK_DEADLOCK FALSE
PROPERTY NeverBeyondFill
