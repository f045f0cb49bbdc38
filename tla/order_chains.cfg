SPECIFICATION FairSpec
CONSTANTS
    c1 = c1
    c2 = c2
    a1 = a1
    a2 = a2
    o1 = o1
    b1 = b1
    b2 = b2
    NoOrder = NoOrder
    NoBody = NoBody
    NoScope = NoScope
    NoAuth = NoAuth
    Calls <- MCOneCall
    Accounts <- MCOneAccount
    Orders <- MCOneOrder
    Bodies <- MCTwoBodies
    Ops <- AllMethods
    TTL = 1
    DialogTime = 0
    RequestTime = 0
    MaxTime = 0
    MaxRetries = 2
    MaxQuestions = 3
    MaxDrops = 1
    CallerMutates = TRUE
    Restates = FALSE
    Resends <- BracketOnly
INVARIANTS
    RepliesHonest
    SentOnce
    ShownAsSent
PROPERTIES
    NoYesAfterNo
    EveryCallEnds
