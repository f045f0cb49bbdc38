SPECIFICATION Spec
CONSTANTS
    c1 = c1
    c2 = c2
    a1 = a1
    a2 = a2
    o1 = o1
    b1 = b1
    b2 = b2
    NoOrder = NoOrder
    NoBody = NoBody
    NoScope = NoScope
    NoAuth = NoAuth
    Calls <- MCTwoCalls
    Accounts <- MCTwoAccounts
    Orders <- MCOneOrder
    Bodies <- MCOneBody
    Ops <- AllMethods
    TTL = 1
    DialogTime = 0
    RequestTime = 0
    MaxTime = 0
    MaxRetries = 1
    MaxQuestions = 1
    MaxDrops = 1
    CallerMutates = FALSE
    Restates = TRUE
    Resends = {}
SYMMETRY Symmetry
INVARIANTS
    TypeOK
PROPERTIES
    WritesArePrimed
    ImplementsGates
