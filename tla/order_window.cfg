SPECIFICATION Spec
CONSTANTS
    c1 = c1
    c2 = c2
    a1 = a1
    a2 = a2
    o1 = o1
    b1 = b1
    b2 = b2
    NoOrder = NoOrder
    NoBody = NoBody
    NoScope = NoScope
    NoAuth = NoAuth
    Calls <- MCTwoCalls
    Accounts <- MCOneAccount
    Orders <- MCOneOrder
    Bodies <- MCOneBody
    Ops <- PlaceAndConfirmThenPlace
    TTL = 2
    DialogTime = 1
    RequestTime = 1
    MaxTime = 5
    MaxRetries = 0
    MaxQuestions = 1
    MaxDrops = 0
    CallerMutates = FALSE
    Restates = FALSE
    Resends = {}
SYMMETRY CallSymmetry
INVARIANTS
    Authorized
