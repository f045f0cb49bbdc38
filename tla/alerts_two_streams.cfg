SPECIFICATION Spec
CONSTANTS
    c1 = c1
    c2 = c2
    a1 = a1
    a2 = a2
    a3 = a3
    Streams = {"s1", "s2"}
    Alerts = {a1}
    Conids = {c1}
    Conid <- OnOne
    Direction <- Directions
    Threshold <- Thresholds
    Prices = {1, 2}
    NoPrice = NoPrice
    Nothing = Nothing
    MaxInbox = 1
    MaxBreaks = 0
    MaxMoves = 1
INVARIANT CannotRefire
