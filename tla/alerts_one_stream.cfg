SPECIFICATION FairSpec
CONSTANTS
    c1 = c1
    c2 = c2
    a1 = a1
    a2 = a2
    a3 = a3
    Streams = {"s1"}
    Alerts = {a1, a3}
    Conids = {c1, c2}
    Conid <- OnTwo
    Direction <- Directions
    Threshold <- Thresholds
    Prices = {1, 2}
    NoPrice = NoPrice
    Nothing = Nothing
    MaxInbox = 1
    MaxBreaks = 1
    MaxMoves = 1
INVARIANTS CannotRefire FiresForATrade MarkedIsReported
PROPERTIES EveryCrossingFires SubscriptionsReleased
