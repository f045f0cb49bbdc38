SPECIFICATION Spec
CONSTANTS
    None = None
    Conids = {"x", "y", "z"}
    Entitled = {"x", "y"}
    MaxPolls = 1
    MaxSessionCalls = 2
    MaxEvents = 2
    BarSizes <- TwoSizes
    Lookbacks = {1, 4}
    Span = 6
    Cap = 3
    MaxChunks = 4
    MaxWidenings = 1
    Attempts = 2
    MaxEmpty = 1
    MaxFetches = 2
    PageSize = 2
    Held = 4
    MaxPages = 2
    Parents <- BracketParents
    Kids <- BracketKids
    More <- MoreKids
    MaxLots = 2
    MaxModifies = 2
    Restated = FALSE
    Platforms = {"darwin", "tk", "none"}
    Sides = {"BUY", "SELL"}
    MaxDialogs = 2
    Callers = {"c", "d"}
    Archivers = {"c"}
    Roots = {"r1", "r2", "lo"}
    Private = {"lo"}
    Pages = {"p", "q"}
    Slug <- WebSlug
    Profile <- WebProfile
    Crawls <- WebCrawls
    MaxAge = 1
    MaxTime = 2
    MaxWebCalls = 2
    DataBars = 4
    MaxRuns = 2
    Futures <- Chain
    Listings <- Listed
    MaxRows = 3
    MaxContractDay = 3
    MaxContractCalls = 1
    Ids = {1, 2}
    Names = {"m", "n"}
    Expiries = {"e"}
    Prices = {10, 20}
    Operators = {">="}
    Phoned <- PhoneAlerts
    MaxTries = 1
    MaxAlertCalls = 2
    MaxEdits = 1
    TradingDays = {1, 2, 4}
    LastDay = 5
    Threshold = 1
CHECK_DEADLOCK FALSE
INVARIANT TypeOK
PROPERTY SessionKept
INVARIANT AnswersAreTrue
INVARIANT NothingLost
INVARIANT BracketAsShown
PROPERTY WithinFillRead
INVARIANT DialogHonest
INVARIANT OneBrowserPerProfile
PROPERTY SavedIsArchived
INVARIANT BacktestTrue
INVARIANT RightContract
PROPERTY PatchesKeepAlerts
INVARIANT CoverageTrue
PROPERTY CallsEnd
