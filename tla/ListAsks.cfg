SPECIFICATION MCPlatformSpec
CONSTANTS
    Parts = {"list"}
    Instances = {a, b}
    Tokens = {t1, t2, t3}
    NoToken = NoToken
    TTL = 5
    Renewing = TRUE
    MaxPass = 5
    MaxOutage = 3
    RunIds = {1, 2}
    Workers = {w1, w2}
    Results = {x, y}
    NoResult = NoResult
    NoRun = NoRun
    StaleAfter = 1
    p1 = p1
    p2 = p2
    Packages = {p1, p2}
    PackageAmount <- MCPackageAmount
    Subscriptions = {1}
    OwnBots = {}
    DeskRequests = {q1}
    Passes = {e1}
    Ceilings = {1, 3}
    MaxDeskOperations = 6
    NoPackage = NoPackage
    NoBot = NoBot
    Prices = {1, 2, 4, 8}
    PaperBot <- MCPaperBot
    PaperRunners = {tick}
    PaperOwners = {owner}
    RequestPrices = {2}
    MaxPositions = 1
    MaxPaperOperations = 2
    SimulatedBots <- MCSimulatedBots
    Capital = 44
    Equities = {40, 42, 44, 50}
    MaxPoints = 6
    FeePercent = 10
    Candles = 5
    RunLoaders = {l1}
    AdminLoaders = {l2}
    RangeEnd = 4
    Gaps = {{}, {2}, {4}}
    ReadPage = 2
    ImportPage = 2
    Users = {u1, u2}
    Chats = {c1}
    Updates = {h1, h2}
    LinkRequests = {r1}
    MaxTokens = 2
    MaxLinkRequests = 3
    NoUser = NoUser
    NoChat = NoChat
    Notes = {n1, n2}
    MaxRecent = 1
    MaxHookTries = 2
    MaxRestarts = 1
    s1 = s1
    s2 = s2
    Library = {s1, s2}
    Offers = {"o1"}
    Admins = {"a1", "a2"}
    Buyers = {"b1"}
    BaseOrders = {5, 6}
    OfferAmounts = {10, 20}
    Splits <- MCSplits
    MaxAdminRequests = 3
    OwnRows = {"row1"}
    Editors = {"e1", "e2"}
    NewSettings <- MCNewSettings
    Edits <- MCEdits
    MaxEdits = 4
    QuoteReaders = {"p1", "p2"}
    QuoteTtl = 2
    RequestTimeout = 2
    MaxClock = 7
    ListReaders = {"m1", "m2", "m3"}
    TickersTtl = 2
    MaxLate = 1
    CandleShapes <- MCCandles
    SignalConfigs <- MCSignals
    SignalBots = {"g1", "g2"}
    MaxHistory = 6
    AccountRequests = {"x1", "x2"}
    Browsers = {"here"}
    MaxSteps = 3
    MaxCalls = 5
    MaxLinks = 1
    MaxStreams = 3
    MaxFeeds = 2
    MaxListeners = 2
    MaxCuts = 2
    FillQuantity = 2
    FillPrice = 2
    FillFee = 1
    OrderSyncs = {"s1", "s2"}
    MaxFills = 2
    k1 = k1
    k2 = k2
    ApiKeys = {k1, k2}
    Rights <- MCRights
    Account <- MCAccount
    KeyRequests = {"q1"}
    MaxKeyChanges = 2
    NoApiKey = NoApiKey
    ClientIds = {"i1"}
    NoClientId = NoClientId
    MaxAttempts = 2
    MaxDemoCalls = 2
INVARIANT
    OneTickerRequestPerTtl
CHECK_DEADLOCK FALSE
