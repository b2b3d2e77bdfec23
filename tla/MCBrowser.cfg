SPECIFICATION MCSpec
CONSTANTS
    r1 = r1
    r2 = r2
    s1 = s1
    s2 = s2
    Null = Null
    MaxVersion = 3
    Shows <- VersionShows
    Stamp <- InOrder
    Requests <- TwoRequests
    WireLength = 2
    MaxFaults = 2
    Blocked = FALSE
    MayVanish = TRUE
    Snapshots <- TwoSessions
    MaxWindows = 2
    Capacity = 2
    MaxFrames = 5
    a = a
    b = b
    r = r
    p1 = p1
    p2 = p2
    mine = mine
    foreign = foreign
    lan = lan
    Off = Off
    Urls = {a, b, r}
    None = None
    Final <- MCFinal
    Overlap = FALSE
    MaxLoads = 6
    MaxSame = 2
    BrowseUrls = {a, b, r}
    BrowseNone = BrowseNone
    Error = Error
    BrowseFinal <- MCFinal
    BrowseOverlap = TRUE
    BrowseMaxLoads = 3
    MaxActs = 2
    Pages = {"a", "b"}
    Transitions = TRUE
    DiagnosticsOverlap = FALSE
    DiagnosticsMaxLoads = 3
    MaxClicks = 2
    Storage = TRUE
    MaxPending = 3
    MaxCopies = 1
    Files = {a, b}
    HovercardNone = HovercardNone
    Card = Card
    Loading = Loading
    Failed = Failed
    MaxReq = 5
    MayReload = TRUE
    MaxChars = 4
    MaxLines = 7
    MarkupMaxChars = 4
    Origins = {p1, p2, mine, foreign, lan}
    Scope <- MCScope
    FetchNone = FetchNone
    Authorized = mine
    allowPrivateNetwork = TRUE
    maxRedirects = 4
    MaxChunks = 2
    Hosts = {"h1", "h2"}
    Names = {"a", "b"}
    MaxDepth = 2
    MaxUp = 2
    MaxTags = 2
    Odd = 1
INVARIANTS NeverStranded DisabledForGood NoticeSafe SocketSafe ViewerSafe CalmSafe
PROPERTIES BrowserConverges ViewerProceeds
CHECK_DEADLOCK FALSE
