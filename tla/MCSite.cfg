SPECIFICATION MCSpec
CONSTANTS
    Pages = {1, 2, 3}
    Diagrams <- MCDiagrams
    Themes = {"default", "dark"}
    MaxToggles = 2
    Queries = {"all", "one", "two"}
    Stale = {"old"}
    Extras = {0, 1}
    First <- MCFirst
    RestoreSaves = TRUE
    MaxActs = 3
    MaxEntries = 4
    Resources <- MCResources
    Words = {"redis", "web"}
    Arrivals <- MCArrivals
    RESOURCE_PAGE_SIZE = 1
    ResourceMaxActs = 3
    Cards = {"apphost", "azd", "resource"}
    Search <- MCSearch
    Topics <- MCTopics
    Letter <- MCLetter
    GlossaryWords = {"app", "host", "deploy"}
    TopicIds = {"core", "cloud"}
    Letters = {"A", "R"}
    Fine = TRUE
    GlossaryArrivals <- GlossaryMCArrivals
    GlossaryMaxActs = 4
    ApiPages <- PageValues
    Index <- IndexOf
    Missing = Missing
    Kinds <- KindValues
    Texts <- TextValues
    ApiTrim <- TrimOf
    Finds <- FindsIn
    Addresses <- AddressValues
    ApiMaxActs = 2
    ApiNone = ApiNone
    StepCount = 3
    Help = 2
    MaxRetries = 1
    MaxChanges = 1
    MaxDetours = 2
    Viewports <- MCViewports
    GeometryCards <- MCCards
    Edges <- MCEdges
    Sizes <- MCSizes
    Paddings = {2, 12}
    PivotPages <- MCPages
    Blocks <- MCBlocks
    Key <- MCKey
    PivotOptions <- MCOptions
    Disabled <- MCDisabled
    Links <- MCLinks
    MaxVisits = 3
    FloatingMaxActs = 8
    Targets <- MCTargets
    Observers <- MCObservers
    ObserverOf <- MCObserverOf
    Once = {"entry"}
    RequireComplete = {"motion"}
    WaitForReveal = {"motion"}
    Reveals <- MCReveals
    MaxMoves = 4
    ExpiresOn = 6
    DismissAfter = 3
    Strange <- StrangeValue
    MaxTime = 7
    MaxCorrections = 2
    BannerNone = BannerNone
    BannerWords = BannerWords
    ts = ts
    cs = cs
    api = api
    db = db
    deploy = deploy
    Languages = {ts, cs}
    EditorResources = {api, db}
    Deployment = deploy
    Blank = 0
    Start <- MCStart
    Example <- MCExample
    Docs = {"a", "b"}
    LanguagesMissing = "missing"
    LanguagesLanguages = {"go", "python"}
    MaxNodes = 3
INVARIANTS DiagramsCurrent GlossarySafe ApiSearchSafe AddressSafe WidgetsSafe EditorSafe
PROPERTIES WaysBackHelp WidgetsKept SiteProceeds
CHECK_DEADLOCK FALSE
