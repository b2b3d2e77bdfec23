SPECIFICATION MCSpec
CONSTANTS
    MaxLeaves = 3
    hosting = hosting
    toolkit = toolkit
    qdrant = qdrant
    NotFound = NotFound
    Official = {hosting}
    Toolkit = {toolkit}
    Others = {qdrant}
    Offers <- MCOffers
    Modes = {"main", "release", "pinned"}
    Pin <- MCPin
    Published <- MCPublished
    MaxUpdates = 2
    Versions = {1, 2, 3, 4}
    MIN_SCHEMA_VERSION = 2
    Unstable = {4}
    PageSize = 2
    MaxRuns = 2
    Names = {"features", "packages", "sdk"}
    Types = {"string", "boolean", "integer", "object", "mystery"}
    Features = {"flag"}
    MaxSubs = 2
    Samples <- MCSamples
    Readmes <- MCReadmes
    Trees <- MCTrees
    Concurrency = 2
    SampleMaxRuns = 2
    Written <- WrittenValue
    PerPage = 2
    BlogPublished = {1, 3, 5}
    Withdrawn = {2, 5}
    MaxRefreshes = 2
    NoFile = NoFile
    Paths = {"redis", "old", "fr", "gone"}
    Localized = {"fr"}
    Fragments = {}
    NotResources = {}
    Redirected = {"gone"}
    BlogPaths = {}
    ResourcePackages = {1, 2}
    Videos = {}
    Posts = {}
    Platforms = {}
    Channels = {}
    MaxDocs = 2
    MaxMappings = 1
    MaxVideos = 0
    MaxBlogs = 0
    MaxChannels = 0
    Ids <- MCIds
    Locale = "de"
    CardSamples = {"s"}
    MaxEdits = 1
    MaxBuilds = 2
    RegenerationNames = {hosting, toolkit}
    Exporting = {hosting}
    MaxVersion = 2
    MaxBreaks = 1
    MaxAborts = 1
    k6 = k6
    Kind = Kind
    Dog = Dog
    Cat = Cat
    IDog = IDog
    Dto = Dto
    Enum = Enum
    Other = Other
    IResource = IResource
    GeneratorOrder <- MCGenerator
    ValidatorOrder <- MCValidator
    HandleNames <- MCHandles
    Interfaces <- MCInterfaces
    Members <- MCMembers
    MaxParts = 2
    EnumsTypes <- TypeValues
    DtoTypes <- DtoValues
    Capabilities = {"list"}
    Defined <- DefinedValues
    Statements <- StatementValues
    Mentions <- MentionValues
    MaxUses = 2
    MaxStatements = 2
    Error = Error
    EnumsNone = EnumsNone
    IndexPages = {1, 2, 3, 4}
    MaxPerRun = 3
    ReleaseBudget = 2
    RotationBudget = 1
    Limits = {1}
    MaxChanges = 3
    MaxFaults = 0
INVARIANT ScriptsSafe
PROPERTIES ScriptsKeep DerivedFaithfully
CHECK_DEADLOCK FALSE
