SPECIFICATION MCSpec
CONSTANTS
    Namespaces = {"n"}
    TypeNames = {"Box"}
    Arities = {0, 1}
    MemberNames = {".ctor", "Add"}
    Kinds = {"constructor", "method", "field"}
    Parameters <- MCParameters
    MaxTypes = 2
    MaxMembers = 2
    MaxRefs = 1
    Docs <- MCDocs
    Owners <- MCOwners
    Returns <- MCTypes
    ParameterTypes <- MCTypes
    MaxParameters = 3
    SignatureKinds <- MCKinds
    Members <- MCMembers
    AnchorMaxMembers = 5
    Names <- MCNames
    Words <- MCWords
    Disambiguators <- MCDisambiguators
    Keys = {k1}
    MaxItems = 3
    MaxMethods = 0
    Types = {1, 2}
    Functions = {3}
    Capabilities <- MCCapabilities
    TsMaxItems = 1
    MaxCapabilities = 3
    LineParameterTypes <- MCParameterTypes
    ReturnTypes <- MCReturnTypes
    LineMaxParameters = 3
    TypeRefs <- MCOneRef
    Catalogs <- MCNameCatalogs
    Modules <- MCNameModules
    Queries <- MCNameQueries
    SimpleName <- MCSimpleName
    Expressions <- MCExpressions
    Known <- MCKnown
    Unverified <- MCUnverified
    Props <- MCProps
    Paths <- MCPath
    MaxUsages = 1
    MaxAttributes = 3
    MaxLine = 1
    Locales = {"en", "de"}
    Versions <- MCVersions
    MaxLines = 4
    NavigationLinks <- MCLinks
    NavigationPaths <- MCPlaces
    Locale = "de"
    MaxEntries <- MCMaxEntries
    NavigationMaxItems <- MCMaxItems
    Configs <- MCConfigs
    k2 = k2
    Off = Off
INVARIANT PagesSafe
CHECK_DEADLOCK FALSE
