----------------------------- MODULE MCScripts -----------------------------
(* The scripts and the build steps that gather what the site is made of, on   *)
(* small instances.  No two of them share state, so one run explores the sum  *)
(* of their state spaces: part, chosen at the start, says which one moves;    *)
(* the others stay in an initial state, where their properties hold.          *)
EXTENDS PackageCatalog, SiteContent, GeneratedShapes, ApiScripts

CONSTANTS
    MaxLeaves,  \* bound: leaves of a registration
    hosting, toolkit, qdrant, k6, Kind, Dog, Cat, IDog

VARIABLES
    part,
    versionLeaves, prefersPrerelease, chosen  \* a choice of a version

-----------------------------------------------------------------------------
VersionValues ==
    {[core |-> c, pre |-> p, rest |-> 0] : c \in {1, 2}, p \in {<< >>, <<Number(2)>>, <<Word(1), Number(1)>>}}
        \cup {[core |-> 2, pre |-> <<Word(1)>>, rest |-> r] : r \in {0, 1}}

Leaves == [version : VersionValues, listed : BOOLEAN, deprecated : BOOLEAN]

versionVars == <<versionLeaves, prefersPrerelease, chosen>>

VersionInit ==
    /\ versionLeaves \in BoundedSeq(Leaves, MaxLeaves)
    /\ \A i, j \in DOMAIN versionLeaves : versionLeaves[i].version = versionLeaves[j].version => i = j
    /\ prefersPrerelease \in BOOLEAN
    /\ chosen = << >>

Choose ==
    /\ chosen = << >>
    /\ chosen' = <<SelectPreferred(versionLeaves, prefersPrerelease)>>
    /\ UNCHANGED <<versionLeaves, prefersPrerelease>>

Chosen == chosen # << >> /\ chosen[1] # NoVersion

TheLeaf == CHOOSE l \in Range(versionLeaves) : l.version = chosen[1]

\* The precedence of semantic versions, written out: 1-2, 1-a, 1-a.1, 1.
Precedence(v) ==
    10 * v.core + CASE v.pre = <<Number(2)>> -> 1
                    [] v.pre = <<Word(1)>> -> 2
                    [] v.pre = <<Word(1), Number(1)>> -> 3
                    [] v.pre = << >> -> 4

(* The newest version is chosen, whatever the order in which they are listed*)
(* is: a newer one was deprecated, or not listed like the chosen one, or a  *)
(* preview passed over for a stable version.                                *)
NoneNewer ==
    Chosen => \A l \in Range(versionLeaves) : Precedence(l.version) > Precedence(chosen[1]) =>
        \/ l.deprecated
        \/ TheLeaf.listed /\ ~l.listed
        \/ isPrerelease(l.version) /\ ~isPrerelease(chosen[1]) /\ ~prefersPrerelease

(* A preview is never shown in the place of stable versions that were all   *)
(* deprecated, and a version that is not listed only if none is.            *)
NoPreviewForDeprecated ==
    Chosen /\ isPrerelease(chosen[1]) /\ TheLeaf.listed
        => \/ \A l \in Range(versionLeaves) : l.listed => isPrerelease(l.version)
           \/ prefersPrerelease /\ \E l \in Range(versionLeaves) : l.listed /\ ~isPrerelease(l.version) /\ ~l.deprecated

OnlyListed == Chosen /\ ~TheLeaf.listed => \A l \in Range(versionLeaves) : ~l.listed

-----------------------------------------------------------------------------
Stable(n) == [core |-> n, pre |-> << >>, rest |-> 0]

Preview(n) == [core |-> n, pre |-> <<Number(1)>>, rest |-> 0]

Live(v) == [version |-> v, listed |-> TRUE, deprecated |-> FALSE]

Dead(v) == [version |-> v, listed |-> TRUE, deprecated |-> TRUE]

Says(leaves) == [verified |-> TRUE, deprecated |-> FALSE, leaves |-> leaves]

MCPin == Preview(3)

MCPublished == Stable(1)

MCOffers ==
    {Says(<<Live(Stable(1))>>), Says(<<Live(Stable(2)), Live(Preview(3))>>),
     Says(<<Dead(Stable(2)), Live(Preview(3))>>),
     [Says(<<Live(Stable(2))>>) EXCEPT !.verified = FALSE]}

A(dir, theme) == [dir |-> dir, base |-> "a", theme |-> theme]

B(theme) == [dir |-> "images", base |-> "b", theme |-> theme]

P(dir, file) == [dir |-> dir, file |-> file]

MCSamples == <<"s1", "s2", "s3">>

FewReadmes(s) ==
  IF s = "s1" THEN {<<A("images", "none"), A("docs", "none")>>, <<A("docs", "none"), B("none")>>}
  ELSE {<<B("light")>>}

NoTrees(s) == {<<>>}

Themed == {A("images", t) : t \in {"none", "light", "dark"}} \union {B("light"), B("dark")}

AnyReadmes == {<<>>} \union {<<x>> : x \in Themed} \union (Themed \X Themed)
              \union (Themed \X Themed \X {A("images", "none"), B("light")})

MCReadmes(s) == IF s = "s1" THEN AnyReadmes ELSE {}

AnyTrees == {<<>>, <<P("Web", "Program.cs"), P("AppHost", "AppHost.csproj"), P("AppHost", "Program.cs")>>,
             <<P("AppHost", "AppHost.csproj"), P("Web", "Program.cs")>>,
             <<P("AppHost", "AppHost.cs"), P("AppHost", "AppHost.csproj"), P("AppHost", "Program.cs")>>,
             <<P("AppHost", "AppHost.cs"), P("", "apphost.mts")>>, <<P("App", "AppHost.cs")>>}

MCTrees(s) == IF s = "s1" THEN AnyTrees ELSE {<<>>}

Media(n, isImage) == [id |-> n, image |-> isImage]

Entry(link, date, title, featured, media) ==
    [link |-> link, date |-> date, title |-> title, featured |-> featured, media |-> media]

(* Ids are given to drafts: 3 is older than 4 and published later.  Two    *)
(* are of one day, one has lost its title, one comes with another picture. *)
WrittenValue ==
    [id \in 1..6 |->
        CASE id = 1 -> Entry(14, 1, TRUE, 21, <<Media(22, TRUE), Media(21, TRUE)>>)
          [] id = 2 -> Entry(13, 2, TRUE, 0, <<>>)
          [] id = 3 -> Entry(12, 4, TRUE, 23, <<Media(23, FALSE), Media(24, TRUE)>>)
          [] id = 4 -> Entry(11, 2, TRUE, 25, <<Media(26, TRUE)>>)
          [] id = 5 -> Entry(15, 5, TRUE, 0, <<>>)
          [] id = 6 -> Entry(16, 3, FALSE, 0, <<>>)]

MCIds == {<<>>, <<"a">>, <<"b">>, <<"de", "a">>, <<"404">>, <<"reference", "api", "x">>}

\* Two packages of the integrations: capitals come first by code units, localeCompare puts
\* k6 before Kind.
MCGenerator == <<Kind, k6>>

MCValidator == <<k6, Kind>>

MCHandles == {Dog, Cat}

MCInterfaces == {IDog, IResource}

MCMembers == {1, 2}

Sku == <<"Azure", "Storage", "Sku">>

Tier == <<"Azure", "Redis", "Tier">>

Plain == [enum |-> EnumsNone, element |-> {}, union |-> {}]

EnumsEnum(id) == [Plain EXCEPT !.enum = id]

ArrayOf(t) == [Plain EXCEPT !.element = {t}]

UnionOf(ts) == [Plain EXCEPT !.union = ts]

TypeValues == {EnumsEnum(Sku), ArrayOf(UnionOf({Plain, EnumsEnum(Sku)})), UnionOf({EnumsEnum(Sku), EnumsEnum(Tier)})}

DtoValues == {EnumsEnum(Tier)}

DefinedValues == {[id |-> Sku, name |-> "Sku", values |-> 1]}

EnumsIn(assembly, name, form, values) == [assembly |-> assembly, name |-> name, form |-> form, values |-> values]

StatementValues ==
    {EnumsIn(<<"Azure">>, "Sku", "enum", 1), EnumsIn(<<"Azure", "Storage">>, "Sku", "enum", 2),
     EnumsIn(<<"Azure", "Redis">>, "Sku", "enum", 3), EnumsIn(<<"Azure", "Redis">>, "Tier", "constant", 4),
     EnumsIn(<<"Azure">>, "Level", "enum", 5), EnumsIn(<<"Azure">>, "Tier", "other constant", 6),
     EnumsIn(<<"Azure">>, "Level", "numbered enum", 7)}

MentionValues == [c \in {"list", "add"} |-> {{}, {"Level"}, {"Level", "Sku"}}]

-----------------------------------------------------------------------------
\* Three samples without files and, apart from them, one with any images; posts,
\* videos and channels; and IndexNow on fewer pages, run by the workflow alone.  No property depends
\* on what is replaced here, except that its constants are those of the widest of these.
Batched == INSTANCE SiteContent WITH Readmes <- FewReadmes, Trees <- NoTrees
Shown == INSTANCE SiteContent WITH SampleMaxRuns <- 1
Posted ==
    INSTANCE SiteContent WITH Paths <- {"news"}, Localized <- {}, Fragments <- {}, Redirected <- {},
                              BlogPaths <- {"news"}, ResourcePackages <- {1}, Videos <- {1}, Posts <- {1},
                              Platforms <- {"youtube"}, Channels <- {1, 2}, MaxDocs <- 1,
                              MaxMappings <- 1, MaxVideos <- 2, MaxBlogs <- 1, MaxChannels <- 2
Unlimited ==
    INSTANCE ApiScripts WITH IndexPages <- 1 .. 3, MaxPerRun <- 2, ReleaseBudget <- 1, Limits <- {},
                             MaxChanges <- 3, MaxFaults <- 1

Parts == {"versions", "catalog", "schemas", "shape", "samples", "readmes", "blogs",
          "resources", "media", "cards", "regeneration", "bundle", "enums",
          "indexnow", "limited"}

\* The variables of the parts that do not move stay as they are.
OthersRest ==
    /\ part' = part
    /\ IF part = "versions" THEN TRUE ELSE UNCHANGED versionVars
    /\ IF part = "catalog" THEN TRUE ELSE UNCHANGED vars
    /\ IF part = "schemas" THEN TRUE ELSE UNCHANGED cliVars
    /\ IF part = "shape" THEN TRUE ELSE UNCHANGED shapeVars
    /\ IF part \in {"samples", "readmes"} THEN TRUE ELSE UNCHANGED sampleVars
    /\ IF part = "blogs" THEN TRUE ELSE UNCHANGED blogVars
    /\ IF part \in {"resources", "media"} THEN TRUE ELSE UNCHANGED resourceVars
    /\ IF part = "cards" THEN TRUE ELSE UNCHANGED cardVars
    /\ IF part = "regeneration" THEN TRUE ELSE UNCHANGED regenerationVars
    /\ IF part = "bundle" THEN TRUE ELSE UNCHANGED bundleVars
    /\ IF part = "enums" THEN TRUE ELSE UNCHANGED enumsVars
    /\ IF part \in {"indexnow", "limited"} THEN TRUE ELSE UNCHANGED indexVars

\* The cards of a site with one page.
CardRests ==
    /\ cardDocs = [id \in {<<"a">>} |->
                     [title |-> "plain", template |-> "doc", og |-> TRUE, ogImage |-> Unset, topic |-> 1]]
    /\ online = TRUE
    /\ CardInit

MCInit ==
    /\ part \in Parts
    /\ IF part = "versions" THEN VersionInit
       ELSE versionLeaves = << >> /\ prefersPrerelease = FALSE /\ chosen = << >>
    /\ Init /\ CliInit /\ SampleInit /\ ResourceInit /\ BundleInit
    /\ ShapeInit /\ (part # "shape" => prop = Leaf("sdk", "string", FALSE))
    /\ IF part = "blogs" THEN BlogInit ELSE archive = DOMAIN Written /\ BlogInit
    /\ IF part = "cards" THEN CardInit ELSE CardRests
    /\ RegenerationInit /\ (part # "regeneration" => regenerationWorld = main.catalog)
    /\ EnumsInit /\ (part # "enums" => same /\ enums = <<>>)
    /\ IF part = "indexnow" THEN Unlimited!IndexInit
       ELSE IF part = "limited" THEN IndexInit ELSE sitemap = IndexPages /\ IndexInit

VersionsMoves == part = "versions" /\ Choose /\ OthersRest
CatalogMoves == part = "catalog" /\ Next /\ OthersRest
SchemasMoves == part = "schemas" /\ CliNext /\ OthersRest
ShapeMoves == part = "shape" /\ ShapeNext /\ OthersRest
SamplesMoves == part = "samples" /\ Batched!SampleNext /\ OthersRest
ReadmesMoves == part = "readmes" /\ Shown!SampleNext /\ OthersRest
BlogsMoves == part = "blogs" /\ BlogNext /\ OthersRest
ResourcesMoves == part = "resources" /\ ResourceNext /\ OthersRest
MediaMoves == part = "media" /\ Posted!ResourceNext /\ OthersRest
CardsMoves == part = "cards" /\ CardNext /\ OthersRest
RegenerationMoves == part = "regeneration" /\ RegenerationNext /\ OthersRest
BundleMoves == part = "bundle" /\ BundleNext /\ OthersRest
EnumsMoves == part = "enums" /\ EnumsNext /\ OthersRest
IndexnowMoves == part = "indexnow" /\ Unlimited!IndexNext /\ OthersRest
LimitedMoves == part = "limited" /\ IndexNext /\ OthersRest

MCNext ==
    \/ VersionsMoves \/ CatalogMoves \/ SchemasMoves \/ ShapeMoves \/ SamplesMoves
    \/ ReadmesMoves \/ BlogsMoves \/ ResourcesMoves \/ MediaMoves
    \/ CardsMoves \/ RegenerationMoves \/ BundleMoves \/ EnumsMoves \/ IndexnowMoves
    \/ LimitedMoves

mcVars == <<part, versionVars, vars, cliVars, shapeVars, sampleVars, blogVars, resourceVars, cardVars,
            regenerationVars, bundleVars, enumsVars, indexVars>>

MCSpec == MCInit /\ [][MCNext]_mcVars

\* The catalog alone.
CatalogSpec == MCInit /\ part = "catalog" /\ [][CatalogMoves]_mcVars

-----------------------------------------------------------------------------
\* What depends on the order of a list and on the shape of a type: the version that is
\* chosen of a package (update-integrations.ts), the schema made of what the CLI prints
\* (update-schemas.ts), the list of posts, in which none is invented or listed
\* twice, and none missed but by a withdrawal that a publication hides (update-blogs.ts), and the enumerations a dump lacks
\* (supplement-ats-enums.ts).
DerivedFaithfully ==
    [](/\ NoneNewer /\ NoPreviewForDeprecated /\ OnlyListed
       /\ ShapeTypeOK /\ EverySpellingIsRead /\ FieldsAsDescribed /\ NothingElse
       /\ BlogTypeOK /\ Sorted /\ OwnPicture
       /\ EnumsTypeOK /\ Complete /\ FromOneDeclaration /\ OwnNameFirst /\ Idempotent)
    /\ [][NoneTwice /\ NoneMissed]_mcVars
=============================================================================
