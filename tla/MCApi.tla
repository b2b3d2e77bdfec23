------------------------------- MODULE MCApi -------------------------------
(* The reference of the APIs, its links and the structure of the site's       *)
(* pages, on small instances.  No two of them share state, so one run         *)
(* explores the sum of their state spaces: part, chosen at the start, says    *)
(* which one moves, and the variables of the others are off.                  *)
EXTENDS CSharpReference, TypeScriptReference, ReferenceLinks, SiteStructure

CONSTANTS k2, Off

VARIABLE part

-----------------------------------------------------------------------------
MCParameters == {<<>>, <<"string">>}

DocsNode(kind, of, children, style, items) ==
  [kind |-> kind, of |-> of, children |-> children, style |-> style, items |-> items]

UpTo(set, n) == UNION {[1..k -> set] : k \in 0..n}

InlineNodes == {DocsNode("inline", of, <<>>, "", <<>>) : of \in Inline}

CodeBlock == DocsNode("codeblock", "", <<>>, "", <<>>)

Short == UpTo(InlineNodes \union {CodeBlock}, 2)

DocsItems == [term : UpTo(InlineNodes, 1), description : UpTo(InlineNodes \union {CodeBlock}, 1)]

Lists == {DocsNode("list", "", <<>>, style, items) : style \in {"bullet", "table"}, items \in UpTo(DocsItems, 1)}
         \union {DocsNode("list", "", <<>>, "number", <<a, b>>) : a \in DocsItems, b \in {x \in DocsItems : Len(x.term) = 0}}

Blocks == {DocsNode(kind, "", c, "", <<>>) : kind \in {"para", "note"}, c \in Short} \union Lists
          \union {DocsNode("para", "", <<l>>, "", <<>>) : l \in Lists}

MCDocs == UpTo(InlineNodes, 4) \union UpTo(InlineNodes \union {CodeBlock} \union Blocks, 1)
          \union {<<a, b>> : a \in InlineNodes \union {CodeBlock}, b \in Blocks}
          \union {<<b, a>> : a \in InlineNodes, b \in Blocks}

T(ns, name, args) == [ns |-> ns, name |-> name, args |-> args]

Ns == <<"N", ".">>

Plain == T(<<>>, "int", <<>>)

SignatureNamed == T(Ns, "C", <<>>)

List1 == T(Ns, "List", <<SignatureNamed>>)

Dict == T(Ns \o Ns, "Dict", <<Plain, List1>>)

MCTypes == {Plain, SignatureNamed, List1, Dict}

MCOwners == {T(<<>>, "Bar", <<>>), T(<<>>, "Box", <<T(<<>>, "K", <<>>)>>), T(Ns, "Bar", <<>>)}

MCKinds == {"method", "constructor", "property"}

M(name, kind, parameters, hash) == [name |-> name, kind |-> kind, parameters |-> parameters, hash |-> hash]

(* Overloads whose short parameter types are the same, a name with an underscore that reads like
   an overload, a hash that reads like a name, a repeated signature *)
MCMembers == {
  M(<<"add">>, "method", <<>>, "h1"), M(<<"add">>, "method", <<"string">>, "h2"),
  M(<<"add">>, "method", <<"string">>, "h3"), M(<<"add">>, "property", <<>>, "h4"),
  M(<<"add", "string">>, "property", <<>>, "h5"), M(<<"add", "string", "h2">>, "method", <<>>, "h6"),
  M(<<"item">>, "method", <<"string">>, "h3")}

MCNames == 1..3

MCWords == (1 :> <<"add">>) @@ (2 :> <<"add">>) @@ (3 :> <<"add", "db">>) @@ (4 :> <<"">>)

MCDisambiguators == {<<>>, <<"db">>}

MCSomeNames == {1, 3}

MCOtherNames == {1, 3, 4}

MCSomeDisambiguators == {<<"db">>}

MCCapabilities == { <<"p">>, <<"set", "p">>, <<"set", "set", "p">> }

MCOneCapability == { <<"p">> }

MCParameterTypes ==
  { <<"x">>,
    <<"x", "<", "x", ",", "x", ">">>,
    <<"x", "<", "x", "<", "x", ">", ">">>,
    <<"(", ")", "=>", "x">>,
    <<"(", "x", ",", "x", ")", "=>", "x", "<", "x", ">">> }

MCReturnTypes == { <<"x">>, <<"x", "<", "x", ">">>, <<"(", "x", ")", "=>", "x">> }

LinePaths == { <<"x">>, <<"x", ".", "x">>, <<"x", ".", "x", ".", "x">> }

RefSuffixes ==
  { <<>>,
    <<"<", "x", ".", "x", ",", "x", ">">>,
    <<"[[", "x", "]]">>,
    <<"[[", "x", ",", "A", ",", "x", "]]">>,
    <<"[[", "x", ".", "x", "]]">>,
    <<"[[", "x", ".", "x", ",", "A", ",", "x", "]]">> }

MCTypeRefs == [assembly : BOOLEAN, path : LinePaths, suffix : RefSuffixes]

MCOneRef == {[assembly |-> FALSE, path |-> <<"x">>, suffix |-> <<>>]}

MCOneParameter == {<<"x">>}

MCSimpleName == ("n.T" :> "T") @@ ("n.R" :> "R")

Member(pkg, arity, kind, params, exports, ignored, receiver, static, exposed) ==
  [pkg |-> pkg, type |-> "n.T", arity |-> arity, name |-> "add", kind |-> kind, params |-> params,
   exports |-> exports, ignored |-> ignored, receiver |-> receiver, static |-> static, exposed |-> exposed]

Export(id, method) == [id |-> id, method |-> method]

Route(module, name, kind, cap, targets, container) ==
  [module |-> module, name |-> name, kind |-> kind, cap |-> cap, targets |-> targets, container |-> container]

ReferenceUpTo(set, low, high) == UNION {[1..n -> set] : n \in low..high}

NamedMembers ==
  {Member(p, a, k, s, {Export("i", ReferenceNone)}, ReferenceNone, ReferenceNone, FALSE, FALSE) :
     p \in {"p", "q"}, a \in {0, 1}, k \in {"method", "property"}, s \in {<<>>, <<"string">>}}

MCNameCatalogs == ReferenceUpTo(NamedMembers, 0, 3)

MCNameModules == {<<>>, <<Route("p", "add", "Method", <<"p", "i">>, {}, ReferenceNone)>>}

MCNameQueries ==
  {[fqn |-> <<"n.T", "add">>, pkg |-> p, overload |-> o, params |-> s] :
     p \in {ReferenceNone, "p", "q"}, o \in BOOLEAN, s \in {<<>>, <<"string">>}}

Exports == {{Export("i", ReferenceNone)}, {Export("i", ReferenceNone), Export("j", ReferenceNone)}, {Export(ReferenceNone, ReferenceNone)}, {Export(ReferenceNone, "put")}}

LinkedMembers ==
  {Member("p", 0, "method", s, x, ReferenceNone, r, r # ReferenceNone, FALSE) :
     s \in {<<>>, <<"string">>}, x \in Exports, r \in {ReferenceNone, "n.R"}}
  \union {Member("p", 0, "method", <<"number">>, {}, i, ReferenceNone, FALSE, e) :
            i \in {ReferenceNone, "ignored", "dispatcher"}, e \in BOOLEAN}

MCLinkCatalogs == ReferenceUpTo(LinkedMembers, 1, 2)

OwnRoutes ==
  {Route("p", "add", k, c, t, ReferenceNone) :
     k \in {"function", "Method", "PropertySetter"}, c \in {<<>>, <<"p", "i">>}, t \in {{}, {"n.T"}}}

\* Of another package, by another name, of another type.
OtherRoutes ==
  {Route("q", "add", "Method", <<>>, {"n.T"}, ReferenceNone), Route("p", "put", "Method", <<"p", "j">>, {}, "T"),
   Route("p", "add", "function", <<"p", "add">>, {"n.R"}, ReferenceNone)}

MCLinkModules ==
  {<<>>} \union {<<r>> : r \in OwnRoutes \union OtherRoutes}
  \union {<<a, b>> : a \in OwnRoutes, b \in OtherRoutes} \union {<<b, a>> : a \in OwnRoutes \union OtherRoutes, b \in OtherRoutes}

MCLinkQueries ==
  {[fqn |-> <<"n.T", "add">>, pkg |-> ReferenceNone, overload |-> o, params |-> <<>>] : o \in BOOLEAN}

Lit(v) == [type |-> "Literal", value |-> v]

Template(v, n) == [type |-> "TemplateLiteral", value |-> v, expressions |-> n]

Paren(x) == [type |-> "ParenthesizedExpression", expression |-> x]

Array(xs) == [type |-> "ArrayExpression", elements |-> xs]

Variable == [type |-> "Identifier"]

MCExpressions ==
  { Lit(Str("A")), Lit(Str("")), Lit(Other), Variable,
    Template(Str("A"), 0), Template(Str("A"), 1), Paren(Lit(Str("Q"))), Lit(Str("Q")),
    Array(<<>>), Array(<<Lit(Str("A"))>>), Array(<<Lit(Str(""))>>), Array(<<Variable>>) }

MCFewExpressions == { Lit(Str("A")), Lit(Str("Q")) }

(* A is in one package, Q, with one parameter of type A or none.           *)
MCKnown == { <<Str("A"), Str("Q"), Absent>>, <<Str("A"), Str("Q"), UsageList(<<>>)>>,
             <<Str("A"), Str("Q"), UsageList(<<"A">>)>>, <<Str("Q"), Absent, Absent>>,
             <<Str("Q"), Str("Q"), Absent>> }

MCUnverified == { Str("Q") }

MCProps == { [name |-> Str("Z")], [package |-> Str("A")], [parameterTypes |-> UsageList(<<"Q">>)] }

MCPath == {1}

MCPaths == {1, 2}

MCVersions == { <<9>>, <<13, 2>> }

MCLinks == <<<<"docs">>, <<"reference", "overview">>>>

MCPlaces == {<<"docs", "overview">>, <<"docs", "a">>, <<"hub", "glossary">>, <<"reference", "api">>}

MCConfigs == {[prev |-> "unset", next |-> "unset"], [prev |-> "off", next |-> "unset"],
              [prev |-> "unset", next |-> "link"]}

MCMaxEntries == <<2, 1>>

MCMaxItems == <<2, 0>>

-----------------------------------------------------------------------------
PackageOff ==
    /\ packageTypes = Off /\ site = Off

CommentsOff ==
    /\ doc = Off /\ docsPage = Off

SignaturesOff ==
    /\ member = Off /\ signatureShown = Off

AnchorsOff ==
    /\ members = Off /\ resolvedAnchors = Off

RoutesOff ==
    /\ routeDoc = Off /\ stable = Off /\ routeItems = Off /\ itemIndex = Off
    /\ methods = Off /\ methodIndex = Off /\ routeAnswer = Off /\ published = Off

ModulesOff ==
    /\ tsKind = Off /\ tsCaps = Off /\ tsRefs = Off /\ tsTargets = Off
    /\ tsDotted = Off /\ tsPage = Off /\ tsLines = Off

LinesOff ==
    /\ lineParameters = Off /\ returns = Off /\ typeRef = Off /\ lineShown = Off
    /\ simple = Off

NamesOff ==
    /\ referenceMembers = Off /\ routes = Off /\ query = Off /\ referenceAnswer = Off

UsageOff ==
    /\ files = Off /\ diagnostics = Off

DataOff ==
    /\ body = Off /\ dataPage = Off /\ graph = Off /\ faq = Off

NavigationOff ==
    /\ topics = Off /\ view = Off

\* Methods of a handle whose names spell one slug, alone and beside an item; several items of a module;
\* names of types; links from an export; several usages in several files.
Overloaded ==
    INSTANCE TypeScriptReference WITH
        Names <- MCSomeNames, Disambiguators <- MCSomeDisambiguators, Keys <- {k2} \union Keys,
        MaxItems <- 1, MaxMethods <- 2
Mixed ==
    INSTANCE TypeScriptReference WITH
        Names <- MCOtherNames, Disambiguators <- MCSomeDisambiguators, Keys <- {k2} \union Keys,
        MaxItems <- 2, MaxMethods <- 1
Several ==
    INSTANCE TypeScriptReference WITH
        Functions <- {3, 4}, Capabilities <- MCOneCapability, TsMaxItems <- 3, MaxCapabilities <- 1
ByName ==
    INSTANCE TypeScriptReference WITH
        LineParameterTypes <- MCOneParameter, LineMaxParameters <- 0, TypeRefs <- MCTypeRefs
Exported ==
    INSTANCE ReferenceLinks WITH
        Catalogs <- MCLinkCatalogs, Modules <- MCLinkModules, Queries <- MCLinkQueries
Scattered ==
    INSTANCE ReferenceLinks WITH
        Expressions <- MCFewExpressions, Paths <- MCPaths, MaxUsages <- 3, MaxAttributes <- 1, MaxLine <- 2

Parts == {"package", "comments", "signatures", "anchors", "routes", "members", "mixed",
          "modules", "items", "lines", "types", "names", "links", "usage", "files",
          "data", "navigation"}

\* The variables of the parts that do not move stay as they are.
OthersRest ==
    /\ part' = part
    /\ IF part = "package" THEN TRUE ELSE UNCHANGED vars
    /\ IF part = "comments" THEN TRUE ELSE UNCHANGED docsVars
    /\ IF part = "signatures" THEN TRUE ELSE UNCHANGED signatureVars
    /\ IF part = "anchors" THEN TRUE ELSE UNCHANGED anchorVars
    /\ IF part \in {"routes", "members", "mixed"} THEN TRUE ELSE UNCHANGED routeVars
    /\ IF part \in {"modules", "items"} THEN TRUE ELSE UNCHANGED tsVars
    /\ IF part \in {"lines", "types"} THEN TRUE ELSE UNCHANGED lineVars
    /\ IF part \in {"names", "links"} THEN TRUE ELSE UNCHANGED referenceVars
    /\ IF part \in {"usage", "files"} THEN TRUE ELSE UNCHANGED usageVars
    /\ IF part = "data" THEN TRUE ELSE UNCHANGED dataVars
    /\ IF part = "navigation" THEN TRUE ELSE UNCHANGED navigationVars

MCInit ==
    /\ part \in Parts
    /\ IF part = "package" THEN Init ELSE PackageOff
    /\ IF part = "comments" THEN DocsInit ELSE CommentsOff
    /\ IF part = "signatures" THEN SignatureInit ELSE SignaturesOff
    /\ IF part = "anchors" THEN AnchorInit ELSE AnchorsOff
    /\ IF part = "routes" THEN RouteInit
       ELSE IF part = "members" THEN Overloaded!RouteInit
       ELSE IF part = "mixed" THEN Mixed!RouteInit ELSE RoutesOff
    /\ IF part = "modules" THEN TsInit
       ELSE IF part = "items" THEN Several!TsInit ELSE ModulesOff
    /\ IF part = "lines" THEN LineInit
       ELSE IF part = "types" THEN ByName!LineInit ELSE LinesOff
    /\ IF part = "names" THEN ReferenceInit
       ELSE IF part = "links" THEN Exported!ReferenceInit ELSE NamesOff
    /\ IF part = "usage" THEN UsageInit
       ELSE IF part = "files" THEN Scattered!UsageInit ELSE UsageOff
    /\ IF part = "data" THEN DataInit ELSE DataOff
    /\ IF part = "navigation" THEN NavigationInit ELSE NavigationOff

PackageMoves == part = "package" /\ Next /\ OthersRest
CommentsMoves == part = "comments" /\ DocsNext /\ OthersRest
SignaturesMoves == part = "signatures" /\ SignatureNext /\ OthersRest
AnchorsMoves == part = "anchors" /\ Declare /\ OthersRest
RoutesMoves == part = "routes" /\ RouteNext /\ OthersRest
MembersMoves == part = "members" /\ Overloaded!RouteNext /\ OthersRest
MixedMoves == part = "mixed" /\ Mixed!RouteNext /\ OthersRest
ModulesMoves == part = "modules" /\ TsNext /\ OthersRest
ItemsMoves == part = "items" /\ Several!TsNext /\ OthersRest
LinesMoves == part = "lines" /\ LineNext /\ OthersRest
TypesMoves == part = "types" /\ ByName!LineNext /\ OthersRest
NamesMoves == part = "names" /\ ReferenceNext /\ OthersRest
LinksMoves == part = "links" /\ Exported!ReferenceNext /\ OthersRest
UsageMoves == part = "usage" /\ UsageNext /\ OthersRest
FilesMoves == part = "files" /\ Scattered!UsageNext /\ OthersRest
DataMoves == part = "data" /\ DataNext /\ OthersRest
NavigationMoves == part = "navigation" /\ NavigationNext /\ OthersRest

MCNext ==
    \/ PackageMoves \/ CommentsMoves \/ SignaturesMoves \/ AnchorsMoves \/ RoutesMoves
    \/ MembersMoves \/ MixedMoves \/ ModulesMoves \/ ItemsMoves \/ LinesMoves
    \/ TypesMoves \/ NamesMoves \/ LinksMoves \/ UsageMoves \/ FilesMoves \/ DataMoves
    \/ NavigationMoves

mcVars == <<part, vars, docsVars, signatureVars, anchorVars, routeVars, tsVars, lineVars, referenceVars,
            usageVars, dataVars, navigationVars>>

MCSpec == MCInit /\ [][MCNext]_mcVars

-----------------------------------------------------------------------------
\* Whoever reads the reference finds what a package exports, at the address the site
\* gives it and with the words its source has: each declared link lands, no overload
\* takes another's place, a signature loses nothing when it is laid out, a name in a
\* document means one member or is reported where it stands (csharp-api-markdown.ts,
\* api-member-anchors.ts, ts-modules.ts, ts-api-routes.ts, api-reference.mjs).
ReferenceSafe ==
    /\ part = "package" => TypeOK /\ DeclaredLinksLand /\ AllIsReached /\ OverloadIsFound
    /\ part = "comments" => DocsTypeOK /\ InDocumentOrder /\ NoEmptyHeading /\ WordsStayApart
    /\ part = "signatures" => SignatureTypeOK /\ ReadsLikeSource /\ LinePerParameter /\ HeadingIsShort
    /\ part = "anchors" => AnchorTypeOK /\ IdsAreUnique /\ NamesResolve /\ KindKeepsItsName
    /\ part = "routes" => RouteTypeOK /\ AnswersAreCurrent /\ PagesRoundTrip /\ LegacyNamesResolve
    /\ part = "members" =>
         /\ Overloaded!RouteTypeOK /\ Overloaded!AnswersAreCurrent
         /\ Overloaded!SearchLeadsToPages /\ Overloaded!SortedLinksAgree
    /\ part = "mixed" => Mixed!RouteTypeOK /\ Mixed!AnswersAreCurrent /\ Mixed!SearchLeadsToPages
    /\ part = "modules" => TsTypeOK /\ LinksLand /\ CapabilitiesShownOnce /\ DeclarationAgrees
    /\ part = "items" =>
         Several!TsTypeOK /\ Several!LinksLand /\ Several!ThereAndBack /\ Several!SidebarLeadsHere
    /\ part = "lines" => LineTypeOK /\ NothingIsLost /\ ParametersWrap
    /\ part = "types" => ByName!LineTypeOK /\ ByName!NamesAreSimple /\ ByName!NoAssemblyNames
    /\ part = "names" => ReferenceTypeOK /\ QualifyingNarrows /\ OverloadIsMeant /\ OrderDoesNotMatter
    /\ part = "links" =>
         /\ Exported!ReferenceTypeOK /\ Exported!LinksCorrespond
         /\ Exported!NoExportIsForgotten /\ Exported!OrderDoesNotMatter
    /\ part = "usage" => UsageTypeOK /\ AcceptedResolve /\ ResolvedAccepted
    /\ part = "files" => Scattered!UsageTypeOK /\ Scattered!InReadingOrder

\* What a page says of its place on the site agrees with the site: its structured data
\* refer to each other and repeat the page, and its breadcrumbs, its badge and its
\* neighbours are those of its topic (structured-data.ts, route-data-middleware.ts).
StructureSafe ==
    /\ part = "data" => DataTypeOK /\ RefsResolve /\ AnswersAreTheSections /\ ParagraphsKept
    /\ part = "navigation" =>
         NavigationTypeOK /\ StaysInGroup /\ LinksLead /\ Idempotent /\ BadgeIsCrumbTopic

\* Both: every page of the reference shows what is exported and leads where it says,
\* and every page of the site says truly where it stands.
PagesSafe == ReferenceSafe /\ StructureSafe
=============================================================================
