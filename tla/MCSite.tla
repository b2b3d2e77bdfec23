------------------------------- MODULE MCSite -------------------------------
(* The pages and widgets of the site on small instances.  No two of them    *)
(* share state, so one run explores the sum of their state spaces: part,    *)
(* chosen at the start, says which one moves.  The variables of the others  *)
(* are off, or stay in an initial state where a temporal property or a      *)
(* theorem speaks of them in every behaviour.                               *)
EXTENDS MermaidDiagrams, SitePages, SiteSearch, Widgets

CONSTANTS ts, cs, api, db, deploy, BannerWords

VARIABLE part

(* Two diagrams, none, and one.                                            *)
MCDiagrams == [page \in 1 .. 3 |-> CASE page = 1 -> {1, 2} [] page = 2 -> {} [] page = 3 -> {1, 2}]

Unowned(url) == [url |-> url, owned |-> FALSE]

MCFirst ==
    {[entries |-> <<Unowned(Browse(0, "all"))>>, index |-> 1],
     [entries |-> <<Unowned(Other(0)), Unowned(Browse(0, "old"))>>, index |-> 2]}

Resource(id, text, type, topic, language, date, title) ==
    [id |-> id, text |-> text, type |-> type, topic |-> topic, language |-> language,
     date |-> date, title |-> title]

MCResources ==
    {Resource(1, {"redis"}, "sample", {"data"}, {"csharp"}, 1, 1),
     Resource(2, {"redis", "web"}, "sample", {"data", "cloud"}, {"python"}, 2, 2),
     Resource(3, {"web"}, "video", {"cloud"}, {"csharp"}, 2, 3),
     Resource(4, {}, "video", {}, {}, 0, 2)}
    \cup {Resource(i, {"aspire"}, "sample", {}, {}, i, i) : i \in 5 .. 7}

MCArrivals ==
    {NoParameters,
     [NoParameters EXCEPT !.page = 4],
     [NoParameters EXCEPT !.page = 9, !.facets["topic"] = {"data", "gone"}],
     [NoParameters EXCEPT !.sort = "title-desc", !.provider = "azure", !.extra = "en"],
     [NoParameters EXCEPT !.q = [words |-> {"web"}, padded |-> TRUE],
                          !.facets["type"] = {"sample"}, !.sort = "oldest", !.title = "asc"]}

MCSearch == [c \in Cards |-> CASE c = "apphost" -> {"app", "host"}
                               [] c = "azd" -> {"deploy"}
                               [] OTHER -> {"app", "deploy"}]

MCTopics == [c \in Cards |-> CASE c = "apphost" -> {"core"}
                               [] c = "azd" -> {"cloud"}
                               [] OTHER -> {"core", "cloud"}]

MCLetter == [c \in Cards |-> IF c = "resource" THEN "R" ELSE "A"]

GlossaryMCArrivals ==
    {NoFilters,
     [query |-> {"app"}, topics |-> {"cloud", "gone"}, letter |-> "X"],
     [query |-> {"host"}, topics |-> {"cloud"}, letter |-> "R"]}

Entry(name, kind) == [name |-> name, kind |-> kind]

KindValues == {"method", "property", "event"}

(* Two pages of types, one of a type with no members, one whose index is   *)
(* missing and one that is no API page.                                    *)
PageValues == {"Redis", "Queue", "Marker", "Torn", "Guide"}

IndexOf(p) ==
    CASE p = "Redis" -> {Entry("Run", "method"), Entry("Port", "property"), Entry("Ran", "event")}
      [] p = "Queue" -> {Entry("Run", "method")}
      [] p = "Marker" -> {}
      [] p = "Torn" -> Missing
      [] p = "Guide" -> ApiNone

TextValues == {"", " ", "run", "port", "port ", "zzz"}

TrimOf(text) == CASE text = " " -> "" [] text = "port " -> "port" [] OTHER -> text

FindsIn(text, entry) ==
    text = "" \/ (text = "run" /\ entry.name = "Run") \/ (text = "port" /\ entry.name = "Port")

To(p, q, kinds) == [page |-> p, q |-> q, kinds |-> kinds]

AddressValues ==
    {To("Redis", "", {}), To("Redis", "port ", {"method", "gone"}), To("Queue", "", {}), To("Queue", "", {"event"}),
     To("Marker", "run", {}), To("Torn", "", {}), To("Guide", "", {})}

MCViewports == {[w |-> 360, h |-> 640], [w |-> 768, h |-> 500], [w |-> 1024, h |-> 700], [w |-> 900, h |-> 260]}

MCCards == {[w |-> 340, h |-> 220], [w |-> 300, h |-> 400]}

MCEdges == {-1500, -12, 5, 380, 700}

MCSizes == {1, 330, 1200}

MCPages == [first |-> <<"top", "tests", "bottom">>, host |-> <<"wide">>, app |-> <<"narrow">>]

MCKey == [top |-> "aspire-lang", bottom |-> "aspire-lang", tests |-> "framework",
          wide |-> "lang", narrow |-> "lang"]

MCOptions == [top |-> <<"typescript", "csharp">>, bottom |-> <<"typescript", "csharp">>,
              tests |-> <<"xunit", "nunit">>,
              wide |-> <<"python", "go", "java">>, narrow |-> <<"python", "javascript", "go">>]

MCDisabled == [s \in DOMAIN MCKey |-> IF s = "wide" THEN {"python"} ELSE {}]

MCBlocks == [first |-> {{"csharp"}, {"typescript"}, {"typescript", "csharp"}, {"xunit"}, {"nunit"}, {"else"}},
             host |-> {{"python"}, {"go"}, {"java", "go"}},
             app |-> {{"python"}, {"go", "javascript"}}]

MCLinks ==
    {[key \in Keys |-> PivotNone],
     [key \in Keys |-> IF key = "aspire-lang" THEN "csharp" ELSE PivotNone],
     [key \in Keys |-> IF key = "lang" THEN "java" ELSE PivotNone]}

(* The intro of a section is revealed when any of it is shown, and the     *)
(* stage with it, which plays while it is shown whole.                     *)
MCTargets == {"intro", "stage"}

MCObservers == {"entry", "motion"}

MCObserverOf == [t \in MCTargets |-> IF t = "intro" THEN "entry" ELSE "motion"]

MCReveals == [t \in MCTargets |-> IF t = "intro" THEN {"stage"} ELSE {}]

StrangeValue == {BannerWords, 0, -3}

MCStart == [lang |-> ts, variant |-> {api}]

(* An import for a database, a line for every resource, a blank one, the last line of the
   language; the deployment changes the line of the api *)
MCExample(lang, variant) ==
  IF variant = {} THEN <<1, 9>>
  ELSE LET If(c, line) == IF c THEN <<line>> ELSE <<>>
       IN If(db \in variant, 2) \o <<1>> \o If(db \in variant, 3) \o If(deploy \in variant, 0)
          \o If(api \in variant, IF deploy \in variant THEN 5 ELSE 4) \o <<IF lang = ts THEN 7 ELSE 8>>

-----------------------------------------------------------------------------
\* The filters of the other pages, which write no restored query back; the glossary on a touch screen.
Unsaved == INSTANCE SitePages WITH RestoreSaves <- FALSE, Extras <- {0}
Touched == INSTANCE SiteSearch WITH Fine <- FALSE

Parts == {"diagrams", "filter", "unsaved", "resources", "glossary", "touched", "search",
          "tour", "geometry", "pivots", "floating", "viewport", "banner", "editor", "languages"}

\* The variables of the parts that do not move stay as they are.
OthersRest ==
    /\ part' = part
    /\ IF part = "diagrams" THEN TRUE ELSE UNCHANGED vars
    /\ IF part \in {"filter", "unsaved"} THEN TRUE ELSE UNCHANGED filterVars
    /\ IF part = "resources" THEN TRUE ELSE UNCHANGED resourceVars
    /\ IF part \in {"glossary", "touched"} THEN TRUE ELSE UNCHANGED glossaryVars
    /\ IF part = "search" THEN TRUE ELSE UNCHANGED apiVars
    /\ IF part = "tour" THEN TRUE ELSE UNCHANGED tourVars
    /\ IF part = "geometry" THEN TRUE ELSE UNCHANGED geometryVars
    /\ IF part = "pivots" THEN TRUE ELSE UNCHANGED pivotVars
    /\ IF part = "floating" THEN TRUE ELSE UNCHANGED floatingVars
    /\ IF part = "viewport" THEN TRUE ELSE UNCHANGED viewportVars
    /\ IF part = "banner" THEN TRUE ELSE UNCHANGED bannerVars
    /\ IF part = "editor" THEN TRUE ELSE UNCHANGED editorVars
    /\ IF part = "languages" THEN TRUE ELSE UNCHANGED languagesVars

MCInit ==
    /\ part \in Parts
    /\ Init /\ (part # "diagrams" => dataTheme = "default")
    /\ FilterInit /\ (part \notin {"filter", "unsaved"} => Len(history.entries) = 1)
    /\ GlossaryInit /\ (part \notin {"glossary", "touched"} => filters = NoFilters)
    /\ ApiInit /\ (part # "search" => location.page = "Guide")
    /\ TourInit /\ (part # "tour" => tourPage = [targets |-> Steps, wide |-> TRUE, landing |-> FALSE])
    /\ GeometryInit /\ (part # "geometry" =>
                          geometryView = [w |-> 768, h |-> 500] /\ geometryTarget = Rect(5, 5, 6, 6))
    /\ PivotInit /\ (part # "pivots" =>
                       pivotPage = "first" /\ pivotParams = [key \in Keys |-> PivotNone] /\ stored = pivotParams)
    /\ FloatingInit /\ (part # "floating" => ~past)
    /\ ViewportInit /\ (part # "viewport" => settled = {} /\ viewportView = [t \in Targets |-> "out"])
    /\ BannerInit /\ (part # "banner" => storage = "works" /\ firstSeen = BannerNone)
    /\ EditorInit /\ (part # "editor" => motion)
    /\ LanguagesInit
    /\ ResourceInit /\ (part # "resources" => resourceShown.pages = 1)

DiagramsMoves == part = "diagrams" /\ Next /\ OthersRest
FilterMoves == part = "filter" /\ FilterNext /\ OthersRest
UnsavedMoves == part = "unsaved" /\ Unsaved!FilterNext /\ OthersRest
ResourcesMoves == part = "resources" /\ ResourceNext /\ OthersRest
GlossaryMoves == part = "glossary" /\ GlossaryNext /\ OthersRest
TouchedMoves == part = "touched" /\ Touched!GlossaryNext /\ OthersRest
SearchMoves == part = "search" /\ ApiNext /\ OthersRest
TourMoves == part = "tour" /\ TourNext /\ OthersRest
GeometryMoves == part = "geometry" /\ GeometryNext /\ OthersRest
PivotsMoves == part = "pivots" /\ PivotNext /\ OthersRest
FloatingMoves == part = "floating" /\ FloatingNext /\ OthersRest
ViewportMoves == part = "viewport" /\ ViewportNext /\ OthersRest
BannerMoves == part = "banner" /\ BannerNext /\ OthersRest
EditorMoves == part = "editor" /\ EditorNext /\ OthersRest
LanguagesMoves == part = "languages" /\ LanguagesNext /\ OthersRest

MCNext ==
    \/ DiagramsMoves \/ FilterMoves \/ UnsavedMoves \/ ResourcesMoves
    \/ GlossaryMoves \/ TouchedMoves \/ SearchMoves \/ TourMoves \/ GeometryMoves
    \/ PivotsMoves \/ FloatingMoves \/ ViewportMoves \/ BannerMoves \/ EditorMoves
    \/ LanguagesMoves

\* The fairness of each part, for the behaviours in which it moves.
MCFairness ==
    /\ WF_vars(part = "diagrams" /\ PageLoad)
    /\ WF_vars(part = "diagrams" /\ ThemeObserved)
    /\ \A w \in Workers : WF_vars(part = "diagrams" /\ Work(w))
    /\ KeepsClicking

mcVars == <<part, vars, filterVars, resourceVars, glossaryVars, apiVars, tourVars, geometryVars,
            pivotVars, floatingVars, viewportVars, bannerVars, editorVars, languagesVars>>

MCSpec == MCInit /\ [][MCNext]_mcVars /\ MCFairness

-----------------------------------------------------------------------------
\* No step undoes what the visitor did: a return keeps the history, a reset the
\* order, and a pinned card stays; and what was begun ends: the diagrams are drawn,
\* and a tour that is clicked through is over.
SiteProceeds ==
    /\ NothingStaleShown /\ (part = "diagrams" => ComesToRest)
    /\ TraversalKeepsHistory
    /\ TourEnds
    /\ [][/\ part = "resources" => OrderSurvivesReset
          /\ part = "glossary" => PinnedUntilClosed
          /\ part = "touched" => Touched!PinnedUntilClosed]_mcVars
=============================================================================
