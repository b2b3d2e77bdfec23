---------------------------- MODULE SiteStructure ---------------------------
(* What a page says of its place on the site: its structured data, its       *)
(* navigation.                                                               *)
EXTENDS Naturals, Sequences, FiniteSets, SequencesExt, FiniteSetsExt, Integers

-----------------------------------------------------------------------------

(***************************************************************************)
(* The schema.org data of a page (structured-data.ts): which graph a page  *)
(* carries, what its nodes refer to, and the questions and answers taken   *)
(* from the Markdown of the FAQ.                                           *)
(*                                                                         *)
(* An identifier is a pair: the site or the page it is derived from, and   *)
(* the fragment.  A node has a type, an identifier or NoId, and the        *)
(* identifiers it refers to; a release also has the version.  A line of    *)
(* the FAQ is its kind; the text of a line is its position.                *)
(***************************************************************************)

CONSTANTS Locales,
          Versions, \* what follows whats-new/aspire-, as sequences of numbers
          MaxLines

VARIABLES
  body,     \* the Markdown of the FAQ page, a line at a time
  dataPage, \* the page rendered last, or None
  graph,    \* the nodes of its structured data
  faq       \* its questions, when it is the FAQ

dataVars == <<body, dataPage, graph, faq>>

LineKinds == { "h2",     \* a heading with a title
               "h2bare", \* a heading whose title cleans to nothing
               "text",
               "markup", \* a line that cleans to nothing
               "blank", "fence", "more" }

DataNone == [content |-> "none"]

NoId == <<>>

SiteId(fragment) == <<DataNone, fragment>>

PageId(p, fragment) == <<p, fragment>>

Node(type, id, refs) == [type |-> type, id |-> id, refs |-> refs, version |-> <<>>]

(***************************************************************************)
(* The schemas.                                                            *)
(***************************************************************************)
Organization == Node("Organization", SiteId("org"), {})

SoftwareApplication(id) == Node("SoftwareApplication", id, {})

BuildHomePageSchema ==
  { Organization,
    Node("WebSite", SiteId("website"), {SiteId("org")}),
    [SoftwareApplication(SiteId("app")) EXCEPT !.refs = {SiteId("org")}],
    Node("SoftwareSourceCode", SiteId("source"), {SiteId("org"), SiteId("app")}) }

BuildCommunityPageSchema(p) ==
  {Organization, Node("WebPage", PageId(p, "webpage"), {SiteId("website"), SiteId("org")})}

BuildTechArticleNode(p) == Node("TechArticle", NoId, {})

BuildReleaseNotesSchema(p) ==
  { [BuildTechArticleNode(p) EXCEPT !.id = PageId(p, "article"), !.refs = {PageId(p, "release")}],
    [SoftwareApplication(PageId(p, "release")) EXCEPT !.version = p.version] }

BuildAspireConfSchema(p) == {Node("Event", NoId, {})}

(***************************************************************************)
(* The FAQ.                                                                *)
(***************************************************************************)
(* One answer: the positions of its lines, 0 for a blank line.             *)
Fences(lines, from, i) == Cardinality({k \in from..(i - 1) : lines[k] = "fence"})

TrimEnd(answer) == IF answer # <<>> /\ Last(answer) = 0 THEN Front(answer) ELSE answer

CleanFaqAnswer(lines, from, to) ==
  LET step(state, i) ==
        CASE lines[i] = "fence" -> [state EXCEPT !.inCodeBlock = ~@]
          [] lines[i] # "fence" /\ (state.inCodeBlock \/ lines[i] = "more") -> state
          [] lines[i] = "blank" /\ ~state.inCodeBlock ->
               [state EXCEPT !.kept = IF ~state.previousWasBlank /\ @ # <<>> THEN Append(@, 0) ELSE @,
                             !.previousWasBlank = TRUE]
          [] lines[i] = "text" /\ ~state.inCodeBlock ->
               [state EXCEPT !.kept = Append(@, i), !.previousWasBlank = FALSE]
          [] OTHER -> state
      start == [kept |-> <<>>, inCodeBlock |-> FALSE, previousWasBlank |-> FALSE]
  IN TrimEnd(FoldLeft(step, start, [k \in 1..(to - from + 1) |-> from + k - 1]).kept)

Headings(lines) == {i \in DOMAIN lines : lines[i] \in {"h2", "h2bare"}}

SectionEnd(lines, h) ==
  LET later == {i \in Headings(lines) : i > h} IN IF later = {} THEN Len(lines) ELSE Min(later) - 1

(* A question without an answer is left out.                               *)
ExtractFaqEntries(lines) ==
  LET answer(h) == CleanFaqAnswer(lines, h + 1, SectionEnd(lines, h))
      answered == {h \in Headings(lines) : lines[h] = "h2" /\ answer(h) # <<>>}
      order == SetToSortSeq(answered, <)
  IN [k \in DOMAIN order |-> [question |-> order[k], answer |-> answer(order[k])]]

(***************************************************************************)
(* Which page gets which.                                                  *)
(***************************************************************************)
Contents == {"404", "index", "community", "get-started/faq", "aspireconf", "whats-new", "article"}

Pages ==
  {p \in [content : Contents, locale : Locales, version : Versions \cup {<<>>}] :
     p.version # <<>> => p.content = "whats-new"}

(* whats-new/aspire- with nothing after it is an ordinary article.         *)
GetReleaseVersion(p) == IF p.content = "whats-new" THEN p.version ELSE <<>>

BuildFaqPageSchema(p, lines) ==
  IF ExtractFaqEntries(lines) = <<>> THEN {} ELSE {Node("FAQPage", NoId, {})}

BuildStructuredData(p, lines) ==
  CASE p.content = "404" -> {}
    [] p.content = "index" -> BuildHomePageSchema
    [] p.content = "community" -> BuildCommunityPageSchema(p)
    [] p.content = "get-started/faq" ->
         IF BuildFaqPageSchema(p, lines) # {} THEN BuildFaqPageSchema(p, lines) ELSE {BuildTechArticleNode(p)}
    [] p.content = "aspireconf" -> BuildAspireConfSchema(p)
    [] OTHER -> IF GetReleaseVersion(p) # <<>> THEN BuildReleaseNotesSchema(p) ELSE {BuildTechArticleNode(p)}

DataInit == body = <<>> /\ dataPage = DataNone /\ graph = {} /\ faq = <<>>

(* The author of the FAQ writes one more line.  A heading inside a fence   *)
(* is not a heading, and the page has none.                                *)
Write ==
  \E kind \in LineKinds :
    /\ dataPage = DataNone /\ Len(body) < MaxLines
    /\ kind \in {"h2", "h2bare"} => Fences(body, 1, Len(body) + 1) % 2 = 0
    /\ body' = Append(body, kind)
    /\ UNCHANGED <<dataPage, graph, faq>>

DataRender ==
  \E p \in Pages :
    /\ dataPage' = p
    /\ graph' = BuildStructuredData(p, body)
    /\ faq' = IF p.content = "get-started/faq" THEN ExtractFaqEntries(body) ELSE <<>>
    /\ UNCHANGED body

DataNext == Write \/ DataRender

DataSpec == DataInit /\ [][DataNext]_dataVars

(* A page that exists has data, and a graph names a node at most once.     *)
DataTypeOK ==
  /\ dataPage \in Pages \cup {DataNone}
  /\ (dataPage # DataNone /\ dataPage.content # "404") => graph # {}
  /\ \A m, n \in graph : (m.id = n.id /\ m.id # NoId) => m = n

(* What a node refers to is described, on this page or on the home page,   *)
(* whatever the page's locale.                                             *)
RefsResolve ==
  \A n \in graph : \A id \in n.refs : \E m \in graph \cup BuildHomePageSchema : m.id = id

(* The questions are the headings that have a title and an answer, in the  *)
(* order of the page; an answer has the text of its own section only, and  *)
(* nothing of a code block or of the links below it.                       *)
DataVisible(i) == body[i] = "text" /\ Fences(body, 1, i) % 2 = 0

Owner(i) == LET before == {h \in Headings(body) : h < i} IN IF before = {} THEN 0 ELSE Max(before)

AnswersAreTheSections ==
  (dataPage # DataNone /\ dataPage.content = "get-started/faq") =>
    /\ \A k \in DOMAIN faq :
         {i \in ToSet(faq[k].answer) : i # 0} = {i \in DOMAIN body : DataVisible(i) /\ Owner(i) = faq[k].question}
    /\ {faq[k].question : k \in DOMAIN faq}
         = {h \in DOMAIN body : body[h] = "h2" /\ \E i \in DOMAIN body : DataVisible(i) /\ Owner(i) = h}
    /\ \A j, k \in DOMAIN faq : j < k => faq[j].question < faq[k].question

(* Paragraphs stay apart: two lines of an answer have a blank between them *)
(* exactly when the page has one outside its code, and an answer neither   *)
(* begins nor ends with a blank.                                           *)
ParagraphsKept ==
  \A k \in DOMAIN faq :
    LET a == faq[k].answer
    IN /\ a[1] # 0 /\ a[Len(a)] # 0
       /\ \A i \in 1..(Len(a) - 1) :
            /\ a[i + 1] = 0 =>
                 /\ a[i] # 0
                 /\ \E b \in a[i]..a[i + 2] : body[b] = "blank" /\ Fences(body, 1, b) % 2 = 0
            /\ (a[i] # 0 /\ a[i + 1] # 0) =>
                 /\ a[i] < a[i + 1]
                 /\ \A b \in a[i]..a[i + 1] : body[b] = "blank" => Fences(body, 1, b) % 2 = 1

-----------------------------------------------------------------------------

(***************************************************************************)
(* What a documentation page shows of the site around it: the sidebar of   *)
(* its topic, the links to the previous and the next page, the language    *)
(* alternates, the breadcrumbs and the topic on its social card.  All of   *)
(* them are computed from the topics of config/sidebar/ by three pieces of *)
(* code that walk the same tree on their own: route-data-middleware.ts,    *)
(* content-breadcrumbs.ts and topic-resolver.ts.                           *)
(*                                                                         *)
(* A path is the sequence of its segments.  A sidebar entry is a link (no  *)
(* items) or a group (no path) of links; the real trees are at most one    *)
(* level deeper.  The tree is put together one entry at a time, then one   *)
(* page is visited.                                                        *)
(***************************************************************************)

CONSTANTS
    NavigationLinks,   \* the links of the topics, in order
    NavigationPaths,   \* the paths of the pages
    Locale,            \* a locale other than the default one
    Configs,           \* what the frontmatter of a page may say of prev and next
    MaxEntries,        \* bounds, per topic: its top-level entries
    NavigationMaxItems \*                    and the links of a group

VARIABLES
    topics, \* per topic, the entries of its sidebar
    view    \* what the visited page shows, None before the visit

navigationVars == <<topics, view>>

NavigationNone == [shown |-> FALSE]

NavigationNoLink == <<"none">>

Elsewhere == <<"elsewhere">>          \* the link of a frontmatter override

Link(p) == [path |-> p, items |-> <<>>]

NavigationGroup(links) == [path |-> <<>>, items |-> links]

IsGroup(e) == e.items # <<>>

(* The pages there are: everything exists in every locale (Starlight falls *)
(* back to English) but for the routes generated in the default one only.  *)
IsApiReferencePath(p) == Len(p) >= 2 /\ p[1] = "reference" /\ p[2] = "api"

IsDefaultLocaleOnlyPath(p) ==
    \/ p # <<>> /\ p[1] = "hub"
    \/ IsApiReferencePath(p)
    \/ Len(p) = 3 /\ p[1] = "reference" /\ p[2] = "samples"

StripLocale(p) == IF p # <<>> /\ p[1] = Locale THEN Tail(p) ELSE p

NavigationExists(p) == p[1] = Locale => ~IsDefaultLocaleOnlyPath(Tail(p))

NavigationIn(locale, p) == IF locale = "root" THEN p ELSE <<locale>> \o p

(* Starlight's side: the links of a tree in order, and the neighbours of   *)
(* the current page among them.                                            *)
Flat(entries) == FlattenSeq([i \in DOMAIN entries |->
    IF IsGroup(entries[i]) THEN [j \in DOMAIN entries[i].items |-> entries[i].items[j].path]
                           ELSE <<entries[i].path>>])

IndexIn(flat, p) == SelectInSeq(flat, LAMBDA q : q = p)

\* The topic whose sidebar a page gets: the first that lists it.
TopicOf(p) ==
    LET listed == SelectInSeq(topics, LAMBDA t : p \in ToSet(Flat(t)))
    IN  IF listed = 0 THEN 1 ELSE listed

Localized(entries, locale) == [i \in DOMAIN entries |->
    IF IsGroup(entries[i])
    THEN NavigationGroup([j \in DOMAIN entries[i].items |-> Link(NavigationIn(locale, entries[i].items[j].path))])
    ELSE Link(NavigationIn(locale, entries[i].path))]

Neighbours(entries, p) ==
    LET flat == Flat(entries)
        i == IndexIn(flat, p)
    IN  [prev |-> IF i <= 1 THEN NavigationNoLink ELSE flat[i - 1],
         next |-> IF i = 0 \/ i = Len(flat) THEN NavigationNoLink ELSE flat[i + 1]]

CanonicalHref(p) ==
    LET stripped == StripLocale(p)
    IN  IF IsDefaultLocaleOnlyPath(stripped) THEN stripped ELSE p

CanonicalizeLinks(entries) == [i \in DOMAIN entries |->
    IF IsGroup(entries[i])
    THEN NavigationGroup([j \in DOMAIN entries[i].items |-> Link(CanonicalHref(entries[i].items[j].path))])
    ELSE Link(CanonicalHref(entries[i].path))]

\* The siblings of the current page and its index among them.
FindCurrentPage(entries, p) ==
    LET i == SelectInSeq(entries, LAMBDA e :
                 IF IsGroup(e) THEN Link(p) \in ToSet(e.items) ELSE e.path = p)
    IN  IF i = 0 THEN [siblings |-> <<>>, index |-> 0]
        ELSE IF IsGroup(entries[i])
        THEN [siblings |-> entries[i].items, index |-> SelectInSeq(entries[i].items, LAMBDA e : e.path = p)]
        ELSE [siblings |-> entries, index |-> i]

\* Broken: the group boundary is only looked at on one side.
PaginateUnbounded(entries, p, splash, pagination, config) ==
    LET at == FindCurrentPage(entries, p)
        beside(i) == i \in DOMAIN at.siblings /\ ~IsGroup(at.siblings[i])
        side(s, i) == CASE config[s] = "off" -> NavigationNoLink
                        [] config[s] = "link" -> Elsewhere
                        [] OTHER -> IF splash \/ (s = "prev" /\ at.index # 0 /\ ~beside(i)) THEN NavigationNoLink
                                    ELSE pagination[s]
    IN  [prev |-> side("prev", at.index - 1), next |-> side("next", at.index + 1)]

\* Steps 1 to 3: group boundary, splash page, frontmatter.
Paginate(entries, p, splash, pagination, config) ==
    LET at == FindCurrentPage(entries, p)
        beside(i) == i \in DOMAIN at.siblings /\ ~IsGroup(at.siblings[i])
        side(s, i) == CASE config[s] = "off" -> NavigationNoLink
                        [] config[s] = "link" -> Elsewhere
                        [] OTHER -> IF splash \/ (at.index # 0 /\ ~beside(i)) THEN NavigationNoLink
                                    ELSE pagination[s]
    IN  [prev |-> side("prev", at.index - 1), next |-> side("next", at.index + 1)]

\* Set the entry of a property in the head, or add one.
Upsert(head, property, content) ==
    LET i == SelectInSeq(head, LAMBDA h : h.property = property)
        entry == [property |-> property, content |-> content]
    IN  IF i = 0 THEN Append(head, entry) ELSE [head EXCEPT ![i] = entry]

RemoveHreflangAlternates(head) == SelectSeq(head, LAMBDA h : h.property # "alternate")

OnRequest(route) ==
    LET head == IF IsDefaultLocaleOnlyPath(route.url)
                THEN RemoveHreflangAlternates(route.head) ELSE route.head
        sidebar == CanonicalizeLinks(route.sidebar)
    IN  [route EXCEPT
            !.head = Upsert(Upsert(head, "og:title", "ours"), "og:type", "ours"),
            !.sidebar = sidebar,
            \* The current entry is marked, not looked up by its href, and
            \* pagination holds entries of the sidebar, rewritten in place.
            !.pagination = Paginate(sidebar, CanonicalHref(route.url), route.splash,
                [s \in {"prev", "next"} |-> CanonicalHref(route.pagination[s])], route.config)]

(* content-breadcrumbs.ts *)
NotListed == <<>>

FindPath(items, slug) ==
    LET i == SelectInSeq(items, LAMBDA e :
                 IF IsGroup(e) THEN Link(slug) \in ToSet(e.items) ELSE e.path = slug)
    IN  IF i = 0 THEN NotListed
        ELSE IF IsGroup(items[i]) THEN <<items[i], Link(slug)>> ELSE <<items[i]>>

IsOverview(e) == e.path # <<>> /\ e.path[Len(e.path)] = "overview"

CollapseOverviewPath(path) ==
    IF Len(path) >= 2 /\ IsOverview(path[Len(path)]) /\ IsGroup(path[Len(path) - 1])
    THEN Front(path) ELSE path

ResolveAncestorHref(e, locale) ==
    LET overview == SelectSeq(e.items, IsOverview)
    IN  IF e.path # <<>> THEN NavigationIn(locale, e.path)
        ELSE IF overview # <<>> THEN NavigationIn(locale, overview[1].path)
        ELSE NavigationNoLink

\* The hrefs of the breadcrumbs of a page; NotListed when it has none.
ContentBreadcrumbs(slug, locale) ==
    LET t == SelectInSeq([i \in DOMAIN topics |-> i], LAMBDA i :
                 NavigationLinks[i] = slug \/ FindPath(topics[i], slug) # NotListed)
        path == CollapseOverviewPath(FindPath(topics[t], slug))
    IN  IF IsApiReferencePath(slug) \/ t = 0 THEN NotListed
        ELSE IF NavigationLinks[t] = slug THEN NotListed
        ELSE <<NavigationIn(locale, NavigationLinks[t])>> \o
             [i \in DOMAIN path |-> IF i = Len(path) THEN NavigationNoLink ELSE ResolveAncestorHref(path[i], locale)]

(* topic-resolver.ts *)
\* A link without the overview at its end.
NormalizeTopicLink(p) == IF p[Len(p)] = "overview" THEN Front(p) ELSE p

Under(p, q) == IsPrefix(q, p)

TopicMatches(i, slug) ==
    \/ Under(slug, NormalizeTopicLink(NavigationLinks[i]))
    \/ \E q \in ToSet(Flat(topics[i])) : Under(slug, NormalizeTopicLink(q))

\* The topic on the card of a page; 0 for the fallback.
TopicForEntry(slug) ==
    SelectInSeq([i \in DOMAIN topics |-> i], LAMBDA i : TopicMatches(i, slug))

NavigationInit ==
    /\ topics = [i \in DOMAIN NavigationLinks |-> <<>>]
    /\ view = NavigationNone

AddLink(i, p) ==
    /\ view = NavigationNone
    /\ Len(topics[i]) < MaxEntries[i]
    /\ topics' = [topics EXCEPT ![i] = Append(@, Link(p))]
    /\ UNCHANGED view

AddGroup(i, p) ==
    /\ view = NavigationNone
    /\ NavigationMaxItems[i] > 0
    /\ Len(topics[i]) < MaxEntries[i]
    /\ topics' = [topics EXCEPT ![i] = Append(@, NavigationGroup(<<Link(p)>>))]
    /\ UNCHANGED view

AddToGroup(i, p) ==
    /\ view = NavigationNone
    /\ topics[i] # <<>>
    /\ LET n == Len(topics[i]) IN
        /\ IsGroup(topics[i][n])
        /\ Len(topics[i][n].items) < NavigationMaxItems[i]
        /\ topics' = [topics EXCEPT ![i][n].items = Append(@, Link(p))]
    /\ UNCHANGED view

StarlightHead(locale) ==
    <<[property |-> "alternate", content |-> NavigationIn(Locale, <<>>)],
      [property |-> "og:title", content |-> "theirs"]>>

\* The route Starlight hands to the middleware.
StarlightRoute(p, locale, splash, config) ==
    [url |-> NavigationIn(locale, p),
     head |-> StarlightHead(locale),
     sidebar |-> Localized(topics[TopicOf(p)], locale),
     pagination |-> Neighbours(Localized(topics[TopicOf(p)], locale), NavigationIn(locale, p)),
     splash |-> splash,
     config |-> config]

\* A page is rendered: the middleware, the breadcrumbs and the card.  The
\* slug of a translated page may or may not hold its locale.
Visit(p, locale, splash, config) ==
    /\ view = NavigationNone
    /\ locale = "root" \/ ~IsDefaultLocaleOnlyPath(p)
    /\ LET route == OnRequest(StarlightRoute(p, locale, splash, config)) IN
       \E slug \in {p, NavigationIn(locale, p)} :
        view' = [shown |-> TRUE, page |-> p, locale |-> locale,
                 route |-> route,
                 again |-> OnRequest(route),
                 crumbs |-> ContentBreadcrumbs(slug, locale),
                 card |-> TopicForEntry(p)]
    /\ UNCHANGED topics

NavigationNext ==
    \/ \E i \in DOMAIN NavigationLinks, p \in NavigationPaths : AddLink(i, p) \/ AddGroup(i, p) \/ AddToGroup(i, p)
    \/ \E p \in NavigationPaths \cup ToSet(NavigationLinks), locale \in {"root", Locale}, splash \in BOOLEAN, config \in Configs :
        Visit(p, locale, splash, config)

NavigationSpec == NavigationInit /\ [][NavigationNext]_navigationVars

(* Every topic keeps the shape of a sidebar, and what a page shows is made *)
(* of links (SidebarEntry, pagination, BreadcrumbItem).                    *)
NavigationTypeOK ==
    /\ \A i \in DOMAIN topics : \A e \in ToSet(topics[i]) :
        IF IsGroup(e) THEN e.path = <<>> ELSE e.path \in NavigationPaths
    /\ view.shown =>
        /\ view.card \in 0..Len(NavigationLinks)
        /\ \A s \in {"prev", "next"} : view.route.pagination[s] # <<>>
        /\ Len(view.crumbs) # 1

Ordinary == view.shown /\ ~view.route.splash

\* The pages right before and right after p in its own group.
Beside(entries, p) ==
    LET runs == {entries} \cup {e.items : e \in {e \in ToSet(entries) : IsGroup(e)}}
        around(k) == UNION {{r[j + k].path : j \in {j \in DOMAIN r : r[j].path = p /\ j + k \in DOMAIN r}} : r \in runs}
    IN  [prev |-> around(-1), next |-> around(1)]

(* "Within each topic's sidebar, pages only navigate to immediately        *)
(* adjacent link siblings in the same parent group": a page whose          *)
(* frontmatter says nothing shows the neighbour in its own group, in the   *)
(* sidebar the reader sees, and no other page.  Starlight computed the     *)
(* pagination from the flattened tree, where the neighbour may be in       *)
(* another group (onRequest, step 1).                                      *)
StaysInGroup ==
    Ordinary =>
        LET sidebar == view.route.sidebar
            p == CanonicalHref(view.route.url)
            once == Cardinality({i \in DOMAIN Flat(sidebar) : Flat(sidebar)[i] = p}) = 1
        IN  once => \A s \in {"prev", "next"} :
                view.route.config[s] = "unset" =>
                    {view.route.pagination[s]} \ {NavigationNoLink} = Beside(sidebar, p)[s] \ {<<>>}

(* Nothing a page shows leads to a page that was not built: not the        *)
(* sidebar in another locale, which Starlight prefixes with it, nor the    *)
(* language alternates, nor the breadcrumbs; and no crumb links the page   *)
(* it is on (canonicalizeApiReferenceLinks, removeHreflangAlternates,      *)
(* resolveAncestorHref, collapseOverviewPath).                             *)
LinksLead ==
    view.shown =>
        /\ \A p \in ToSet(Flat(view.route.sidebar)) : NavigationExists(p)
        /\ \A s \in {"prev", "next"} : NavigationExists(view.route.pagination[s])
        /\ IsDefaultLocaleOnlyPath(view.page) =>
            \A h \in ToSet(view.route.head) : h.property # "alternate"
        /\ \A p \in ToSet(view.crumbs) \ {NavigationNoLink} :
            NavigationExists(p) /\ p # NavigationIn(view.locale, view.page)

(* "Idempotent: callers can invoke it more than once per request without   *)
(* accumulating duplicate entries": a second run of the middleware on its  *)
(* own result changes nothing (optimizeOpenGraphHead and the rest of       *)
(* onRequest).                                                             *)
Idempotent == view.shown => view.again = view.route

\* No topic lists a page that another one's sidebar is about.
Disjoint == \A i, j \in DOMAIN topics : i # j =>
    \A p \in ToSet(Flat(topics[i])) \cup {NavigationLinks[i]} :
        \A q \in ToSet(Flat(topics[j])) \cup {NavigationLinks[j]} :
            ~Under(p, NormalizeTopicLink(q))

(* The badge on a page's social card is the topic its breadcrumbs start    *)
(* with, whenever no topic's pages lie below those of another: the two     *)
(* walk the configuration on their own, one by prefix and one exactly      *)
(* (getTopicForEntry "walks the sidebar topic configuration the same way   *)
(* content-breadcrumbs.ts does").                                          *)
BadgeIsCrumbTopic ==
    view.shown /\ Disjoint /\ view.crumbs # NotListed =>
        view.card # 0 /\ view.crumbs[1] = NavigationIn(view.locale, NavigationLinks[view.card])
=============================================================================
