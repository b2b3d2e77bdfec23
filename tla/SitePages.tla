------------------------------ MODULE SitePages -----------------------------
(* The filters that pages keep in their address, and the browser of        *)
(* resources.                                                              *)
EXTENDS Integers, Sequences, FiniteSets, SequencesExt

-----------------------------------------------------------------------------

(***************************************************************************)
(* How the filters of the resource browser, the glossary and the featured  *)
(* samples are kept in the address of the page (filter-history.ts): a      *)
(* typed query replaces the address in place, a chosen filter navigates to *)
(* a new entry with Astro's router, and going back or forward restores the *)
(* filters of the entry.                                                   *)
(*                                                                         *)
(* The router is external.  A navigation fetches its page, then lands: the *)
(* document is swapped, the address follows and the events of the swap are *)
(* handled, without a break.  A navigation aborts the one still fetching.  *)
(* An address is its page, the query parameters the filters do not own     *)
(* (extra) and those they do (query).                                      *)
(***************************************************************************)

CONSTANTS
    Queries,            \* what the filters can show
    Stale,              \* queries of old links: a filter that is gone
    Extras,             \* values of the parameters the filters do not own
    First,              \* the history the visit starts with
    RestoreSaves,       \* whether a restored query is written back normalised
    MaxActs, MaxEntries \* bounds: what the visitor does, the history

VARIABLES
    history,        \* [entries, index]: the entries of the tab
    filterDocument, \* the page shown: [page, extra]
    element,        \* the filter element of the page and its closure
    router,         \* [fetching, loading]: the navigation under way, page-load due
    acts,           \* what the visitor has done so far
    wanted          \* the query the visitor asked for last

filterVars == <<history, filterDocument, element, router, acts, wanted>>

NoNavigation == [kind |-> "none"]

Address(page, extra, query) == [page |-> page, extra |-> extra, query |-> query]

Browse(extra, query) == Address("browse", extra, query)

Other(extra) == Address("other", extra, "none")

FilterUrls ==
    {Browse(extra, query) : extra \in Extras, query \in Queries \union Stale}
        \union {Other(extra) : extra \in Extras}

(* The entry of a history knows whether the filters own it.                *)
FilterEntries == [url : FilterUrls, owned : BOOLEAN]

FilterHistories ==
    {h \in [entries : Seq(FilterEntries), index : Nat] : h.index \in 1 .. Len(h.entries)}

(* Unset filters are a query of their own, and a visit starts with a page  *)
(* of the site, in a tab whose entries no filter owns yet.                 *)
ASSUME FilterAssumption ==
    /\ "all" \in Queries /\ Queries \intersect Stale = {}
    /\ RestoreSaves \in BOOLEAN /\ MaxActs \in Nat /\ MaxEntries \in Nat
    /\ First \subseteq FilterHistories
    /\ \A first \in First : \A i \in DOMAIN first.entries : ~first.entries[i].owned

(* readBrowseState: a filter that is gone is dropped.                      *)
Read(query) == IF query \in Stale THEN "all" ELSE query

Here(h) == h.entries[h.index]

Location(h) == Here(h).url

(* The closure of createFilterHistory.  s is the state it works on.        *)
State == [history |-> history, element |-> element, fetching |-> router.fetching]

MarkEntry(s) ==
    [s EXCEPT !.history.entries[s.history.index].owned = TRUE]

(* navigate(): what was still fetching is aborted.                         *)
Navigate(s, navigation) == [s EXCEPT !.fetching = navigation]

ReplaceState(s, url) ==
    [s EXCEPT !.history.entries[s.history.index].url = url]

FilterRequest(s, url, replace) ==
    LET current == s.element.revision + 1 IN
    Navigate([s EXCEPT !.element.pending = TRUE,
                       !.element.revision = current,
                       !.element.waiting = @ \union {current}],
             [kind |-> IF replace THEN "replace" ELSE "push", to |-> url,
              info |-> TRUE, revision |-> current])

Write(s, replace) ==
    LET url == [Location(s.history) EXCEPT !.query = s.element.view] IN
    IF ~s.element.live \/ Location(s.history).page # "browse" THEN s
    ELSE IF url = Location(s.history) /\ ~s.element.pending THEN MarkEntry(s)
    ELSE IF replace /\ ~s.element.pending THEN ReplaceState(MarkEntry(s), url)
    ELSE FilterRequest(MarkEntry(s), url, replace)

Restore(s) ==
    LET shown == [s EXCEPT !.element.view = Read(Location(s.history).query)] IN
    IF RestoreSaves THEN Write(shown, TRUE) ELSE shown

RestoreCurrent(s) ==
    IF ~s.element.live \/ Location(s.history).page # "browse" THEN s
    ELSE Restore(MarkEntry(s))

IsFilterNavigation(from, to) == from.page = to.page /\ from.extra = to.extra

(* astro:before-swap: the document is kept.                                *)
IsLocalSwap(s, from, navigation) ==
    /\ s.element.live
    /\ navigation.info \/ (navigation.kind = "traverse" /\ Here(s.history).owned)
    /\ navigation.to.page = "browse"
    /\ IsFilterNavigation(from, navigation.to)

(* moveToLocation of the router: the address follows the document, unless  *)
(* the browser has moved already (a traversal) or it is there.             *)
MoveToLocation(s, navigation) ==
    LET h == s.history
        entry == [url |-> navigation.to, owned |-> navigation.info]
    IN IF navigation.kind = "traverse" \/ navigation.to = Location(h) THEN s
       ELSE IF navigation.kind = "replace"
       THEN [s EXCEPT !.history.entries[h.index] = entry]
       ELSE [s EXCEPT !.history = [entries |-> Append(SubSeq(h.entries, 1, h.index), entry),
                                   index |-> h.index + 1]]

NewElement(live) ==
    [live |-> live, view |-> "all", pending |-> FALSE, revision |-> 0,
     waiting |-> {}, restored |-> FALSE]

(* astro:after-swap.                                                       *)
AfterSwap(s, local, navigation) ==
    LET noted == [s EXCEPT !.element.restored = s.element.live] IN
    IF local /\ navigation.kind # "traverse" THEN MarkEntry(noted)
    ELSE RestoreCurrent(noted)

(* The first page of the visit: its element is connected outside a swap    *)
(* and restores at once (initialize).                                      *)
FilterInit ==
    \E first \in First :
       LET s == RestoreCurrent([history |-> first, fetching |-> NoNavigation,
                                element |-> NewElement(Location(first).page = "browse")])
       IN /\ history = s.history
          /\ filterDocument = [page |-> Location(first).page, extra |-> Location(first).extra]
          /\ element = s.element
          /\ router = [fetching |-> NoNavigation, loading |-> FALSE]
          /\ acts = 0
          /\ wanted = Read(Location(first).query)

FilterBecome(s, loading) ==
    /\ history' = s.history
    /\ element' = s.element
    /\ router' = [fetching |-> s.fetching, loading |-> loading]

Act == acts < MaxActs /\ acts' = acts + 1

(* The visitor changes the filters: typing replaces, choosing adds.  It is *)
(* lost when the page is being left for another one.                       *)
Choose(view, replace) ==
    /\ Act
    /\ element.live
    /\ view # element.view
    /\ replace \/ history.index < MaxEntries
    /\ FilterBecome(Write([State EXCEPT !.element.view = view], replace), router.loading)
    /\ wanted' = IF Location(history).page = "browse" THEN view ELSE wanted
    /\ UNCHANGED filterDocument

(* Back or forward: the browser moves at once, the router fetches the page. *)
Traverse(index) ==
    /\ Act
    /\ index # history.index
    /\ history' = [history EXCEPT !.index = index]
    /\ router' = [router EXCEPT !.fetching =
           [kind |-> "traverse", to |-> history.entries[index].url,
            info |-> FALSE, revision |-> 0]]
    /\ wanted' = Read(history.entries[index].url.query)
    /\ UNCHANGED <<filterDocument, element>>

(* A link of the page to any page of the site.                             *)
Follow(url) ==
    /\ Act
    /\ history.index < MaxEntries
    /\ router' = [router EXCEPT !.fetching =
           [kind |-> "push", to |-> url, info |-> FALSE, revision |-> 0]]
    /\ UNCHANGED <<history, filterDocument, element, wanted>>

(* The page has arrived.  The element of a page that is replaced is        *)
(* disconnected, and the new one is connected during the swap, or by a     *)
(* script that is loaded after it.                                         *)
Land ==
    LET navigation == router.fetching
        from == [page |-> filterDocument.page, extra |-> filterDocument.extra]
    IN /\ navigation # NoNavigation
       /\ LET s == [State EXCEPT !.fetching = NoNavigation]
              local == IsLocalSwap(s, from, navigation)
          IN IF local
             THEN /\ FilterBecome(AfterSwap(MoveToLocation(s, navigation), TRUE, navigation), TRUE)
                  /\ UNCHANGED filterDocument
             ELSE \E live \in IF navigation.to.page = "browse" THEN BOOLEAN ELSE {FALSE} :
                    /\ FilterBecome(AfterSwap([MoveToLocation(s, navigation)
                                           EXCEPT !.element = NewElement(live)],
                                              FALSE, navigation), TRUE)
                    /\ filterDocument' = [page |-> navigation.to.page, extra |-> navigation.to.extra]
       /\ wanted' = IF navigation.kind = "push" /\ ~navigation.info
                    THEN Read(navigation.to.query) ELSE wanted
       /\ UNCHANGED acts

(* astro:page-load, after the scripts of the page have run.                *)
FilterPageLoad ==
    /\ router.loading
    /\ LET live == filterDocument.page = "browse"
           s == [State EXCEPT !.element.live = live]
           restored == IF s.element.restored THEN s ELSE RestoreCurrent(s)
       IN FilterBecome([restored EXCEPT !.element.restored = FALSE], FALSE)
    /\ UNCHANGED <<filterDocument, acts, wanted>>

\* Broken: any navigation that ends clears the flag.
SettleAny(revision) ==
    /\ revision \in element.waiting
    /\ router.fetching # NoNavigation => router.fetching.revision # revision
    /\ element' = [element EXCEPT !.waiting = @ \ {revision}, !.pending = FALSE]
    /\ UNCHANGED <<history, filterDocument, router, acts, wanted>>

(* navigate().finally: the navigation has landed or was aborted.           *)
Settle(revision) ==
    /\ revision \in element.waiting
    /\ router.fetching # NoNavigation => router.fetching.revision # revision
    /\ element' = [element EXCEPT !.waiting = @ \ {revision},
                                  !.pending = @ /\ revision # element.revision]
    /\ UNCHANGED <<history, filterDocument, router, acts, wanted>>

FilterNext ==
    \/ \E view \in Queries, replace \in BOOLEAN : Choose(view, replace)
    \/ \E index \in DOMAIN history.entries : Traverse(index)
    \/ \E extra \in Extras, query \in Queries \union Stale : Follow(Browse(extra, query))
    \/ \E extra \in Extras : Follow(Other(extra))
    \/ Land
    \/ FilterPageLoad
    \/ \E revision \in element.waiting : Settle(revision)

SafeSpec == FilterInit /\ [][FilterNext]_filterVars

(* Fetches answer, the scripts of a page run, and promises are settled.    *)
FilterFairness ==
    /\ WF_filterVars(Land)
    /\ WF_filterVars(FilterPageLoad)
    /\ WF_filterVars(\E revision \in element.waiting : Settle(revision))

FilterSpec == SafeSpec /\ FilterFairness

FilterTypeOK ==
    /\ history \in FilterHistories
    /\ element.view \in Queries
    /\ element.live /\ ~router.loading => filterDocument.page = "browse"
    /\ element.waiting \subseteq 1 .. element.revision
    /\ router.loading \in BOOLEAN
    /\ acts \in 0 .. MaxActs

Quiet == router = [fetching |-> NoNavigation, loading |-> FALSE]

(* Once nothing is under way, the filters show what the address says, and  *)
(* the entry is known as theirs, however choices, typing, traversals and   *)
(* links were interleaved (write, restoreCurrent, the swap handlers).      *)
AddressShowsFilters ==
    Quiet /\ element.live =>
       /\ Read(Location(history).query) = element.view
       /\ Here(history).owned

(* Once nothing is under way, the document is the one of the address: a    *)
(* swap is left out only when the two pages differ in their filters alone. *)
DocumentOfAddress ==
    Quiet => filterDocument = [page |-> Location(history).page, extra |-> Location(history).extra]

(* The address of another page is never written to or marked, also while   *)
(* going back to it (the check of location.pathname in write and           *)
(* restoreCurrent).                                                        *)
OtherPagesUntouched ==
    \A i \in DOMAIN history.entries :
       history.entries[i].url.page = "other" =>
          history.entries[i] = [url |-> Other(history.entries[i].url.extra), owned |-> FALSE]

(* What is shown in the end is what the visitor asked for last: a choice   *)
(* replaces the one still under way, and so does going back.               *)
LastWishShown ==
    Quiet /\ filterDocument.page = "browse" => Read(Location(history).query) = wanted

(* Filters, address, document and wish agree, whatever overtook what       *)
(* (filter-history.ts with the navigations of the router).                 *)
FilterSafe ==
    /\ FilterTypeOK
    /\ AddressShowsFilters /\ DocumentOfAddress /\ OtherPagesUntouched /\ LastWishShown

(* Going back and forward loses no entry and leaves those that are not the *)
(* current one alone, and what a restored page writes of its own accord    *)
(* never adds an entry: "without adding a history entry" in restore.       *)
TraversalKeepsHistory ==
    [][acts' = acts =>
         /\ router.fetching # NoNavigation /\ router.fetching.kind = "traverse" =>
              /\ Len(history'.entries) = Len(history.entries)
              /\ \A i \in DOMAIN history.entries \ {history.index} :
                   history'.entries[i] = history.entries[i]
         /\ router'.fetching \notin {router.fetching, NoNavigation} =>
              router'.fetching.kind = "replace"]_filterVars

-----------------------------------------------------------------------------

(***************************************************************************)
(* The search over the resources of the hub (resource-search.ts) and the   *)
(* page that shows it (ResourceBrowser.ts): a query, facets, two sort      *)
(* orders and pages, all of them in the address too.                       *)
(*                                                                         *)
(* A query is the set of its words and whether it is padded with spaces; a *)
(* text is the set of words found in it; titles are their rank in the      *)
(* order of titles.  The history of the tab is the subject of the first    *)
(* part: here the address follows at once.                                 *)
(***************************************************************************)

CONSTANTS
    Resources,      \* [id, text, type, topic, language, date, title]
    Words,          \* the words a visitor types
    Arrivals,       \* the addresses the page is reached by
    RESOURCE_PAGE_SIZE,
    ResourceMaxActs \* bound: what the visitor does

FacetNames == {"type", "topic", "language"}

Absent == "absent"

ResourceQueries == [words : SUBSET Words, padded : BOOLEAN]

(* Every resource has an id of its own, and an address is text.            *)
ASSUME ResourcesAssumption ==
    /\ IsFiniteSet(Resources) /\ RESOURCE_PAGE_SIZE \in Nat \ {0} /\ ResourceMaxActs \in Nat
    /\ \A a \in Resources : a.date \in Nat /\ a.title \in Int /\ a.id \in Int
    /\ \A a, b \in Resources : a.id = b.id => a = b
    /\ Arrivals \subseteq [q : ResourceQueries, facets : [FacetNames -> SUBSET STRING], sort : STRING,
                          title : STRING, page : Nat, provider : STRING, extra : STRING]

VARIABLES
    resourceState, \* the search: BrowseState
    resourceUrl,   \* the query parameters of the address
    resourceShown, \* what the page shows of it
    resourceActs

resourceVars == <<resourceState, resourceUrl, resourceShown, resourceActs>>

(* The values an entry has for a facet.                                    *)
Values(entry, name) == IF name = "type" THEN {entry.type} ELSE entry[name]

ResourceFacets == [name \in FacetNames |-> UNION {Values(entry, name) : entry \in Resources}]

(* The address.  Absent stands for a parameter that is not there.          *)
Trim(q) == [q EXCEPT !.padded = FALSE]

NoQuery == [words |-> {}, padded |-> FALSE]

HasQuery(s) == s.q.words # {}

ReadBrowseState(params) ==
    [q |-> params.q,
     facets |-> [name \in FacetNames |-> params.facets[name] \intersect ResourceFacets[name]],
     sort |-> IF params.sort = "oldest" THEN "oldest" ELSE "newest",
     titleSort |-> IF \/ params.title = "desc"
                      \/ params.title = Absent /\ params.sort = "title-desc"
                   THEN "desc" ELSE "asc",
     page |-> IF params.page \in Nat \ {0} THEN params.page ELSE 1]

NoParameters ==
    [q |-> NoQuery, facets |-> [name \in FacetNames |-> {}], sort |-> Absent,
     title |-> Absent, page |-> 0, provider |-> Absent, extra |-> Absent]

(* writeBrowseState: the defaults are left out (0 is an absent page).      *)
WriteBrowseState(params, s) ==
    [params EXCEPT !.q = Trim(s.q),
                   !.facets = s.facets,
                   !.sort = IF s.sort # "newest" THEN s.sort ELSE Absent,
                   !.title = IF s.titleSort # "asc" THEN s.titleSort ELSE Absent,
                   !.page = IF s.page > 1 THEN s.page ELSE 0,
                   !.provider = Absent]

MatchesResource(entry, s, omit) ==
    /\ s.q.words \subseteq entry.text
    /\ \A name \in FacetNames \ omit :
         s.facets[name] # {} => s.facets[name] \intersect Values(entry, name) # {}

(* The order of filterResources: 0 is no date.                             *)
Before(s, a, b) ==
    IF a.date # b.date
    THEN \/ b.date = 0
         \/ a.date # 0 /\ (IF s.sort = "oldest" THEN a.date < b.date ELSE b.date < a.date)
    ELSE LET titleOrder == a.title < b.title \/ (a.title = b.title /\ a.id < b.id)
         IN IF s.titleSort = "desc" THEN ~titleOrder /\ a # b ELSE titleOrder

FilterResources(s) ==
    LET found == {entry \in Resources : MatchesResource(entry, s, {})}
        place(entry) == 1 + Cardinality({other \in found : Before(s, other, entry)})
    IN [i \in 1 .. Cardinality(found) |-> CHOOSE entry \in found : place(entry) = i]

(* The numbers of the pager; 0 is a gap.                                   *)
Gap == 0

BrowsePageItems(page, pages) ==
    IF pages <= 7 THEN [i \in 1 .. pages |-> i]
    ELSE IF page <= 4 THEN <<1, 2, 3, 4, 5, Gap, pages>>
    ELSE IF page >= pages - 3
    THEN <<1, Gap, pages - 4, pages - 3, pages - 2, pages - 1, pages>>
    ELSE <<1, Gap, page - 1, page, page + 1, Gap, pages>>

(* What to offer a visitor whose search finds nothing.                     *)
HasFilters(s) == \E name \in FacetNames : s.facets[name] # {}

WithoutFilters(s) == [s EXCEPT !.facets = [name \in FacetNames |-> {}]]

WithoutQuery(s) == [s EXCEPT !.q = NoQuery]

Found(s) == {entry \in Resources : MatchesResource(entry, s, {})}

SearchRecoveryAction(s) ==
    IF HasQuery(s) /\ HasFilters(s)
    THEN IF Found(WithoutFilters(s)) # {} THEN "Clear filters"
         ELSE IF Found(WithoutQuery(s)) # {} THEN "Clear search"
         ELSE "Reset all"
    ELSE IF HasFilters(s) THEN "Clear filters" ELSE "Clear search"

(* render().                                                               *)
ResourcePages(matches) == IF matches = <<>> THEN 1
                          ELSE (Len(matches) + RESOURCE_PAGE_SIZE - 1) \div RESOURCE_PAGE_SIZE

Clamped(s, pages) == [s EXCEPT !.page = IF @ < pages THEN @ ELSE pages]

(* The number beside an option: what it would find with the other facets.  *)
FacetCount(s, name, value) ==
    Cardinality({entry \in Resources :
        MatchesResource(entry, s, {name}) /\ value \in Values(entry, name)})

Options(s) ==
    [name \in FacetNames |->
       [value \in ResourceFacets[name] |->
          LET checked == value \in s.facets[name]
              count == FacetCount(s, name, value)
          IN [checked |-> checked, count |-> count, disabled |-> count = 0 /\ ~checked]]]

ResourceRender(s, recovery) ==
    LET matches == FilterResources(s)
        pages == ResourcePages(matches)
        page == Clamped(s, pages).page
        start == (page - 1) * RESOURCE_PAGE_SIZE
        visible == SubSeq(matches, start + 1,
                          IF start + RESOURCE_PAGE_SIZE < Len(matches)
                          THEN start + RESOURCE_PAGE_SIZE ELSE Len(matches))
    IN [visible |-> visible,
        summary |-> <<start + 1, start + Len(visible), Len(matches)>>,
        pages |-> pages,
        paged |-> Len(matches) > RESOURCE_PAGE_SIZE,
        items |-> BrowsePageItems(page, pages),
        previous |-> page # 1,
        next |-> page # pages,
        empty |-> matches = <<>>,
        recovery |-> IF matches = <<>> /\ Resources # {} THEN SearchRecoveryAction(s) ELSE recovery,
        clearFilters |-> HasFilters(s) /\ ~HasQuery(s) /\ matches # <<>>,
        resetAll |-> HasFilters(s) /\ HasQuery(s) /\ matches # <<>>,
        options |-> Options(s)]

(* render(); save(): the page is clamped by the one before the other.      *)
ShowAndSave(s, params) ==
    LET result == ResourceRender(s, resourceShown.recovery)
        clamped == Clamped(s, result.pages)
    IN /\ resourceShown' = result
       /\ resourceState' = clamped
       /\ resourceUrl' = WriteBrowseState(params, clamped)

(* restore() on the page of an address.                                    *)
Restored(params) == ReadBrowseState(params)

ResourceInit ==
    \E params \in Arrivals :
       LET s == Restored(params)
           result == ResourceRender(s, "Clear search")
           clamped == Clamped(s, result.pages)
       IN /\ resourceShown = result
          /\ resourceState = clamped
          /\ resourceUrl = WriteBrowseState(params, clamped)
          /\ resourceActs = 0

ResourceAct == resourceActs < ResourceMaxActs /\ resourceActs' = resourceActs + 1

(* Back or forward to an address.                                          *)
Arrive(params) == ResourceAct /\ ShowAndSave(Restored(params), params)

(* input, submit and the clear button of the query.                        *)
SetQuery(q) == ResourceAct /\ q # resourceState.q /\ ShowAndSave([resourceState EXCEPT !.q = q, !.page = 1], resourceUrl)

(* A checkbox that is not disabled.                                        *)
ResourceToggle(name, value) ==
    /\ ResourceAct
    /\ ~resourceShown.options[name][value].disabled
    /\ ShowAndSave([resourceState EXCEPT !.facets[name] =
                       IF value \in @ THEN @ \ {value} ELSE @ \union {value},
                                 !.page = 1], resourceUrl)

SortDate(sort) == ResourceAct /\ sort # resourceState.sort
                  /\ ShowAndSave([resourceState EXCEPT !.sort = sort, !.page = 1], resourceUrl)

SortTitle(order) == ResourceAct /\ order # resourceState.titleSort
                    /\ ShowAndSave([resourceState EXCEPT !.titleSort = order, !.page = 1], resourceUrl)

(* changePage: a number, or one of the four buttons when it is enabled.    *)
ChangePage(page) ==
    /\ ResourceAct
    /\ resourceShown.paged
    /\ page # resourceState.page
    /\ \/ page \in ToSet(resourceShown.items) \ {Gap}
       \/ page = resourceState.page - 1 /\ resourceShown.previous
       \/ page = resourceState.page + 1 /\ resourceShown.next
    /\ ShowAndSave([resourceState EXCEPT !.page = page], resourceUrl)

(* reset(): the sort orders stay.                                          *)
ResetState(s, filtersOnly) ==
    [ReadBrowseState(NoParameters) EXCEPT !.q = IF filtersOnly THEN s.q ELSE NoQuery,
                                          !.sort = s.sort, !.titleSort = s.titleSort]

ClearFilters == ResourceAct /\ resourceShown.clearFilters /\ ShowAndSave(ResetState(resourceState, TRUE), resourceUrl)

ResetAll == ResourceAct /\ resourceShown.resetAll /\ ShowAndSave(ResetState(resourceState, FALSE), resourceUrl)

(* The state the button of the empty results leads to.                     *)
RecoveredState(s, action) ==
    IF action = "Clear search" THEN [s EXCEPT !.q = NoQuery, !.page = 1]
    ELSE ResetState(s, action = "Clear filters")

Recover == ResourceAct /\ resourceShown.empty /\ ShowAndSave(RecoveredState(resourceState, resourceShown.recovery), resourceUrl)

ResourceNext ==
    \/ \E params \in Arrivals : Arrive(params)
    \/ \E q \in ResourceQueries : SetQuery(q)
    \/ \E name \in FacetNames : \E value \in ResourceFacets[name] : ResourceToggle(name, value)
    \/ \E sort \in {"newest", "oldest"} : SortDate(sort)
    \/ \E order \in {"asc", "desc"} : SortTitle(order)
    \/ \E page \in 1 .. resourceShown.pages : ChangePage(page)
    \/ ClearFilters
    \/ ResetAll
    \/ Recover

ResourceSpec == ResourceInit /\ [][ResourceNext]_resourceVars

ResourceTypeOK ==
    /\ resourceState.q \in ResourceQueries
    /\ \A name \in FacetNames : resourceState.facets[name] \subseteq ResourceFacets[name]
    /\ resourceState.sort \in {"newest", "oldest"} /\ resourceState.titleSort \in {"asc", "desc"}
    /\ resourceState.page \in 1 .. resourceShown.pages
    /\ resourceActs \in 0 .. ResourceMaxActs

(* The address is that of the search: opened anew it shows the same page,  *)
(* and it is not normalised once more (readBrowseState, writeBrowseState   *)
(* and the clamp of render).                                               *)
AddressShowsSearch ==
    LET again == ReadBrowseState(resourceUrl) IN
    /\ again = [resourceState EXCEPT !.q = Trim(resourceState.q)]
    /\ [ResourceRender(again, resourceShown.recovery) EXCEPT !.recovery = resourceShown.recovery] = resourceShown
    /\ WriteBrowseState(resourceUrl, again) = resourceUrl

(* The pages together show every resource that is found, each once: newest *)
(* (or oldest) first and those without a date last, by title within a day. *)
PagesShowAll ==
    LET visible(page) == ResourceRender([resourceState EXCEPT !.page = page], resourceShown.recovery).visible
        all == FlattenSeq([page \in 1 .. resourceShown.pages |-> visible(page)])
        met(entry, name) == resourceState.facets[name] = {} \/
                            \E value \in resourceState.facets[name] : value \in Values(entry, name)
    IN /\ ToSet(all) = {entry \in Resources : /\ resourceState.q.words \subseteq entry.text
                                              /\ \A name \in FacetNames : met(entry, name)}
       /\ IsInjective(all)
       /\ \A i, j \in DOMAIN all : i < j =>
            /\ all[i].date = 0 => all[j].date = 0
            /\ all[j].date # 0 /\ resourceState.sort = "newest" => all[i].date >= all[j].date
            /\ all[j].date # 0 /\ resourceState.sort = "oldest" => all[i].date <= all[j].date
            /\ all[i].date = all[j].date =>
                 IF resourceState.titleSort = "asc" THEN all[i].title <= all[j].title
                                                    ELSE all[i].title >= all[j].title
       /\ resourceShown.visible = <<>> => resourceShown.empty

(* An option that can be chosen finds as many resources as it says when it *)
(* is the only one of its facet, and none that can be chosen ends in an    *)
(* empty page (the counts and disabled in render).                         *)
OptionsFindSomething ==
    \A name \in FacetNames : \A value \in ResourceFacets[name] :
       LET option == resourceShown.options[name][value]
           chosen == [resourceState EXCEPT !.facets[name] = @ \union {value}]
       IN /\ Cardinality(Found([resourceState EXCEPT !.facets[name] = {value}])) = option.count
          /\ ~option.checked /\ ~option.disabled => Found(chosen) # {}
          /\ option.disabled => Found(chosen) \subseteq Found(resourceState) \/ resourceState.facets[name] = {}

(* When nothing is found, the button offered leads to results, and keeps   *)
(* as much of the search as it can (searchRecoveryAction).                 *)
RecoveryHelps ==
    resourceShown.empty /\ Resources # {} =>
       /\ Found(RecoveredState(resourceState, resourceShown.recovery)) # {}
       /\ resourceShown.recovery = "Reset all" =>
            Found(WithoutQuery(resourceState)) = {} /\ Found(WithoutFilters(resourceState)) = {}

(* The pager shows the first page, the last, the current one and its       *)
(* neighbours, in order; a gap stands for two pages or more                *)
(* (browsePageItems).                                                      *)
PagerShowsNeighbours ==
    LET items == resourceShown.items
        numbers == ToSet(items) \ {Gap}
    IN /\ {1, resourceShown.pages, resourceState.page} \subseteq numbers
       /\ \A page \in {resourceState.page - 1, resourceState.page + 1} \intersect (1 .. resourceShown.pages) : page \in numbers
       /\ numbers \subseteq 1 .. resourceShown.pages
       /\ \A i \in 1 .. Len(items) - 1 :
            IF items[i + 1] = Gap THEN items[i + 2] - items[i] >= 3
            ELSE items[i] # Gap => items[i + 1] = items[i] + 1

(* What the page, its pager, its options and its address show is what the  *)
(* search finds, and an empty page offers a way to something.              *)
ResourcesSafe ==
    /\ ResourceTypeOK /\ AddressShowsSearch /\ PagesShowAll
    /\ OptionsFindSomething /\ RecoveryHelps /\ PagerShowsNeighbours

(* Clearing filters or the search never changes the sort orders, and what  *)
(* the visitor narrows or reorders is shown from its first page.           *)
OrderSurvivesReset ==
    resourceState'.facets # resourceState.facets \/ resourceState'.q # resourceState.q =>
      \/ \E params \in Arrivals : Arrive(params)
      \/ /\ resourceState'.sort = resourceState.sort /\ resourceState'.titleSort = resourceState.titleSort
         /\ resourceState'.page = 1

(* The address of a page and what the page shows agree, for the filters of *)
(* one page (filter-history.ts) and the search of the other                *)
(* (ResourceBrowser.ts), whatever overtook what.                           *)
AddressSafe == FilterSafe /\ ResourcesSafe
=============================================================================
