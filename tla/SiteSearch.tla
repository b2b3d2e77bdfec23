----------------------------- MODULE SiteSearch -----------------------------
(* The glossary, and the search on the pages of the API reference.         *)
EXTENDS Integers, FiniteSets

-----------------------------------------------------------------------------

(***************************************************************************)
(* The glossary (GlossaryBrowser.ts): cards whose context opens when the   *)
(* pointer rests on them, when their button is focused, or for good when   *)
(* it is clicked, and the filters that choose the cards: a query, topics   *)
(* and a letter, kept in the address and in the links to the terms, which  *)
(* lead back to the filtered glossary.                                     *)
(*                                                                         *)
(* A query is the set of its words, a card the set of the words it has.    *)
(* The focus is on the button of a card, on something else in it, or       *)
(* outside of the cards.  Where the history of the tab matters, it is      *)
(* the subject of SitePages.                                               *)
(***************************************************************************)

CONSTANTS
    Cards,                            \* a card per term
    Search, Topics, Letter,           \* per card: its words, its topics, its letter
    GlossaryWords, TopicIds, Letters, \* what can be typed, chosen and followed
    Fine,                             \* whether the pointer can hover
    GlossaryArrivals,                 \* the addresses the glossary is reached by
    GlossaryMaxActs                   \* bound: what the visitor does

VARIABLES
    card,           \* per card: [preview, pinned, timer]
    pointer, focus, \* the card under the pointer; the place of the focus
    filters,        \* [query, topics, letter]
    glossaryView,   \* [hidden, from, recovery]: cards, return links, the button
    connected, glossaryActs

glossaryVars == <<card, pointer, focus, filters, glossaryView, connected, glossaryActs>>

Outside == [card |-> "none", button |-> FALSE]

Nowhere == "none"

NoLetter == ""

(* Addresses carry words that can be typed; what else they ask for may be  *)
(* unknown to the page.                                                    *)
ASSUME GlossaryAssumption ==
    /\ Cards # {} /\ Nowhere \notin Cards /\ Fine \in BOOLEAN
    /\ \A address \in GlossaryArrivals : address.query \subseteq GlossaryWords

Closed == [preview |-> FALSE, pinned |-> FALSE, timer |-> FALSE]

GlossaryContains(c, place) == place.card = c

(* close(), for a set of cards: its attributes and the label follow.       *)
CloseCards(cards, closed) == [c \in Cards |-> IF c \in closed THEN Closed ELSE cards[c]]

Preview(cards, c) == [CloseCards(cards, Cards \ {c}) EXCEPT ![c].preview = TRUE]

(* The filters.                                                            *)
NoFilters == [query |-> {}, topics |-> {}, letter |-> NoLetter]

MatchesQuery(c, query) == query \subseteq Search[c]

MatchesFilters(c, f) ==
    /\ f.letter # NoLetter => Letter[c] = f.letter
    /\ f.topics # {} => Topics[c] \intersect f.topics # {}

Matching(f) == {c \in Cards : MatchesQuery(c, f.query) /\ MatchesFilters(c, f)}

GlossaryHasFilters(f) == f.topics # {} \/ f.letter # NoLetter

(* searchRecoveryAction, with the letter and the topics as the filters.    *)
RecoveryAction(f) ==
    IF f.query # {} /\ GlossaryHasFilters(f)
    THEN IF \E c \in Cards : MatchesQuery(c, f.query) THEN "Clear filters"
         ELSE IF \E c \in Cards : MatchesFilters(c, f) THEN "Clear search"
         ELSE "Reset all"
    ELSE IF GlossaryHasFilters(f) THEN "Clear filters" ELSE "Clear search"

(* The part of restore that reads an address: what the page does not have  *)
(* a button for is dropped.                                                *)
ReadFilters(address) ==
    [query |-> address.query,
     topics |-> address.topics \intersect TopicIds,
     letter |-> IF address.letter \in Letters THEN address.letter ELSE NoLetter]

(* update(), and the links of save or restore.                             *)
Update(f, from) ==
    /\ filters' = f
    /\ card' = CloseCards(card, Cards)
    /\ glossaryView' = [hidden |-> Cards \ Matching(f),
                        from |-> from,
                        recovery |-> IF Matching(f) = {} THEN RecoveryAction(f) ELSE glossaryView.recovery]

GlossaryInit ==
    \E address \in GlossaryArrivals :
       LET f == ReadFilters(address) IN
       /\ card = [c \in Cards |-> Closed]
       /\ pointer = Nowhere /\ focus = Outside
       /\ filters = f
       /\ glossaryView = [hidden |-> Cards \ Matching(f), from |-> address,
                          recovery |-> IF Matching(f) = {} THEN RecoveryAction(f) ELSE "Clear search"]
       /\ connected = TRUE
       /\ glossaryActs = 0

GlossaryAct == connected /\ glossaryActs < GlossaryMaxActs /\ glossaryActs' = glossaryActs + 1

Visible(c) == c \notin glossaryView.hidden

(* The pointer and the focus.                                              *)
(* pointerenter; the pointer comes from outside the cards.                 *)
Enter(c) ==
    /\ GlossaryAct /\ pointer = Nowhere /\ Visible(c)
    /\ pointer' = c
    /\ card' = IF Fine THEN [card EXCEPT ![c].timer = TRUE] ELSE card
    /\ UNCHANGED <<focus, filters, glossaryView, connected>>

\* Broken: the timer of a card that is left goes on.
LeaveOnTimer(c) ==
    /\ GlossaryAct /\ pointer = c
    /\ pointer' = Nowhere
    /\ card' = IF ~card[c].pinned /\ ~GlossaryContains(c, focus) /\ ~card[c].timer
               THEN CloseCards(card, {c}) ELSE card
    /\ UNCHANGED <<focus, filters, glossaryView, connected>>

(* pointerleave.                                                           *)
Leave(c) ==
    /\ GlossaryAct /\ pointer = c
    /\ pointer' = Nowhere
    /\ LET stopped == [card EXCEPT ![c].timer = FALSE] IN
       card' = IF ~card[c].pinned /\ ~GlossaryContains(c, focus)
               THEN CloseCards(stopped, {c}) ELSE stopped
    /\ UNCHANGED <<focus, filters, glossaryView, connected>>

(* The 180 ms are over.                                                    *)
Rest(c) ==
    /\ card[c].timer
    /\ card' = Preview([card EXCEPT ![c].timer = FALSE], c)
    /\ UNCHANGED <<pointer, focus, filters, glossaryView, connected, glossaryActs>>

(* The focus moves: focusout on the card it leaves, focus on a button.     *)
Focused(cards, place) ==
    LET left == {c \in Cards : GlossaryContains(c, focus) /\ ~GlossaryContains(c, place) /\ ~cards[c].pinned}
        blurred == CloseCards(cards, left)
    IN IF place.button /\ Fine THEN Preview(blurred, place.card) ELSE blurred

Places == {Outside} \union [card : Cards, button : BOOLEAN]

Focus(place) ==
    /\ GlossaryAct /\ place # focus
    /\ place # Outside => Visible(place.card)
    /\ card' = Focused(card, place)
    /\ focus' = place
    /\ UNCHANGED <<pointer, filters, glossaryView, connected>>

(* The click listener of the button.                                       *)
ClickButton(cards, c) ==
    IF cards[c].pinned THEN CloseCards(cards, {c})
    ELSE [Preview([cards EXCEPT ![c].timer = FALSE], c) EXCEPT ![c].pinned = TRUE]

(* A click on the button: pointerdown closes the other cards, the button   *)
(* takes the focus, and the click comes last.                              *)
Click(c) ==
    /\ GlossaryAct /\ Visible(c) /\ (Fine => pointer = c)
    /\ LET down == CloseCards(card, Cards \ {c})
           place == [card |-> c, button |-> TRUE]
       IN /\ card' = ClickButton(IF focus = place THEN down ELSE Focused(down, place), c)
          /\ focus' = place
    /\ UNCHANGED <<pointer, filters, glossaryView, connected>>

(* Enter on the focused button: a click without a pointer.                 *)
Press ==
    /\ GlossaryAct /\ focus.button
    /\ card' = ClickButton(card, focus.card)
    /\ UNCHANGED <<pointer, focus, filters, glossaryView, connected>>

(* A press elsewhere, and Escape.                                          *)
PointerDown ==
    /\ GlossaryAct /\ pointer = Nowhere
    /\ card' = CloseCards(card, Cards)
    /\ focus' = Outside
    /\ UNCHANGED <<pointer, filters, glossaryView, connected>>

Escape ==
    /\ GlossaryAct
    /\ card' = CloseCards(card, Cards)
    /\ UNCHANGED <<pointer, focus, filters, glossaryView, connected>>

(* A hidden card loses the pointer and the focus.                          *)
Displace(f) ==
    /\ pointer' = IF pointer \in Matching(f) THEN pointer ELSE Nowhere
    /\ focus' = IF focus.card \in Matching(f) THEN focus ELSE Outside

(* The controls: the query, a topic, a letter, and the buttons that clear. *)
GlossaryChoose(f) ==
    /\ GlossaryAct /\ f # filters
    /\ Update(f, f)
    /\ Displace(f)
    /\ UNCHANGED connected

Cleared(f, filtersOnly) == [NoFilters EXCEPT !.query = IF filtersOnly THEN f.query ELSE {}]

Clear == glossaryView.hidden # Cards /\ GlossaryHasFilters(filters) /\ GlossaryChoose(Cleared(filters, filters.query = {}))

Recovered(f, action) ==
    IF action = "Clear search" THEN [f EXCEPT !.query = {}]
    ELSE Cleared(f, action = "Clear filters")

GlossaryRecover == glossaryView.hidden = Cards /\ GlossaryChoose(Recovered(filters, glossaryView.recovery))

(* Back or forward to an address: it is shown but not rewritten.           *)
GlossaryArrive(address) ==
    /\ GlossaryAct
    /\ Update(ReadFilters(address), address)
    /\ Displace(ReadFilters(address))
    /\ UNCHANGED connected

(* disconnectedCallback: the listeners are gone and the timers stopped.    *)
Disconnect ==
    /\ connected
    /\ connected' = FALSE
    /\ card' = [c \in Cards |-> [card[c] EXCEPT !.timer = FALSE]]
    /\ UNCHANGED <<pointer, focus, filters, glossaryView, glossaryActs>>

GlossaryNext ==
    \/ \E c \in Cards : Enter(c) \/ Leave(c) \/ Rest(c) \/ Click(c)
    \/ \E place \in Places : Focus(place)
    \/ Press \/ PointerDown \/ Escape
    \/ \E words \in SUBSET GlossaryWords : GlossaryChoose([filters EXCEPT !.query = words])
    \/ \E topic \in TopicIds :
         GlossaryChoose([filters EXCEPT !.topics = (@ \ {topic}) \union ({topic} \ @)])
    \/ \E letter \in Letters \union {NoLetter} : GlossaryChoose([filters EXCEPT !.letter = letter])
    \/ Clear \/ GlossaryRecover
    \/ \E address \in GlossaryArrivals : GlossaryArrive(address)
    \/ Disconnect

GlossarySpec == GlossaryInit /\ [][GlossaryNext]_glossaryVars

GlossaryTypeOK ==
    /\ card \in [Cards -> [preview : BOOLEAN, pinned : BOOLEAN, timer : BOOLEAN]]
    /\ \A c \in Cards : card[c].pinned => card[c].preview
    /\ pointer \in Cards \union {Nowhere} /\ focus \in Places
    /\ filters.query \subseteq GlossaryWords /\ filters.topics \subseteq TopicIds
    /\ glossaryView.hidden \subseteq Cards

(* One card is open at a time, and none that the filters hide.             *)
OneOpenCard ==
    LET open == {c \in Cards : card[c].preview} IN
    /\ Cardinality(open) <= 1
    /\ open \intersect glossaryView.hidden = {}

(* A card that is open was pinned, or the pointer or the focus is on it:   *)
(* no timer opens a card the visitor has left, whose filters have changed  *)
(* or whose page is gone (close, pointerleave, focusout).                  *)
OpenForAReason ==
    \A c \in Cards :
       /\ card[c].preview => card[c].pinned \/ pointer = c \/ GlossaryContains(c, focus)
       /\ card[c].timer => connected /\ pointer = c /\ Visible(c)

(* A pinned card stays open when the pointer or the focus leaves it: it is *)
(* closed by its own button, by another card that opens, by a press        *)
(* elsewhere, by Escape or with new filters.  Its own button closes it.    *)
PinnedUntilClosed ==
    \A c \in Cards :
      /\ card[c].pinned /\ ~card'[c].pinned =>
           \/ \E d \in Cards \ {c} : card'[d].preview
           \/ Press \/ Click(c) \/ PointerDown \/ Escape
           \/ filters' # filters \/ \E address \in GlossaryArrivals : GlossaryArrive(address)
      /\ card[c].pinned /\ (Press \/ Click(c)) /\ focus'.card = c => ~card'[c].preview

(* The links of the terms lead back to what is shown, also for an address  *)
(* with values that are unknown or gone.                                   *)
ReturnShowsSame ==
    /\ ReadFilters(glossaryView.from) = filters
    /\ glossaryView.hidden = {c \in Cards :
          \/ \E word \in filters.query : word \notin Search[c]
          \/ filters.letter # NoLetter /\ Letter[c] # filters.letter
          \/ filters.topics # {} /\ \A topic \in filters.topics : topic \notin Topics[c]}

(* The button of an empty result leads to terms.                           *)
GlossaryRecoveryHelps ==
    glossaryView.hidden = Cards => Matching(Recovered(filters, glossaryView.recovery)) # {}

(* What is open, what is hidden and where the links lead agree after every *)
(* order of hovers, timers, clicks, filters and returns                    *)
(* (GlossaryBrowser.ts).                                                   *)
GlossarySafe ==
    /\ GlossaryTypeOK
    /\ OneOpenCard /\ OpenForAReason
    /\ ReturnShowsSame /\ GlossaryRecoveryHelps

-----------------------------------------------------------------------------

(***************************************************************************)
(* The search box of an API reference page (search-lifecycle.ts,           *)
(* inpage-search-sync.ts, _search-presentation.ts, search-empty-state.ts,  *)
(* with the controller of the page of a C# type): one controller per root, *)
(* mounted and disposed of as Astro swaps pages, what it shows, what it    *)
(* writes into the address and the way back it offers from no results.     *)
(*                                                                         *)
(* The router is external.  A link fetches its page, swaps the document    *)
(* and then moves the address; going back moves the address first.  The    *)
(* page-load event comes some time after the swap.                         *)
(***************************************************************************)

CONSTANTS
    ApiPages,          \* pages of the site
    Index(_),          \* the entries a page can search: records with a kind; Missing or none
    Missing,           \* an index that is missing or cannot be read
    Kinds,             \* kinds a filter is offered for
    Texts, ApiTrim(_), \* what can be in the field, and its text without the space around it
    Finds(_, _),       \* whether a text is found in an entry
    Addresses,         \* where links and the history lead: [page, q, kinds]
    ApiMaxActs, ApiNone

(* Trimming once is enough, and an empty text finds every entry.           *)
ASSUME SearchAssumption ==
    /\ ApiNone \notin Nat
    /\ ApiNone \notin [kind : {"link", "traverse"}, to : Addresses, moved : BOOLEAN]
    /\ "" \in Texts /\ ApiTrim("") = ""
    /\ \A text \in Texts : ApiTrim(text) \in Texts /\ ApiTrim(ApiTrim(text)) = ApiTrim(text)
    /\ \A address \in Addresses :
         /\ address = [page |-> address.page, q |-> address.q, kinds |-> address.kinds]
         /\ address.page \in ApiPages /\ address.q \in Texts
    /\ \A page \in ApiPages :
         Index(page) \in {ApiNone, Missing} \/ \A entry \in Index(page) : Finds("", entry)

VARIABLES
    location,   \* the address of the tab
    root,       \* the root in the document: its page and the visit it came with
    apiCurrent, \* currentRoot: the visit of the root mounted on, or None
    mounts,     \* history: controllers mounted on the present root
    field,      \* the text in the search field
    clearShown, \* whether the field's clear button is shown
    active,     \* activeKinds, and the filters that show as pressed
    apiShown,   \* what is shown below the field
    offers,     \* the buttons shown beside it: "filters", "all"
    armed,      \* whether the debounce timer runs
    early,      \* history: text was entered before the controller attached
    going,      \* the navigation that fetches: its kind and address and
                    \* whether the address has moved already; or None
    loadDue,    \* whether page-load is still to come
    apiActs

apiVars == <<location, root, apiCurrent, mounts, field, clearShown, active, apiShown, offers, armed,
             early, going, loadDue, apiActs>>

apiPage == <<field, clearShown, active, apiShown, offers, armed>>

Entries == Index(root.page)

Content == [state |-> "content"]

Unavailable == [state |-> "unavailable"]

Results(found) == [state |-> "results", found |-> found]

NoResults(action) == [state |-> "none", action |-> action]

Matches(text, kinds) ==
    {entry \in Entries : Finds(text, entry) /\ (kinds = {} \/ entry.kind \in kinds)}

\* Broken: gives up text and filters when either alone does not find anything.
ActionGivesUp(text, kinds) ==
    CASE text # "" /\ kinds # {} /\ Matches(text, {}) # {} -> "Clear filters"
      [] text # "" /\ kinds # {} /\ Matches(text, {}) = {} -> "Reset all"
      [] text = "" /\ kinds # {} -> "Clear filters"
      [] kinds = {} -> "Clear search"

(* searchRecoveryAction: what helps, the filters before the text.          *)
Action(text, kinds) ==
    CASE text # "" /\ kinds # {} /\ Matches(text, {}) # {} -> "Clear filters"
      [] text # "" /\ kinds # {} /\ Matches(text, {}) = {} /\ Matches("", kinds) # {} -> "Clear search"
      [] text # "" /\ kinds # {} /\ Matches(text, {}) = {} /\ Matches("", kinds) = {} -> "Reset all"
      [] text = "" /\ kinds # {} -> "Clear filters"
      [] kinds = {} -> "Clear search"

(* What applySearch shows for a text and filters.                          *)
Shown(text, kinds) ==
    CASE text = "" /\ kinds = {} /\ Entries # {} -> Content
      [] (text # "" \/ kinds # {}) /\ Matches(text, kinds) # {} -> Results(Matches(text, kinds))
      [] Entries = {} -> NoResults(ApiNone)
      [] Entries # {} /\ Matches(text, kinds) = {} -> NoResults(Action(text, kinds))

Offered(text, kinds) ==
    CASE Shown(text, kinds).state = "none" \/ kinds = {} -> {}
      [] Shown(text, kinds).state # "none" /\ kinds # {} ->
            IF text = "" THEN {"filters"} ELSE {"all"}

ApplySearch(text, kinds) ==
    /\ apiShown' = Shown(ApiTrim(text), kinds) /\ offers' = Offered(ApiTrim(text), kinds)
    /\ armed' = FALSE

RestoredKinds(address) == address.kinds \cap Kinds

WriteUrl(text, kinds) == location' = [location EXCEPT !.q = ApiTrim(text), !.kinds = kinds]

Root(where, visit) == [page |-> where, visit |-> visit]

(* The document as it was built: field empty, nothing searched.            *)
Fresh ==
    /\ field' = "" /\ clearShown' = FALSE /\ active' = {} /\ apiShown' = Content
    /\ offers' = {} /\ armed' = FALSE /\ mounts' = 0 /\ early' = FALSE

(* registerApiSearch, with the fallback of an index that cannot be read.   *)
MountFails ==
    /\ Entries = Missing
    /\ apiShown' = Unavailable /\ armed' = FALSE
    /\ UNCHANGED <<field, clearShown, active, offers>>

Mount ==
    /\ Entries # Missing
    /\ field' = IF location.q # "" THEN location.q ELSE field
    /\ clearShown' = (field' # "")
    /\ active' = RestoredKinds(location)
    /\ ApplySearch(field', active')

HasRoot == Entries # ApiNone

\* Broken: mounts without asking whether the root has its controller.
ApiPageLoadAgain ==
    /\ loadDue /\ loadDue' = FALSE
    /\ apiCurrent' = (IF HasRoot THEN root.visit ELSE ApiNone)
    /\ IF HasRoot THEN mounts' = mounts + 1 /\ (Mount \/ MountFails) ELSE UNCHANGED <<mounts, apiPage>>
    /\ UNCHANGED <<location, root, early, going, apiActs>>

(* init, at page-load.                                                     *)
ApiPageLoad ==
    /\ loadDue /\ loadDue' = FALSE
    /\ apiCurrent' = (IF HasRoot THEN root.visit ELSE ApiNone)
    /\ IF HasRoot /\ apiCurrent # root.visit
       THEN mounts' = mounts + 1 /\ (Mount \/ MountFails)
       ELSE UNCHANGED <<mounts, apiPage>>
    /\ UNCHANGED <<location, root, early, going, apiActs>>

ApiInit ==
    /\ \E address \in Addresses : location = address /\ root = Root(address.page, 0)
    /\ apiCurrent = ApiNone /\ mounts = 0
    /\ field = "" /\ clearShown = FALSE /\ active = {} /\ apiShown = Content
    /\ offers = {} /\ armed = FALSE /\ early = FALSE
    /\ going = ApiNone /\ loadDue = TRUE /\ apiActs = 0

(* The script of the page is evaluated: init() without the event, which is *)
(* still to come.                                                          *)
Script ==
    /\ root.visit = 0 /\ loadDue /\ apiCurrent = ApiNone /\ HasRoot
    /\ apiCurrent' = 0 /\ mounts' = mounts + 1 /\ (Mount \/ MountFails)
    /\ UNCHANGED <<location, root, early, going, loadDue, apiActs>>

ApiAct == apiActs < ApiMaxActs /\ apiActs' = apiActs + 1

(* Whether the address has left the page that is shown.                    *)
Moved == going # ApiNone /\ going.moved

(* A link or an entry of the history; what was fetching is aborted.        *)
Go(kind, address) ==
    /\ ApiAct
    /\ going' = [kind |-> kind, to |-> address, moved |-> kind = "traverse" \/ Moved]
    /\ location' = IF kind = "traverse" THEN address ELSE location
    /\ UNCHANGED <<root, apiCurrent, mounts, apiPage, early, loadDue>>

(* before-swap disposes of the controller: its listeners and its timer.    *)
Swap ==
    /\ going # ApiNone
    /\ root' = Root(going.to.page, apiActs) /\ apiCurrent' = ApiNone /\ Fresh
    /\ location' = IF going.kind = "link" THEN going.to ELSE location
    /\ going' = ApiNone /\ loadDue' = TRUE
    /\ UNCHANGED apiActs

(* The controller's handlers.                                              *)
Attached == apiCurrent = root.visit /\ apiShown # Unavailable

Enabled == HasRoot /\ apiShown # Unavailable

ApiRest == UNCHANGED <<root, apiCurrent, mounts, going, loadDue>>

Type(text) ==
    /\ ApiAct /\ Enabled /\ field' = text /\ text # field
    /\ IF Attached
       THEN clearShown' = (text # "") /\ armed' = TRUE /\ early' = early
       ELSE early' = TRUE /\ UNCHANGED <<clearShown, armed>>
    /\ UNCHANGED <<location, active, apiShown, offers>> /\ ApiRest

Debounced ==
    /\ armed
    /\ IF apiCurrent = root.visit THEN WriteUrl(field, active) /\ early' = FALSE ELSE UNCHANGED <<location, early>>
    /\ ApplySearch(field, active)
    /\ UNCHANGED <<field, clearShown, active, apiActs>> /\ ApiRest

(* A change made at once: the address is written, then what is shown.      *)
Change(text, kinds) ==
    /\ field' = text /\ active' = kinds /\ clearShown' = (text # "")
    /\ WriteUrl(text, kinds) /\ ApplySearch(text, kinds)
    /\ early' = FALSE /\ ApiRest

Chip(kind) ==
    /\ ApiAct /\ Attached /\ Entries # {}
    /\ Change(field, IF kind \in active THEN active \ {kind} ELSE active \cup {kind})

(* The clear button of the field, or Escape.                               *)
ApiClear == ApiAct /\ Attached /\ Change("", active)

ApiClearFilters == ApiAct /\ Attached /\ "filters" \in offers /\ Change(field, {})

ApiResetAll == ApiAct /\ Attached /\ "all" \in offers /\ Change("", {})

ApiRecover ==
    /\ ApiAct /\ Attached /\ apiShown.state = "none" /\ apiShown.action # ApiNone
    /\ Change(IF apiShown.action = "Clear filters" THEN field ELSE "",
              IF apiShown.action = "Clear search" THEN active ELSE {})

ApiNext ==
    \/ Script \/ ApiPageLoad \/ Swap \/ Debounced
    \/ \E address \in Addresses : Go("link", address) \/ Go("traverse", address)
    \/ \E text \in Texts : Type(text)
    \/ \E kind \in Kinds : Chip(kind)
    \/ ApiClear \/ ApiClearFilters \/ ApiResetAll \/ ApiRecover

ApiSpec == ApiInit /\ [][ApiNext]_apiVars

(* A timer runs only for a controller, and a controller is on the root     *)
(* that is in the document: leaving the page disposes of both.             *)
ApiTypeOK ==
    /\ location.page \in ApiPages /\ root.page \in ApiPages
    /\ field \in Texts /\ active \subseteq Kinds /\ offers \subseteq {"filters", "all"}
    /\ apiCurrent \in {ApiNone, root.visit} /\ armed \in BOOLEAN
    /\ armed => Attached

(* A root is mounted on once, however the script's own call and the        *)
(* page-load events of this and of earlier pages fall.                     *)
MountedOnce == mounts <= 1

Settled == Attached /\ ~armed

(* What is shown is what is asked: once the timer is out, the results, the *)
(* clear button and the text in the field agree, also when the text came   *)
(* from the address or was entered before the controller attached.         *)
ShownIsAsked == Settled => apiShown = Shown(ApiTrim(field), active) /\ clearShown = (field # "")

(* The address can be shared: opened again, it restores the text and the   *)
(* filters that are shown.                                                 *)
AddressTells ==
    Settled /\ ~early /\ ~Moved
        => ApiTrim(location.q) = ApiTrim(field) /\ RestoredKinds(location) = active

(* One way back: who has chosen filters sees exactly one button to undo    *)
(* them, be it beside the results or in the empty state.                   *)
OneWayBack ==
    Settled /\ active # {} =>
        Cardinality(offers) + (IF apiShown.state = "none" THEN 1 ELSE 0) = 1

(* The field, the results, the address and the way back agree after every  *)
(* order of swaps, loads, timers, typed texts and filters                  *)
(* (search-lifecycle.ts, inpage-search-sync.ts).                           *)
ApiSearchSafe ==
    /\ ApiTypeOK
    /\ MountedOnce /\ ShownIsAsked
    /\ AddressTells /\ OneWayBack

(* The way back helps: what the empty state offers leads to results.       *)
ApiRecoveryHelps ==
    ApiRecover /\ ~armed => apiShown'.state # "none"

(* ...and takes away no more than it says: the filters are kept when       *)
(* clearing the text is enough, and the text when clearing the filters is. *)
RecoveryKeeps ==
    (apiShown.state = "none" /\ ~armed /\ apiShown' # apiShown /\ apiActs' # apiActs
     /\ field' # field /\ active' # active)
       => Matches(ApiTrim(field), {}) = {} /\ Matches("", active) = {}

(* Whatever was searched before, the way back from no results is one that  *)
(* helps and keeps what it can (search-empty-state.ts).                    *)
WaysBackHelp == [][ApiRecoveryHelps /\ RecoveryKeeps]_apiVars
=============================================================================
