----------------------------- MODULE SiteWidgets ----------------------------
(* What reacts to clicks, scrolling and timers: the pivot selectors, how    *)
(* they float, and what plays when it comes into view.                     *)
EXTENDS Integers, FiniteSets, Sequences, SequencesExt

-----------------------------------------------------------------------------

(***************************************************************************)
(* The pivots of a page (pivot-selector.ts): selectors that choose among   *)
(* the blocks of the page, kept in step with the others of their key, in   *)
(* the address, in the stored preferences and, for the AppHost language,   *)
(* in the preference of Starlight's tabs and on the document.              *)
(*                                                                         *)
(* A selector is connected when its page is there, initialised when the    *)
(* page is loaded, and disposed of before the page is swapped.  Selectors  *)
(* of a key share their options on a page, but not from page to page.      *)
(***************************************************************************)

CONSTANTS
    PivotPages,        \* per page: its selectors, in document order
    Blocks,            \* per page: its blocks, each the set of its ids
    Key, PivotOptions, \* per selector: its key and its options in order
    Disabled,          \* per selector: the options that cannot be chosen
    Links,             \* the query parameters a page is reached with
    MaxVisits          \* bound: pages visited

AspireLang == "aspire-lang"

Keys == {Key[s] : s \in DOMAIN Key}

PivotNone == "none"

VARIABLES
    pivotPage, phase,    \* the page; per selector: idle, connected, ready
    pivotParams, stored, \* per key: in the address, in the storage
    tabs, apphostLang,   \* Starlight's preference; the attribute of the document
    pivotActive, hidden, \* per selector its active button; the hidden blocks
    visits,
    wish                 \* per key: the option the visitor asked for last, while offered

pivotVars == <<pivotPage, phase, pivotParams, stored, tabs, apphostLang, pivotActive, hidden, visits, wish>>

AllOptions(s) == ToSet(PivotOptions[s])

ValidOptions(s) == AllOptions(s) \ Disabled[s]

Selectors == DOMAIN Key

(* Every selector offers something, none offers nothing by name, and the   *)
(* languages are the two apply() knows.  On one page, selectors of a key   *)
(* share their options, and those of two keys share no block.              *)
ASSUME PivotAssumption ==
    /\ MaxVisits \in Nat \ {0} /\ Links \subseteq [Keys -> STRING]
    /\ \A s \in Selectors :
         /\ PivotOptions[s] \in Seq(STRING) /\ PivotNone \notin AllOptions(s)
         /\ ValidOptions(s) # {}
         /\ Key[s] = AspireLang => AllOptions(s) \subseteq {"csharp", "typescript"}
    /\ \A p \in DOMAIN PivotPages :
         /\ PivotPages[p] \in Seq(Selectors)
         /\ \A s, t \in ToSet(PivotPages[p]) :
              IF Key[s] = Key[t] THEN PivotOptions[s] = PivotOptions[t] /\ Disabled[s] = Disabled[t]
              ELSE \A block \in Blocks[p] : block \intersect AllOptions(s) = {}
                                             \/ block \intersect AllOptions(t) = {}

PivotHere == ToSet(PivotPages[pivotPage])

(* The state apply() works on.                                             *)
View == [params |-> pivotParams, stored |-> stored, tabs |-> tabs, lang |-> apphostLang,
         active |-> pivotActive, hidden |-> hidden]

(* The blocks after an option of s: those of other selectors stay.         *)
HiddenBlocks(v, s, id) ==
    {block \in Blocks[pivotPage] :
       IF block \intersect AllOptions(s) # {} THEN id \notin block ELSE block \in v.hidden}

PivotApply(v, s, id) ==
    LET lang == Key[s] = AspireLang /\ id \in {"csharp", "typescript"} IN
    [params |-> [v.params EXCEPT ![Key[s]] = id],
     stored |-> [v.stored EXCEPT ![Key[s]] = id],
     tabs |-> IF lang THEN id ELSE v.tabs,
     lang |-> IF lang THEN id ELSE v.lang,
     active |-> [other \in Selectors |->
                   IF other \in PivotHere /\ Key[other] = Key[s]
                   THEN IF id \in AllOptions(other) THEN id ELSE PivotNone
                   ELSE v.active[other]],
     hidden |-> HiddenBlocks(v, s, id)]

FirstValid(s) ==
    PivotOptions[s][CHOOSE i \in DOMAIN PivotOptions[s] :
                      /\ PivotOptions[s][i] \in ValidOptions(s)
                      /\ \A j \in 1 .. i - 1 : PivotOptions[s][j] \notin ValidOptions(s)]

(* The choice of a selector that is initialised: the address, then what is *)
(* stored, then its first option.                                          *)
PivotCurrent(v, s) ==
    IF v.params[Key[s]] \in ValidOptions(s) THEN v.params[Key[s]]
    ELSE IF v.stored[Key[s]] \in ValidOptions(s) THEN v.stored[Key[s]]
    ELSE IF ValidOptions(s) # {} THEN FirstValid(s) ELSE PivotNone

Initialize(v, s) == IF PivotCurrent(v, s) # PivotNone THEN PivotApply(v, s, PivotCurrent(v, s)) ELSE v

Empty(p) == [s \in Selectors |-> IF s \in ToSet(PivotPages[p]) THEN "connected" ELSE "idle"]

PivotInit ==
    /\ pivotPage \in DOMAIN PivotPages
    /\ phase = Empty(pivotPage)
    /\ pivotParams \in Links
    /\ stored \in [Keys -> {PivotNone, "gone"}]
    /\ tabs = PivotNone /\ apphostLang = PivotNone
    /\ pivotActive = [s \in Selectors |-> PivotNone]
    /\ hidden = {}
    /\ visits = 1
    /\ wish = [key \in Keys |-> PivotNone]

PivotBecome(v) ==
    /\ pivotParams' = v.params /\ stored' = v.stored /\ tabs' = v.tabs
    /\ apphostLang' = v.lang /\ pivotActive' = v.active /\ hidden' = v.hidden

Ready == \A s \in PivotHere : phase[s] = "ready"

Untouched == \A s \in PivotHere : phase[s] = "connected"

PivotOffered(id, key) == \A s \in PivotHere : Key[s] = key => id \in ValidOptions(s)

(* What the visitor wants of a key on this page: a link comes before what  *)
(* was chosen before, and neither survives a page that does not offer it.  *)
Wished(key) ==
    IF pivotParams[key] # PivotNone /\ PivotOffered(pivotParams[key], key) THEN pivotParams[key]
    ELSE IF PivotOffered(wish[key], key) THEN wish[key] ELSE PivotNone

(* astro:page-load, or DOMContentLoaded before it: the selectors of the    *)
(* page are initialised in document order, with nothing in between.        *)
Load(i) ==
    LET s == PivotPages[pivotPage][i]
        first == \A other \in PivotHere : phase[other] = "ready" => Key[other] # Key[s]
    IN /\ phase[s] = "connected"
       /\ \A j \in 1 .. i - 1 : phase[PivotPages[pivotPage][j]] = "ready"
       /\ PivotBecome(Initialize(View, s))
       /\ phase' = [phase EXCEPT ![s] = "ready"]
       /\ wish' = IF first THEN [wish EXCEPT ![Key[s]] = Wished(Key[s])] ELSE wish
       /\ UNCHANGED <<pivotPage, visits>>

(* The click listener of an option's button.                               *)
PivotClick(s, id) ==
    /\ Ready /\ s \in PivotHere
    /\ id \in ValidOptions(s)
    /\ PivotBecome(PivotApply(View, s, id))
    /\ wish' = [wish EXCEPT ![Key[s]] = IF PivotOffered(id, Key[s]) THEN id ELSE PivotNone]
    /\ UNCHANGED <<pivotPage, phase, visits>>

(* Another page: what the old selectors listened to and waited for is      *)
(* gone, and the new ones are connected, but wait for the new address.     *)
Visit(p, query) ==
    /\ visits < MaxVisits /\ visits' = visits + 1
    /\ Ready \/ Untouched
    /\ pivotPage' = p
    /\ phase' = Empty(p)
    /\ pivotParams' = query
    /\ pivotActive' = [s \in Selectors |-> PivotNone]
    /\ hidden' = {}
    /\ UNCHANGED <<stored, tabs, apphostLang, wish>>

PivotNext ==
    \/ \E i \in DOMAIN PivotPages[pivotPage] : Load(i)
    \/ \E s \in Selectors : \E id \in AllOptions(s) : PivotClick(s, id)
    \/ \E p \in DOMAIN PivotPages, query \in Links : Visit(p, query)

PivotSpec == PivotInit /\ [][PivotNext]_pivotVars

PivotTypeOK ==
    /\ pivotPage \in DOMAIN PivotPages
    /\ phase \in [Selectors -> {"idle", "connected", "ready"}]
    /\ \A s \in Selectors : pivotActive[s] \in AllOptions(s) \union {PivotNone}
    /\ \A s \in Selectors : phase[s] = "ready" => s \in PivotHere
    /\ visits \in 1 .. MaxVisits

(* Once a page is loaded its selectors of a key agree, the address and the *)
(* storage say the same, and of the blocks a selector chooses among those  *)
(* of its option are shown and no others; blocks of no selector are shown. *)
EverythingAgrees ==
    Ready =>
       /\ \A s \in PivotHere :
            /\ pivotActive[s] \in AllOptions(s)
            /\ pivotParams[Key[s]] = pivotActive[s]
            /\ stored[Key[s]] = pivotActive[s]
            /\ \A block \in Blocks[pivotPage] :
                 block \intersect AllOptions(s) # {} => (block \in hidden <=> pivotActive[s] \notin block)
       /\ \A block \in hidden : \E s \in PivotHere : block \intersect AllOptions(s) # {}

(* The tabs of the next page and the API references of this one follow the *)
(* AppHost language ("Keep destination Starlight tabs on the same AppHost  *)
(* language").                                                             *)
LanguageFollows ==
    \A s \in PivotHere :
       Key[s] = AspireLang /\ phase[s] = "ready" => tabs = pivotActive[s] /\ apphostLang = pivotActive[s]

(* What the visitor chose, or followed a link for, is shown on every page  *)
(* as long as the pages offer it.                                          *)
ChoiceFollows ==
    Ready => \A s \in PivotHere : wish[Key[s]] # PivotNone => pivotActive[s] = wish[Key[s]]

-----------------------------------------------------------------------------

(***************************************************************************)
(* The pivot selector as the page scrolls (pivot-selector.ts): it floats   *)
(* once the page is scrolled past its place, and is collapsed then until   *)
(* the visitor expands it; five seconds after that the next scroll         *)
(* collapses it again.  Its animation frame and its three timers run out   *)
(* at any time after they were set, and in any order.                      *)
(***************************************************************************)

CONSTANT FloatingMaxActs    \* bound: what the visitor does

ASSUME FloatingAssumption == FloatingMaxActs \in Nat

VARIABLES
    past,   \* the page is scrolled past the place of the selector
    floating, collapsed, userExpanded, enableScrollCollapse,
    frame, resizeTimer, autoTimer, scrollTimer,
    alive,  \* neither disconnected nor about to be swapped
    rested, \* what has happened since the visitor expanded it
    floatingActs

floatingVars == <<past, floating, collapsed, userExpanded, enableScrollCollapse,
                  frame, resizeTimer, autoTimer, scrollTimer, alive, rested, floatingActs>>

Timers == <<frame, resizeTimer, autoTimer, scrollTimer>>

(* setCollapsed, with clearCollapseTimers.                                 *)
SetCollapsed(to, byUser) ==
    /\ collapsed' = to
    /\ userExpanded' = byUser
    /\ enableScrollCollapse' = FALSE
    /\ scrollTimer' = FALSE
    /\ autoTimer' = byUser

(* initialize(): a first update is scheduled.                              *)
FloatingInit ==
    /\ past \in BOOLEAN
    /\ floating = FALSE /\ collapsed = FALSE
    /\ userExpanded = FALSE /\ enableScrollCollapse = FALSE
    /\ frame = TRUE
    /\ resizeTimer = FALSE /\ autoTimer = FALSE /\ scrollTimer = FALSE
    /\ alive = TRUE
    /\ rested = "no"
    /\ floatingActs = 0

FloatingAct == alive /\ floatingActs < FloatingMaxActs /\ floatingActs' = floatingActs + 1

(* The scroll listener; far is more than ten pixels.                       *)
FloatingScroll(to, far) ==
    /\ FloatingAct
    /\ to # past => far
    /\ past' = to
    /\ frame' = TRUE
    /\ LET collapses == floating /\ ~collapsed /\ userExpanded /\ enableScrollCollapse /\ far
       IN /\ scrollTimer' = (scrollTimer \/ collapses)
          /\ rested' = IF rested = "five seconds" /\ far THEN "scrolled" ELSE rested
    /\ UNCHANGED <<floating, collapsed, userExpanded, enableScrollCollapse,
                   resizeTimer, autoTimer, alive>>

(* updateFloatingState.                                                    *)
UpdateFloatingState ==
    /\ frame
    /\ frame' = FALSE
    /\ floating' = past
    /\ IF past = floating
       THEN UNCHANGED <<collapsed, userExpanded, enableScrollCollapse, autoTimer, scrollTimer>>
       ELSE SetCollapsed(past, FALSE)
    /\ UNCHANGED <<past, resizeTimer, alive, rested, floatingActs>>

(* The layout changes: the place of the selector may move past the top.    *)
FloatingResize(to) ==
    /\ FloatingAct
    /\ past' = to
    /\ resizeTimer' = TRUE
    /\ UNCHANGED <<floating, collapsed, userExpanded, enableScrollCollapse,
                   frame, autoTimer, scrollTimer, alive, rested>>

ResizeTimer ==
    /\ resizeTimer
    /\ resizeTimer' = FALSE
    /\ frame' = TRUE
    /\ UNCHANGED <<past, floating, collapsed, userExpanded, enableScrollCollapse,
                   autoTimer, scrollTimer, alive, rested, floatingActs>>

(* The buttons; they are shown on a selector that floats.                  *)
Collapse ==
    /\ FloatingAct /\ floating /\ ~collapsed
    /\ SetCollapsed(TRUE, FALSE)
    /\ UNCHANGED <<past, floating, frame, resizeTimer, alive, rested>>

Expand ==
    /\ FloatingAct /\ floating /\ collapsed
    /\ SetCollapsed(FALSE, TRUE)
    /\ rested' = "no"
    /\ UNCHANGED <<past, floating, frame, resizeTimer, alive>>

AutoTimer ==
    /\ autoTimer
    /\ autoTimer' = FALSE
    /\ enableScrollCollapse' = (floating /\ ~collapsed)
    /\ rested' = "five seconds"
    /\ UNCHANGED <<past, floating, collapsed, userExpanded, frame, resizeTimer,
                   scrollTimer, alive, floatingActs>>

ScrollTimer ==
    /\ scrollTimer
    /\ SetCollapsed(TRUE, FALSE)
    /\ UNCHANGED <<past, floating, frame, resizeTimer, alive, rested, floatingActs>>

(* dispose(): before-swap or disconnectedCallback.                         *)
Dispose ==
    /\ alive
    /\ alive' = FALSE
    /\ frame' = FALSE /\ resizeTimer' = FALSE /\ autoTimer' = FALSE /\ scrollTimer' = FALSE
    /\ UNCHANGED <<past, floating, collapsed, userExpanded, enableScrollCollapse, rested, floatingActs>>

FloatingNext ==
    \/ \E to, far \in BOOLEAN : FloatingScroll(to, far)
    \/ \E to \in BOOLEAN : FloatingResize(to)
    \/ UpdateFloatingState \/ ResizeTimer \/ AutoTimer \/ ScrollTimer
    \/ Collapse \/ Expand \/ Dispose

FloatingSpec == FloatingInit /\ [][FloatingNext]_floatingVars

FloatingTypeOK ==
    /\ \A flag \in {past, floating, collapsed, userExpanded, enableScrollCollapse, alive} :
         flag \in BOOLEAN
    /\ Timers \in BOOLEAN \X BOOLEAN \X BOOLEAN \X BOOLEAN
    /\ rested \in {"no", "five seconds", "scrolled"}
    /\ autoTimer => userExpanded /\ ~collapsed
    /\ floatingActs \in 0 .. FloatingMaxActs

(* When no update is due the selector floats just when the page is         *)
(* scrolled past it, and it is collapsed only while it floats.             *)
FloatsPastItsPlace ==
    /\ alive /\ ~frame /\ ~resizeTimer => floating = past
    /\ collapsed => floating

(* "Expansion remains open for five seconds, then the next scroll can      *)
(* collapse it": nothing is about to collapse what the visitor expanded    *)
(* less than that, or no scroll, before.                                   *)
ExpansionRemainsOpen ==
    /\ scrollTimer => rested = "scrolled" /\ userExpanded /\ floating /\ ~collapsed
    /\ enableScrollCollapse => rested # "no"

(* Nothing runs on for a page that is gone.                                *)
NothingRunsOn == ~alive => Timers = <<FALSE, FALSE, FALSE, FALSE>>

-----------------------------------------------------------------------------

(***************************************************************************)
(* What plays on the home page only while it can be seen                   *)
(* (viewport-activation.ts).  An observer looks at its targets in an       *)
(* animation frame, which scrolling, the end of a transition and a refresh *)
(* ask for, and tells its caller which became active.  A target that shows *)
(* most of itself but never all of it is activated after a fail-safe       *)
(* delay; one inside a part of the page that fades in waits until that has *)
(* settled.  What a caller does may reveal the targets of other observers. *)
(*                                                                         *)
(* How much of a target shows is one of four levels: "out" of the view,    *)
(* "slight" below the fail-safe ratio, "most" of it, or the "whole".       *)
(* Targets are taller than ten times the tolerance.                        *)
(***************************************************************************)

CONSTANTS
    Targets, Observers,
    ObserverOf, \* target -> observer
    Once,       \* the observers with this option, and with the next two
    RequireComplete,
    WaitForReveal,
    Reveals,    \* target -> the targets its caller reveals
    MaxMoves    \* bound: scrolls, and calls of the page

ASSUME ObserversAssumption == ObserverOf \in [Targets -> Observers]

ASSUME RevealersDoNotWait ==
    \A target \in Targets : Reveals[target] # {} => ObserverOf[target] \notin WaitForReveal

VARIABLES
    viewportView,  \* target -> how much of it shows
    settled,       \* the targets whose reveal has settled
    states,        \* observed target -> [activated, active, ready, timer]
    viewportFrame, \* the observers with an animation frame requested
    disconnected,  \* observers
    viewportTold,  \* target -> what its caller heard last
    viewportMoves

viewportVars == <<viewportView, settled, states, viewportFrame, disconnected, viewportTold, viewportMoves>>

Levels == {"out", "slight", "most", "whole"}

Observed == DOMAIN states

Of(o) == {t \in Observed : ObserverOf[t] = o}

Intersects(t) == viewportView[t] # "out"

FailSafeEligible(t) == viewportView[t] \in {"most", "whole"}

FullyPresented(t) == viewportView[t] = "whole"

ViewportInit ==
    /\ viewportView \in [Targets -> Levels]
    /\ settled \in SUBSET Targets
    /\ states = <<>>
    /\ viewportFrame = {} /\ disconnected = {}
    /\ viewportTold = [t \in Targets |-> FALSE]
    /\ viewportMoves = 0

Move == viewportMoves < MaxMoves /\ viewportMoves' = viewportMoves + 1

(* refresh, of every observer that is still connected.                     *)
Refreshed(observers) == viewportFrame \union (observers \ disconnected)

ClearFailSafe(state) == [state EXCEPT !.ready = FALSE, !.timer = FALSE]

Observe(t) ==
    /\ Move
    /\ ObserverOf[t] \notin disconnected /\ t \notin Observed
    /\ states' = [u \in Observed \union {t} |->
                     IF u = t THEN [activated |-> FALSE, active |-> FALSE,
                                    ready |-> FALSE, timer |-> FALSE]
                     ELSE states[u]]
    /\ viewportFrame' = Refreshed({ObserverOf[t]})
    /\ viewportTold' = [viewportTold EXCEPT ![t] = FALSE]
    /\ UNCHANGED <<viewportView, settled, disconnected>>

Without(targets) == [u \in Observed \ targets |-> states[u]]

Unobserve(t) ==
    /\ Move /\ t \in Observed
    /\ states' = Without({t})
    /\ UNCHANGED <<viewportView, settled, viewportFrame, disconnected, viewportTold>>

ViewportDisconnect(o) ==
    /\ Move /\ o \notin disconnected
    /\ disconnected' = disconnected \union {o}
    /\ viewportFrame' = viewportFrame \ {o}
    /\ states' = Without(Of(o))
    /\ UNCHANGED <<viewportView, settled, viewportTold>>

(* handleViewportChange: the page scrolls or changes its size.             *)
ViewportScroll(t, level) ==
    /\ Move
    /\ viewportView' = [viewportView EXCEPT ![t] = level]
    /\ states' = [u \in Observed |-> IF states[u].activated THEN states[u]
                                     ELSE ClearFailSafe(states[u])]
    /\ viewportFrame' = Refreshed(Observers)
    /\ UNCHANGED <<settled, disconnected, viewportTold>>

(* The end of the transition that reveals a part of the page.              *)
ViewportSettle(t) ==
    /\ t \notin settled
    /\ settled' = settled \union {t}
    /\ viewportFrame' = Refreshed(Observers)
    /\ UNCHANGED <<viewportView, states, disconnected, viewportTold, viewportMoves>>

PresentationReady(t) == ObserverOf[t] \notin WaitForReveal \/ t \in settled

ThresholdReached(t) ==
    IF ObserverOf[t] \in RequireComplete
    THEN FullyPresented(t) \/ (states[t].ready /\ FailSafeEligible(t))
    ELSE Intersects(t)

(* One target of evaluate.                                                 *)
Evaluated(t) ==
    LET state == states[t]
        activated ==
          IF state.activated THEN state
          ELSE IF PresentationReady(t) /\ ThresholdReached(t)
          THEN [ClearFailSafe(state) EXCEPT !.activated = TRUE]
          ELSE IF ObserverOf[t] \in RequireComplete /\ FailSafeEligible(t)
          THEN [state EXCEPT !.timer = @ \/ ~state.ready]
          ELSE ClearFailSafe(state)
    IN [activated EXCEPT !.active = activated.activated /\ (ObserverOf[t] \in Once \/ Intersects(t))]

(* evaluate: the callers hear of what changed and may reveal other parts   *)
(* of the page and ask for a refresh (HomePage.astro); a target of an      *)
(* observer with once is done when it is activated.                        *)
Evaluate(o) ==
    /\ o \in viewportFrame
    /\ LET changed == {t \in Of(o) : Evaluated(t).active # states[t].active}
           completed == {t \in Of(o) : o \in Once /\ Evaluated(t).activated}
           revealed == UNION {Reveals[t] : t \in changed}
       IN /\ states' = [u \in Observed \ completed |->
                           IF u \in Of(o) THEN Evaluated(u) ELSE states[u]]
          /\ viewportTold' = [t \in Targets |-> IF t \in changed THEN Evaluated(t).active ELSE viewportTold[t]]
          /\ settled' = settled \union revealed
          /\ viewportFrame' = IF revealed = {} THEN viewportFrame \ {o}
                              ELSE (viewportFrame \ {o}) \union (Observers \ disconnected)
    /\ UNCHANGED <<viewportView, disconnected, viewportMoves>>

(* The fail-safe delay of a target is over.                                *)
FailSafe(t) ==
    /\ t \in Observed /\ states[t].timer
    /\ states' = [states EXCEPT ![t].timer = FALSE, ![t].ready = TRUE]
    /\ viewportFrame' = Refreshed({ObserverOf[t]})
    /\ UNCHANGED <<viewportView, settled, disconnected, viewportTold, viewportMoves>>

ViewportNext ==
    \/ \E t \in Targets : Observe(t) \/ Unobserve(t) \/ ViewportSettle(t) \/ FailSafe(t)
    \/ \E t \in Targets, level \in Levels : ViewportScroll(t, level)
    \/ \E o \in Observers : ViewportDisconnect(o) \/ Evaluate(o)

(* Browsers run animation frames and timers, and transitions end.          *)
ViewportFairness ==
    /\ \A o \in Observers : WF_viewportVars(Evaluate(o))
    /\ \A t \in Targets : WF_viewportVars(FailSafe(t)) /\ WF_viewportVars(ViewportSettle(t))

ViewportSpec == ViewportInit /\ [][ViewportNext]_viewportVars /\ ViewportFairness

ViewportTypeOK ==
    /\ Observed \subseteq Targets
    /\ \A t \in Observed : ObserverOf[t] \notin disconnected
    /\ viewportFrame \intersect disconnected = {}

(* While nothing is left to evaluate, what a caller was told is how things *)
(* are: a target plays if it was activated and can be seen.                *)
ToldIsTrue ==
    \A t \in Observed : ObserverOf[t] \notin viewportFrame =>
        /\ viewportTold[t] = states[t].active
        /\ states[t].active <=> states[t].activated /\ Intersects(t)

(* A delay that runs or has run out is about the view as it is: any scroll *)
(* starts it anew, and a target that left is not activated by an old one.  *)
DelayIsCurrent ==
    \A t \in Observed :
        states[t].timer \/ states[t].ready =>
            FailSafeEligible(t) /\ ~states[t].activated
            /\ ~(states[t].timer /\ states[t].ready)

(* What a caller starts, with a part that fades in, has been revealed.     *)
RevealedFirst ==
    \A t \in Targets : viewportTold[t] /\ ObserverOf[t] \in WaitForReveal => t \in settled

(* What is to happen once happens once: the caller is never told that it   *)
(* is over, unless the target is observed again.                           *)
OnceStays ==
    [][\A t \in Targets : ObserverOf[t] \in Once /\ viewportTold[t] /\ ~viewportTold'[t] =>
          t \notin Observed /\ t \in Observed']_viewportVars
=============================================================================
