------------------------------ MODULE SiteTour ------------------------------
(***************************************************************************)
(* The guided tour of the site (site-tour.ts): a modal layer that walks    *)
(* through those of its steps that the page has, with progress kept in     *)
(* localStorage, while targets come and go, the window is resized and the  *)
(* client router swaps pages under it.  Every handler runs to completion.  *)
(*                                                                         *)
(* Steps are numbered in SITE_TOUR_STEP_ORDER, so that a list of steps is  *)
(* a set of numbers; currentIndex is a position in it.  singleStepMode is  *)
(* never set by the code and is left out; so are wording and the elements  *)
(* that have the focus; the geometry of a step is the second part.         *)
(***************************************************************************)
EXTENDS Naturals, FiniteSets, FiniteSetsExt, Integers

CONSTANTS
    StepCount,  \* number of steps
    Help,       \* the step whose target is the help button
    MaxRetries, \* refreshes tried again on a page without targets
    MaxChanges, \* bound: changes of the page and the window
    MaxDetours  \* bound: times the visitor goes back, jumps or starts over

Steps == 1 .. StepCount

TourFirst == 1

ASSUME StepsAssumption == StepCount \in Nat /\ Help \in Steps /\ MaxRetries \in Nat

VARIABLES
    tourPage, \* targets: the steps with a usable target; wide; landing
    tour,     \* the fields of AspireSiteTour that matter
    changes,  \* page changes and detours so far
    detours,
    told,     \* history: the page at the last syncHelpButtons
    stray     \* history: a frame rendered the tour while it was closed, or its
             \* list was rebuilt and not rendered

tourVars == <<tourPage, tour, changes, detours, told, stray>>

TourNone == {}   \* activeStepIds = null

TourTypeOK ==
    /\ tourPage \in [targets : SUBSET Steps, wide : BOOLEAN, landing : BOOLEAN]
    /\ tour \in [open : BOOLEAN, steps : SUBSET Steps, index : 1 .. StepCount,
                 active : SUBSET Steps, mode : {"all", "new"},
                 started : BOOLEAN, completed : BOOLEAN, once : BOOLEAN,
                 current : Steps, seen : SUBSET Steps,
                 label : {"new", "resume", "start", "off"},
                 shown : Steps \cup {0}, hushed : Steps \cup {0},
                 frame : BOOLEAN, timer : BOOLEAN, retry : BOOLEAN, retries : 0 .. MaxRetries]
    /\ tour.open => tour.active # TourNone
    /\ tour.open /\ tour.steps # {} => tour.index <= Cardinality(tour.steps)
    /\ told \in [targets : SUBSET Steps, wide : BOOLEAN, landing : BOOLEAN]
    /\ stray \in BOOLEAN

(* Lists of steps *)
At(S, i) == CHOOSE s \in S : Cardinality({t \in S : t <= s}) = i

PositionOf(S, s) == Cardinality({t \in S : t <= s})

Clamp(i, S) == IF i > Cardinality(S) THEN Cardinality(S) ELSE i

\* The stored step, or the next one the page has, or the last one.
ResolveStored(S, s) ==
    IF S = {} THEN 1
    ELSE IF \E t \in S : t >= s THEN PositionOf(S, Min({t \in S : t >= s}))
    ELSE Cardinality(S)

Available(p) == IF p.wide THEN p.targets ELSE {}

NewSteps(T, p) == Available(p) \ T.seen

BuildSteps(T, p) == IF T.mode = "new" THEN NewSteps(T, p) ELSE Available(p)

CurrentStep(T) == IF T.index <= Cardinality(T.steps) THEN At(T.steps, T.index) ELSE 0

CurrentOrStored(T) == IF CurrentStep(T) = 0 THEN T.current ELSE CurrentStep(T)

(* The methods, as functions of the tour and the page *)
Label(T, p) ==
    IF ~p.wide THEN "off"
    ELSE IF NewSteps(T, p) # {} THEN "new"
    ELSE IF ~T.once /\ T.started /\ ~T.completed THEN "resume"
    ELSE "start"

SyncHelpButtons(T, p) == [T EXCEPT !.label = Label(T, p)]

\* The tooltips around the target of step s are put away, and those put away
\* before are put back.
UpdateSuppressedTooltips(T, s) == [T EXCEPT !.hushed = s]

RestoreSuppressedTooltips(T) == [T EXCEPT !.hushed = 0]

Close(T, keep) ==
    RestoreSuppressedTooltips(
        [T EXCEPT !.open = FALSE, !.timer = FALSE, !.mode = "all", !.active = TourNone, !.shown = 0,
                  !.current = IF keep THEN CurrentOrStored(T) ELSE @])

\* Broken: the index stays when the list shrinks.
RefreshKeepIndex(T, p, preserve) ==
    [T EXCEPT !.steps = IF T.active # TourNone THEN Available(p) \cap T.active ELSE BuildSteps(T, p)]

RefreshActiveSteps(T, p, preserve) ==
    LET next == IF T.active # TourNone THEN Available(p) \cap T.active ELSE BuildSteps(T, p)
    IN  [T EXCEPT !.steps = next,
                  !.index = IF preserve \in next THEN PositionOf(next, preserve)
                            ELSE ResolveStored(next, T.current)]

\* A target found by the rebuilt list is still there when it is shown.
TourRender(T, p, scroll) ==
    LET R == RefreshActiveSteps(T, p, CurrentOrStored(T))
    IN  IF R.steps = {} THEN Close(R, FALSE)
        ELSE UpdateSuppressedTooltips(
                 SyncHelpButtons([R EXCEPT !.shown = CurrentStep(R), !.timer = @ \/ scroll], p),
                 CurrentStep(R))

GoToIndex(T, p, i) ==
    LET M == [T EXCEPT !.index = Clamp(i, T.steps)]
    IN  TourRender([M EXCEPT !.current = CurrentStep(M)], p, TRUE)

OpenAt(T, p, i) ==
    LET B == [T EXCEPT !.steps = BuildSteps(T, p)]
        O == [B EXCEPT !.active = B.steps, !.open = TRUE, !.index = Clamp(i, B.steps)]
    IN  IF B.steps = {} THEN [B EXCEPT !.index = 1]
        ELSE TourRender([O EXCEPT !.current = CurrentStep(O)], p, TRUE)

Restart(T, p) ==
    OpenAt([T EXCEPT !.mode = "all", !.started = TRUE, !.completed = FALSE, !.current = TourFirst], p, 1)

\* The index is looked up in the list of the last tour.
Resume(T, p) == OpenAt([T EXCEPT !.mode = "all"], p, ResolveStored(T.steps, T.current))

OpenNew(T, p) == OpenAt([T EXCEPT !.mode = "new", !.started = TRUE], p, 1)

Complete(T, p) ==
    SyncHelpButtons(
        Close([T EXCEPT !.once = TRUE, !.completed = TRUE, !.current = TourFirst], FALSE), p)

MarkSeen(T) == [T EXCEPT !.seen = @ \cup {CurrentStep(T)}]

Advance(T, p) ==
    LET R == RefreshActiveSteps(T, p, CurrentOrStored(T))
    IN  IF R.steps = {} THEN Close(R, FALSE)
        ELSE IF R.index >= Cardinality(R.steps) THEN Complete(MarkSeen(R), p)
        ELSE GoToIndex(MarkSeen(R), p, R.index + 1)

\* goBack and jumpTo: to another step of the list as the page has it now.
JumpTo(T, p, i) ==
    LET R == RefreshActiveSteps(T, p, CurrentOrStored(T))
    IN  IF R.steps = {} THEN Close(R, FALSE)
        ELSE IF Clamp(i, R.steps) = R.index THEN TourRender(R, p, FALSE)
        ELSE GoToIndex(MarkSeen(R), p, i)

GoBack(T, p) ==
    LET R == RefreshActiveSteps(T, p, CurrentOrStored(T))
    IN  IF R.steps = {} THEN Close(R, FALSE)
        ELSE IF R.index <= 1 THEN R
        ELSE GoToIndex(MarkSeen(R), p, R.index - 1)

Trigger(T, p) ==
    IF NewSteps(T, p) # {} THEN OpenNew(T, p)
    ELSE IF ~T.once /\ T.started /\ ~T.completed THEN Resume(T, p)
    ELSE Restart(T, p)

ScheduleRender(T) == [T EXCEPT !.frame = @ \/ T.open]

ScheduleRetry(T) ==
    IF T.retry \/ T.retries >= MaxRetries THEN T
    ELSE [T EXCEPT !.retry = TRUE, !.retries = @ + 1]

ClearRetry(T) == [T EXCEPT !.retry = FALSE, !.retries = 0]

Refresh(T, p, navigated) ==
    LET C == IF navigated /\ T.open THEN Close(T, TRUE) ELSE T
        S == SyncHelpButtons([C EXCEPT !.steps = BuildSteps(C, p)], p)
    IN  IF ~p.wide \/ p.landing THEN Close(ClearRetry(S), FALSE)
        ELSE IF S.steps = {} THEN Close(ScheduleRetry(S), FALSE)
        ELSE IF S.open
        THEN TourRender([ClearRetry(S) EXCEPT !.index = ResolveStored(S.steps, S.current)], p, TRUE)
        ELSE ClearRetry(S)

TourPages == [targets : SUBSET Steps, wide : BOOLEAN, landing : BOOLEAN]

NewTour ==
    [open |-> FALSE, steps |-> {}, index |-> 1, active |-> TourNone, mode |-> "all",
     started |-> FALSE, completed |-> FALSE, once |-> FALSE, current |-> TourFirst, seen |-> {},
     label |-> "off", shown |-> 0, hushed |-> 0,
     frame |-> FALSE, timer |-> FALSE, retry |-> FALSE, retries |-> 0]

TourInit ==
    /\ tourPage \in TourPages
    /\ tour = Refresh(NewTour, tourPage, FALSE)
    /\ changes = 0 /\ detours = 0
    /\ told = tourPage /\ stray = FALSE

\* What is on the screen is not the step of the tour.
Apart(T) == IF T.open THEN T.shown # CurrentStep(T) ELSE T.hushed # 0

\* A handler leaves the tour as T, having told the help button or not, and
\* perhaps without rendering the step it moved to.
DoStraying(T, tells, strays) ==
    /\ tour' = T
    /\ told' = IF tells THEN tourPage' ELSE told
    /\ stray' = ((stray \/ strays) /\ Apart(tour'))

Do(T, tells) == DoStraying(T, tells, FALSE)

Stay == UNCHANGED <<tourPage, changes>>

\* The trigger answers if the layer does not cover it.
ClickTrigger ==
    /\ ~tour.open /\ tourPage.wide /\ Help \in tourPage.targets
    /\ detours < MaxDetours /\ detours' = detours + 1
    /\ Stay /\ Do(Trigger(tour, tourPage), TRUE)

\* The backdrop or the highlighted target is clicked.
ClickAway ==
    /\ tour.open
    /\ Stay /\ UNCHANGED detours
    /\ Do(SyncHelpButtons(Close(tour, TRUE), tourPage), TRUE)

\* The close button or Escape.
Dismiss ==
    /\ tour.open
    /\ Stay /\ UNCHANGED detours
    /\ Do(Close(tour, TRUE), FALSE)

ClickNext ==
    /\ tour.open
    /\ Stay /\ UNCHANGED detours
    /\ Do(Advance(tour, tourPage), tour'.steps # {})

Detour ==
    /\ tour.open /\ detours < MaxDetours /\ detours' = detours + 1
    /\ Stay
    /\ \/ DoStraying(Restart(tour, tourPage), tour'.steps # {}, tour'.steps = {})
       \/ /\ tour.index > 1
          /\ LET moves == RefreshActiveSteps(tour, tourPage, CurrentOrStored(tour)).index > 1
             IN  DoStraying(GoBack(tour, tourPage), moves, ~moves)
       \/ \E i \in 1 .. Cardinality(tour.steps) : Do(JumpTo(tour, tourPage, i), tour'.open)

\* Something on the page appears or goes away; nobody is told.
TourChangePage ==
    /\ changes < MaxChanges /\ changes' = changes + 1
    /\ \E S \in SUBSET Steps : tourPage' = [tourPage EXCEPT !.targets = S]
    /\ UNCHANGED <<tour, detours, told, stray>>

Resize ==
    /\ changes < MaxChanges /\ changes' = changes + 1
    /\ \E w \in BOOLEAN : tourPage' = [tourPage EXCEPT !.wide = w]
    /\ UNCHANGED detours
    /\ Do(ScheduleRender(Refresh(tour, tourPage', FALSE)), TRUE)

\* astro:after-swap on another path.
TourNavigate ==
    /\ changes < MaxChanges /\ changes' = changes + 1
    /\ \E q \in TourPages : q.wide = tourPage.wide /\ tourPage' = q
    /\ UNCHANGED detours
    /\ Do(Refresh(tour, tourPage', TRUE), TRUE)

\* A new document: progress is what localStorage has.
Reload ==
    /\ changes < MaxChanges /\ changes' = changes + 1
    /\ UNCHANGED <<tourPage, detours>>
    /\ Do(Refresh([NewTour EXCEPT !.started = tour.started, !.completed = tour.completed,
                                  !.once = tour.once, !.current = tour.current, !.seen = tour.seen],
                  tourPage, FALSE), TRUE)

Scroll ==
    /\ tour.open /\ ~tour.frame
    /\ Stay /\ UNCHANGED detours
    /\ Do(ScheduleRender(tour), FALSE)

\* The frame renders whether the tour is still open or not.
Frame ==
    /\ tour.frame
    /\ Stay /\ UNCHANGED detours
    /\ DoStraying(TourRender([tour EXCEPT !.frame = FALSE], tourPage, FALSE), tour'.steps # {}, ~tour.open)

Timer ==
    /\ tour.timer
    /\ Stay /\ UNCHANGED detours
    /\ Do(ScheduleRender([tour EXCEPT !.timer = FALSE]), FALSE)

RetryTimer ==
    /\ tour.retry
    /\ Stay /\ UNCHANGED detours
    /\ Do(Refresh([tour EXCEPT !.retry = FALSE], tourPage, FALSE), TRUE)

TourNext ==
    \/ ClickTrigger \/ ClickAway \/ Dismiss \/ ClickNext \/ Detour
    \/ TourChangePage \/ Resize \/ TourNavigate \/ Reload
    \/ Scroll \/ Frame \/ Timer \/ RetryTimer

TourSafeSpec == TourInit /\ [][TourNext]_tourVars

\* A visitor who keeps clicking the Next button of an open tour.  It is
\* WF_vars(ClickNext): an open tour always lets him click, and it changes it.
KeepsClicking == []<>(~tour.open) \/ []<><<ClickNext>>_tourVars

TourSpec == TourSafeSpec /\ KeepsClicking

(* The help button says what it will do (new tips, resume or start) in      *)
(* every state of the tour, as long as the page is as the tour last saw it. *)
LabelTruthful == tourPage = told => tour.label = Label(tour, tourPage)

(* An open tour shows the step it is at, with that step's tooltips out of   *)
(* the way, and a closed one gives every tooltip back; but for a frame that *)
(* was requested before the tour was closed, the Previous button when the   *)
(* steps before are gone, and starting over on a page that lost every step. *)
ShownAndHushed == (tour.open => tour.hushed = tour.shown) /\ (Apart(tour) => stray)

(* A running tour keeps to its list: rendering, scrolling and resizing it   *)
(* do not move it to another step while the page has the current one and    *)
(* the tour is one of all steps.                                            *)
PlaceKept ==
    [][(Frame \/ Resize \/ RetryTimer) /\ tour.open /\ tour'.open /\ tour.mode = "all"
         /\ tour.current = CurrentStep(tour) /\ tour.current \in tourPage'.targets
       => CurrentStep(tour') = tour.current]_tourVars

(* Clicking Next gets to the end, whatever comes, goes and is revisited on  *)
(* the way: no step leads back for ever.                                    *)
TourEnds == []<>(~tour.open)

-----------------------------------------------------------------------------

(***************************************************************************)
(* Where the site tour puts its spotlight, its backdrop and its card        *)
(* (site-tour.ts, render and position...), in pixels of the viewport.  The  *)
(* target is anywhere on or off the screen: the page scrolls smoothly to it *)
(* and is rendered on the way.                                              *)
(***************************************************************************)

CONSTANTS
    Viewports,     \* [w, h]
    GeometryCards, \* sizes of the card
    Edges,         \* bound: positions of a target
    Sizes,         \* bound: sizes of a target
    Paddings       \* getStepHighlightPadding

ASSUME GeometryAssumption ==
    /\ Viewports \subseteq [w : Nat, h : Nat] /\ GeometryCards \subseteq [w : Nat, h : Nat]
    /\ Edges \subseteq Int /\ Sizes \subseteq Nat /\ Paddings \subseteq Nat

VARIABLES
    geometryView,   \* the viewport
    geometryTarget, \* the bounding rectangle of the target
    hole,           \* the spotlight
    geometryCard    \* where the card is

geometryVars == <<geometryView, geometryTarget, hole, geometryCard>>

Rect(l, t, r, b) == [left |-> l, top |-> t, right |-> r, bottom |-> b]

MinOf(a, b) == IF a < b THEN a ELSE b

MaxOf(a, b) == IF a > b THEN a ELSE b

clamp(value, min, max) == MinOf(MaxOf(value, min), max)

\* Points in half-open rectangles.
Within(x, y, R) == R.left <= x /\ x < R.right /\ R.top <= y /\ y < R.bottom

GeometryApart(R, S) ==
    R.right <= S.left \/ S.right <= R.left \/ R.bottom <= S.top \/ S.bottom <= R.top

Hole(v, t, padding) ==
    LET top    == clamp(t.top - padding, 0, v.h)
        left   == clamp(t.left - padding, 0, v.w)
        width  == clamp(t.right - t.left + padding * 2, 0, v.w)
        height == clamp(t.bottom - t.top + padding * 2, 0, v.h)
    IN  Rect(left, top, clamp(left + width, 0, v.w), clamp(top + height, 0, v.h))

Segments(v, h) ==
    {Rect(0, 0, v.w, h.top), Rect(0, h.top, h.left, h.bottom),
     Rect(h.right, h.top, h.right + MaxOf(v.w - h.right, 0), h.bottom),
     Rect(0, h.bottom, v.w, h.bottom + MaxOf(v.h - h.bottom, 0))}

Margin == 16

FitsRight(v, h, c) == v.w - h.right >= c.w + Margin

FitsLeft(v, h, c) == h.left >= c.w + Margin

FitsBottom(v, h, c) == v.h - h.bottom >= c.h + Margin

Beside(v, h, c) == clamp(h.top, Margin, v.h - c.h - Margin)

Below(v, h, c) == clamp(h.left, Margin, v.w - c.w - Margin)

CardAt(v, h, c) ==
    LET left ==
          IF v.w <= 768 THEN clamp((v.w - c.w) \div 2, 8, v.w - c.w - 8)
          ELSE IF FitsRight(v, h, c) THEN h.right + Margin
          ELSE IF FitsLeft(v, h, c) THEN h.left - c.w - Margin
          ELSE Below(v, h, c)
        top ==
          IF v.w <= 768 THEN clamp(v.h - c.h - 8, 8, v.h - c.h - 8)
          ELSE IF FitsRight(v, h, c) \/ FitsLeft(v, h, c) THEN Beside(v, h, c)
          ELSE IF FitsBottom(v, h, c) THEN h.bottom + Margin
          ELSE clamp(h.top - c.h - Margin, Margin, v.h - c.h - Margin)
    IN  Rect(left, top, left + c.w, top + c.h)

Origin == Rect(0, 0, 0, 0)

GeometryInit ==
    /\ geometryView \in Viewports
    /\ \E x, y \in Edges, w, h \in Sizes : geometryTarget = Rect(x, y, x + w, y + h)
    /\ hole = Origin /\ geometryCard = Origin

GeometryRender ==
    /\ \E p \in Paddings : hole' = Hole(geometryView, geometryTarget, p)
    /\ \E c \in GeometryCards : geometryCard' = CardAt(geometryView, hole', c)
    /\ UNCHANGED <<geometryView, geometryTarget>>

GeometryNext == GeometryRender

GeometrySpec == GeometryInit /\ [][GeometryNext]_geometryVars

Corners(R) == {R.left, R.right - 1} \X {R.top, R.bottom - 1}

Rendered == geometryCard # Origin

(* What the viewport shows of the target is in the spotlight, however the   *)
(* target is cut off by the edges: the backdrop never takes a click on it.  *)
HoleShowsTarget ==
    Rendered => \A p \in Corners(Rect(MaxOf(geometryTarget.left, 0), MaxOf(geometryTarget.top, 0),
                                      MinOf(geometryTarget.right, geometryView.w), MinOf(geometryTarget.bottom, geometryView.h))) :
        Within(p[1], p[2], geometryTarget) /\ Within(p[1], p[2], Rect(0, 0, geometryView.w, geometryView.h))
          => Within(p[1], p[2], hole)

(* The spotlight and the four segments of the backdrop tile the viewport:   *)
(* every point is dimmed or in the light, and in one of them only.          *)
BackdropTiles ==
    Rendered => \A x \in {0, hole.left - 1, hole.left, hole.right - 1, hole.right, geometryView.w - 1} :
        \A y \in {0, hole.top - 1, hole.top, hole.bottom - 1, hole.bottom, geometryView.h - 1} :
            Within(x, y, Rect(0, 0, geometryView.w, geometryView.h)) =>
                LET over == {R \in Segments(geometryView, hole) \cup {hole} : Within(x, y, R)}
                IN  over # {} /\ \A R, S \in over : R = S

(* The card is on the screen as long as it and its margins fit in it, and   *)
(* beside the target where one of the three sides has room for it.          *)
CardOnScreen ==
    LET c == [w |-> geometryCard.right - geometryCard.left, h |-> geometryCard.bottom - geometryCard.top]
    IN  Rendered /\ c.w + 2 * Margin <= geometryView.w /\ c.h + 2 * Margin <= geometryView.h =>
            geometryCard.left >= 0 /\ geometryCard.top >= 0 /\ geometryCard.right <= geometryView.w /\ geometryCard.bottom <= geometryView.h

CardBesideHole ==
    LET c == [w |-> geometryCard.right - geometryCard.left, h |-> geometryCard.bottom - geometryCard.top]
    IN  Rendered /\ geometryView.w > 768 /\ (FitsRight(geometryView, hole, c) \/ FitsLeft(geometryView, hole, c) \/ FitsBottom(geometryView, hole, c))
          => GeometryApart(geometryCard, hole)
=============================================================================
