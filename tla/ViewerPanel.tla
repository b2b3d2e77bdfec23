----------------------------- MODULE ViewerPanel ----------------------------
(* What the panel of the OG Viewer (ui/app.js) shows: its title, the page  *)
(* that is browsed, the diagnostics, and the panel itself.                 *)
EXTENDS Naturals, FiniteSets, Sequences, FiniteSetsExt, SequencesExt

-----------------------------------------------------------------------------

(***************************************************************************)
(* The title of an OG Viewer panel (og-preview, extension.mjs and app.js). *)
(* The page of the panel asks its loopback server for the metadata of a    *)
(* URL; when the answer belongs to another URL than the title, the server  *)
(* opens the canvas again, which is the only way to change the title; the  *)
(* server tells the page to load that URL, and the page asks again.        *)
(***************************************************************************)

CONSTANTS
    Urls,     \* URLs that titleKey tells apart
    None,     \* no URL
    Final,    \* where the redirects of a URL end
    Overlap,  \* the visitor loads a page before the last one is there
    MaxLoads, \* bound: loads by the visitor
    MaxSame   \* bound: requests for one URL under way at once

ASSUME FinalAssumption ==
    /\ None \notin Urls /\ Final \in [Urls -> Urls] /\ \A u \in Urls : Final[Final[u]] = Final[u]
    /\ MaxLoads \in Nat /\ MaxSame \in Nat \ {0}

VARIABLES
    entry,      \* the server's [currentUrl, titleKey]
    fetching,   \* requests to /api/fetch under way, by URL
    opening,    \* calls of canvas.open under way
    titleLoads, \* loads by the visitor so far
    opened      \* history: canvas.open calls so far, up to one more than
               \* there may be

titleVars == <<entry, fetching, opening, titleLoads, opened>>

TitleTypeOK ==
    /\ entry \in [currentUrl : Urls \cup {None}, titleKey : Urls \cup {None}]
    /\ fetching \in [Urls -> 0 .. MaxSame]
    /\ opening \subseteq Urls
    /\ titleLoads \in 0 .. MaxLoads
    /\ opened \in 0 .. MaxLoads + 2
    /\ opening # {} => entry.titleKey # None

NothingLoads == opening = {} /\ \A u \in Urls : fetching[u] = 0

\* The canvas is opened, with a URL to load at once or without.
TitleInit ==
    /\ \E u \in Urls \cup {None} :
        /\ entry = [currentUrl |-> u, titleKey |-> u]
        /\ fetching = [v \in Urls |-> IF v = u THEN 1 ELSE 0]
    /\ opening = {} /\ titleLoads = 0 /\ opened = 0

\* load(), in the page.
Request(u) == fetching' = [fetching EXCEPT ![u] = IF @ < MaxSame THEN @ + 1 ELSE @]

Count == opened' = IF opened < MaxLoads + 2 THEN opened + 1 ELSE opened

Visit(u) ==
    /\ titleLoads < MaxLoads
    /\ Overlap \/ NothingLoads
    /\ titleLoads' = titleLoads + 1
    /\ Request(u)
    /\ UNCHANGED <<entry, opening, opened>>

SyncTitle(e, u) ==
    IF u = e.titleKey
    THEN /\ entry' = e
         /\ UNCHANGED <<opening, opened>>
    ELSE /\ entry' = [currentUrl |-> u, titleKey |-> u]
         /\ opening' = opening \cup {u}
         /\ Count

\* The answer of /api/fetch, with the URL the redirects ended at.
Fetched(u) ==
    /\ fetching[u] > 0
    /\ fetching' = [fetching EXCEPT ![u] = @ - 1]
    /\ SyncTitle([entry EXCEPT !.currentUrl = Final[u]], Final[u])
    /\ UNCHANGED titleLoads

FetchFails(u) ==
    /\ fetching[u] > 0
    /\ fetching' = [fetching EXCEPT ![u] = @ - 1]
    /\ UNCHANGED <<entry, opening, titleLoads, opened>>

\* The canvas's open handler: the page is told to load the URL.
Opened(u) ==
    /\ u \in opening
    /\ opening' = opening \ {u}
    /\ entry' = [currentUrl |-> u, titleKey |-> u]
    /\ Request(u)
    /\ UNCHANGED <<titleLoads, opened>>

TitleNext == \E u \in Urls : Visit(u) \/ Fetched(u) \/ FetchFails(u) \/ Opened(u)

\* Requests are answered and calls handled, in any order.
TitleFairness ==
    \A u \in Urls : SF_titleVars(Fetched(u) \/ FetchFails(u)) /\ WF_titleVars(Opened(u))

TitleSafeSpec == TitleInit /\ [][TitleNext]_titleVars

TitleSpec == TitleSafeSpec /\ TitleFairness

(* The panel is opened again at most once for each page the visitor loads,  *)
(* when he waits for one before he loads the next: the load that opening    *)
(* the panel causes does not open it again.                                 *)
OnePerLoad == ~Overlap => opened <= titleLoads + (IF entry.titleKey = None THEN 0 ELSE 1)

(* When the visitor stops, so do the loads: the panel is not opened and     *)
(* loaded for ever.                                                         *)
TitleSettles == <>[]NothingLoads

(* When everything is answered, the title is that of the URL the panel      *)
(* would be opened with.                                                    *)
TitleOfCurrent == NothingLoads => entry.titleKey = entry.currentUrl

-----------------------------------------------------------------------------

(***************************************************************************)
(* The page of the OG Viewer panel (og-preview, ui/app.js): a URL bar, the  *)
(* previews of a page and the Browse frame that shows the page itself.      *)
(* Loads fill the previews and drive the frame; links followed in the frame *)
(* drive the URL bar and the previews.  Answers come in any order.          *)
(***************************************************************************)

CONSTANTS
    BrowseUrls,     \* URLs that canonUrl tells apart
    BrowseNone, Error,
    BrowseFinal,    \* where the redirects of a URL end
    BrowseOverlap,  \* a load may begin before the last one is answered
    BrowseMaxLoads, \* bound: calls of load() under way
    MaxActs         \* bound: things the visitor or the agent does

ASSUME BrowseFinalAssumption ==
    /\ BrowseUrls # {} /\ BrowseNone \notin BrowseUrls /\ Error \notin BrowseUrls /\ BrowseNone # Error
    /\ BrowseFinal \in [BrowseUrls -> BrowseUrls] /\ \A u \in BrowseUrls : BrowseFinal[BrowseFinal[u]] = BrowseFinal[u]
    /\ BrowseMaxLoads \in Nat \ {0} /\ MaxActs \in Nat

VARIABLES
    ui,   \* the variables of the script and what is on the screen
    mail, \* messages posted by the page in the frame
    acts

browseVars == <<ui, mail, acts>>

Load == [url : BrowseUrls, select : BOOLEAN, skip : BOOLEAN, id : 1 .. BrowseMaxLoads]

BrowseTypeOK ==
    /\ ui.input \in BrowseUrls \cup {BrowseNone} /\ ui.shown \in BrowseUrls \cup {BrowseNone}
    /\ ui.pending \in BrowseUrls \cup {BrowseNone} /\ ui.frameUrl \in BrowseUrls \cup {BrowseNone}
    /\ ui.frame \in BrowseUrls \cup {BrowseNone, Error} /\ ui.debounce \in BrowseUrls \cup {BrowseNone}
    /\ ui.active \in BOOLEAN /\ ui.hasBrowse \in BOOLEAN /\ ui.failed \in BOOLEAN
    /\ ui.loads \subseteq Load /\ ui.navs \subseteq [url : BrowseUrls, latest : BOOLEAN]
    /\ mail \in Seq([url : BrowseUrls, mode : {"init", "hard", "soft"}])
    /\ acts \in 0 .. MaxActs
    /\ \A n1, n2 \in ui.navs : n1.latest /\ n2.latest => n1 = n2

FreshPanel ==
    [input |-> BrowseNone, shown |-> BrowseNone, pending |-> BrowseNone, failed |-> FALSE, loads |-> {},
     active |-> TRUE, hasBrowse |-> FALSE, frameUrl |-> BrowseNone, frame |-> BrowseNone,
     navs |-> {}, debounce |-> BrowseNone]

Room == Cardinality(ui.loads) < BrowseMaxLoads

Quiet == ui.loads = {} /\ ui.navs = {} /\ ui.debounce = BrowseNone /\ mail = << >>

\* Broken: the answers of the others are still taken.
AllCount(navs) == navs

\* browseNavToken: only the last navigation fills the frame.
Superseded(navs) == {[n EXCEPT !.latest = FALSE] : n \in navs}

navBrowseFrame(U, u) ==
    [U EXCEPT !.frameUrl = u, !.hasBrowse = TRUE,
              !.navs = Superseded(@) \cup {[url |-> u, latest |-> TRUE]}]

syncBrowseFrame(U, u) ==
    LET P == IF u = BrowseNone THEN U ELSE [U EXCEPT !.pending = u]
    IN  IF P.pending = BrowseNone \/ (~P.active /\ ~P.hasBrowse) \/ P.pending = P.frameUrl
        THEN P ELSE navBrowseFrame(P, P.pending)

\* Calls of load() under way, told apart by the least free number.
Unused(loads) == Min((1 .. BrowseMaxLoads) \ {l.id : l \in loads})

\* load() up to its await: skeletons replace the previews.
load(U, u, select, skip) ==
    IF u = BrowseNone THEN U
    ELSE [U EXCEPT !.input = u, !.shown = BrowseNone,
                   !.loads = @ \cup {[url |-> u, select |-> select, skip |-> skip, id |-> Unused(@)]}]

Loaded(U, l) ==
    LET u == BrowseFinal[l.url]
        D == [U EXCEPT !.loads = @ \ {l}, !.shown = u, !.input = u, !.pending = u, !.failed = FALSE,
                       !.frameUrl = IF l.select THEN BrowseNone ELSE @]
    IN  IF l.skip THEN D ELSE syncBrowseFrame(D, u)

OnMessage(U, m) ==
    IF m.url = U.frameUrl THEN U
    ELSE LET B == [U EXCEPT !.frameUrl = m.url, !.input = m.url, !.debounce = m.url]
         IN  IF m.mode = "soft" THEN B ELSE navBrowseFrame(B, m.url)

\* Loading ?u= on first render, or nothing.
BrowseInit ==
    /\ \E u \in BrowseUrls \cup {BrowseNone} : ui = load(FreshPanel, u, FALSE, FALSE)
    /\ mail = << >> /\ acts = 0

Act ==
    /\ acts < MaxActs /\ acts' = acts + 1
    /\ BrowseOverlap \/ Quiet
    /\ Room
    /\ UNCHANGED mail

Submit(u) == Act /\ ui' = load(ui, u, TRUE, FALSE)

Refresh ==
    /\ Act
    /\ LET u == IF ui.input # BrowseNone THEN ui.input ELSE ui.pending
       IN  ui' = IF ui.active /\ u # BrowseNone
                 THEN load(navBrowseFrame(ui, u), ui.input, FALSE, TRUE)
                 ELSE load(ui, ui.input, FALSE, FALSE)

\* The agent's preview_url, by way of server-sent events.
Pushed(u) == Act /\ ui' = load([ui EXCEPT !.frameUrl = BrowseNone], u, FALSE, FALSE)

activateTab ==
    /\ Act
    /\ \/ /\ ui.active
          /\ ui' = [ui EXCEPT !.active = FALSE]
       \/ /\ ~ui.active
          /\ ui' = syncBrowseFrame([ui EXCEPT !.active = TRUE],
                                   IF ui.pending # BrowseNone THEN ui.pending ELSE ui.input)

\* A link of the page in the frame, or a change of its history.
Follow(u) ==
    /\ acts < MaxActs /\ acts' = acts + 1
    /\ BrowseOverlap \/ Quiet
    /\ ui.frame \in BrowseUrls /\ u # ui.frame
    /\ \/ /\ mail' = Append(mail, [url |-> u, mode |-> "hard"])
          /\ UNCHANGED ui
       \/ /\ mail' = Append(mail, [url |-> u, mode |-> "soft"])
          /\ ui' = [ui EXCEPT !.frame = u]

Message ==
    /\ mail # << >>
    /\ ui' = OnMessage(ui, Head(mail)) /\ mail' = Tail(mail)
    /\ UNCHANGED acts

LoadAnswered(l) ==
    /\ l \in ui.loads
    /\ \/ ui' = Loaded(ui, l)
       \/ ui' = [ui EXCEPT !.loads = @ \ {l}, !.failed = TRUE]
    /\ UNCHANGED <<mail, acts>>

FillIfLatest(n) ==
    ui' = IF n.latest
          THEN [ui EXCEPT !.navs = @ \ {n}, !.frame = BrowseFinal[n.url]]
          ELSE [ui EXCEPT !.navs = @ \ {n}]

\* The page in the frame reports itself as soon as it runs.
NavAnswered(n) ==
    /\ n \in ui.navs
    /\ \/ /\ FillIfLatest(n)
          /\ mail' = IF n.latest
                     THEN Append(mail, [url |-> BrowseFinal[n.url], mode |-> "init"]) ELSE mail
       \/ /\ ui' = [ui EXCEPT !.navs = @ \ {n}, !.frame = IF n.latest THEN Error ELSE @]
          /\ UNCHANGED mail
    /\ UNCHANGED acts

Debounced ==
    /\ ui.debounce # BrowseNone /\ Room
    /\ ui' = load([ui EXCEPT !.debounce = BrowseNone], ui.debounce, FALSE, TRUE)
    /\ UNCHANGED <<mail, acts>>

BrowseNext ==
    \/ \E u \in BrowseUrls : Submit(u) \/ Pushed(u) \/ Follow(u)
    \/ Refresh \/ activateTab \/ Message \/ Debounced
    \/ \E l \in ui.loads : LoadAnswered(l)
    \/ \E n \in ui.navs : NavAnswered(n)

\* Requests are answered, timers and messages come.
Answers == (\E l \in ui.loads : LoadAnswered(l)) \/ (\E n \in ui.navs : NavAnswered(n))

BrowseFairness == WF_browseVars(Message) /\ WF_browseVars(Debounced) /\ WF_browseVars(Answers)

BrowseSafeSpec == BrowseInit /\ [][BrowseNext]_browseVars

BrowseSpec == BrowseSafeSpec /\ BrowseFairness

(* When nothing is under way the frame shows the page it is believed to     *)
(* show, in spite of redirects, late answers and links followed meanwhile:  *)
(* the next load of that page is skipped on this belief.                    *)
FrameAsBelieved ==
    Quiet /\ ui.frameUrl # BrowseNone => ui.frame \in {ui.frameUrl, Error}

(* When nothing is under way and the last load succeeded, the URL bar, the  *)
(* previews and the page to browse are the same.                            *)
BarAgrees ==
    Quiet /\ ~ui.failed /\ ui.shown # BrowseNone => ui.input = ui.shown /\ ui.pending = ui.shown

(* If moreover loads do not overlap, so is the page in a frame that is      *)
(* shown.                                                                   *)
FrameAgrees ==
    Quiet /\ ~BrowseOverlap /\ ~ui.failed /\ ui.shown # BrowseNone /\ ui.active
        => \/ ui.frame = Error
           \/ ui.frame \in BrowseUrls /\ BrowseFinal[ui.frame] = ui.shown

-----------------------------------------------------------------------------

(***************************************************************************)
(* What the OG Viewer panel (og-preview, ui/app.js) draws for a page: the   *)
(* skeletons and the progress bar while it is fetched, its diagnostics,     *)
(* drawn by a view transition that runs a moment later, the agent-readiness *)
(* section below them, which is probed on its own, and the buttons that     *)
(* hand a fix to the host session.                                          *)
(*                                                                         *)
(* Everything that is drawn for a page is drawn together, so one button     *)
(* stands for all: each failing check has the same two.                     *)
(***************************************************************************)

CONSTANTS
    Pages,
    Transitions,         \* the browser has view transitions and the visitor wants them
    DiagnosticsOverlap,  \* a load may begin before the last one is answered
    DiagnosticsMaxLoads, \* bound: calls of load()
    MaxClicks            \* bound: clicks on the button

Skeleton == "skeleton"

Nothing == "nothing"

ASSUME DiagnosticsBoundsAssumption ==
    /\ DiagnosticsMaxLoads \in Nat \ {0} /\ MaxClicks \in Nat
    /\ {Skeleton, Nothing, "loading"} \cap Pages = {}

VARIABLES
    started,          \* history: how many loads began
    diagnosticsLoads, \* calls of load() under way
    later,            \* pages of the view transitions that have yet to draw
    drawn,            \* what #previews, #raw and #diagnostics show
    readiness,        \* what #ar-body below them shows
    arSeq, probes,
    status,           \* the message above the tabs is an error
    bar,              \* the progress bar and its two timers
    button,           \* the button of a failing check, as it is on the screen
    clicks

diagnosticsVars == <<started, diagnosticsLoads, later, drawn, readiness, arSeq, probes, status, bar, button, clicks>>

(* The guidance of a failing check: why, how to fix it and an example.      *)
DiagnosticIds ==
  {"og:title", "og:type", "og:image", "og:url", "og:description", "og:site_name", "og:locale",
   "twitter:card", "Absolute og:image URL"}

ImageIds == {"og:image:alt", "og:image dimensions", "og:image:type", "og:image:secure_url"}

LengthIds == {"Description length OK"}

ReadinessIds ==
  {"robots", "sitemap", "link-headers", "llms", "markdown", "ai-bots", "content-signals", "mcp", "a2a",
   "agent-skills", "ai-plugin", "dns-aid", "oauth-pr", "oauth-as", "api-catalog"}

DiagHelp ==
  {"og:title", "og:type", "og:image", "og:url", "og:description", "og:site_name", "og:locale",
   "twitter:card", "Absolute og:image URL", "og:image:alt", "og:image dimensions", "og:image:type",
   "og:image:secure_url", "Description length OK"}

AgentHelp ==
  {"robots", "sitemap", "link-headers", "llms", "markdown", "ai-bots", "content-signals", "mcp", "a2a",
   "agent-skills", "ai-plugin", "dns-aid", "oauth-pr", "oauth-as", "api-catalog"}

(* The footer of the guidance has buttons when the repository of the page   *)
(* is known.                                                               *)
FreshButton == [disabled |-> FALSE, class |-> "none", label |-> "own", posts |-> <<>>, resets |-> <<>>]

startProgress(b) == [b EXCEPT !.filling = TRUE, !.emptying = FALSE, !.width = "part"]

finishProgress(b) == [b EXCEPT !.filling = FALSE, !.emptying = TRUE, !.width = "full"]

(* load(), up to its await: skeletons replace what was drawn for the last.  *)
diagnosticsLoad(p) ==
    /\ started < DiagnosticsMaxLoads /\ started' = started + 1
    /\ DiagnosticsOverlap \/ diagnosticsLoads = {}
    /\ diagnosticsLoads' = diagnosticsLoads \cup {[page |-> p, no |-> started']}
    /\ drawn' = Skeleton /\ readiness' = Nothing /\ button' = FreshButton
    /\ bar' = [startProgress(bar) EXCEPT !.busy = TRUE]
    /\ UNCHANGED <<later, arSeq, probes, status, clicks>>

(* renderDiagnostics draws the section anew and starts to probe for it.     *)
Render(p) ==
    /\ drawn' = p /\ readiness' = "loading" /\ button' = FreshButton
    /\ arSeq' = arSeq + 1
    /\ probes' = probes \cup {[page |-> p, seq |-> arSeq']}

(* The rest of load().                                                      *)
Ended(l) ==
    /\ l \in diagnosticsLoads /\ diagnosticsLoads' = diagnosticsLoads \ {l}
    /\ bar' = [finishProgress(bar) EXCEPT !.busy = FALSE]
    /\ UNCHANGED <<started, clicks>>

withTransition(p) ==
    IF Transitions
    THEN later' = Append(later, p) /\ UNCHANGED <<drawn, readiness, button, arSeq, probes>>
    ELSE Render(p) /\ UNCHANGED later

DiagnosticsLoadAnswered(l) == Ended(l) /\ withTransition(l.page) /\ status' = FALSE

LoadFailed(l) ==
    Ended(l) /\ status' = TRUE /\ UNCHANGED <<later, drawn, readiness, button, arSeq, probes>>

TransitionDraws ==
    /\ later # <<>> /\ later' = Tail(later) /\ Render(Head(later))
    /\ UNCHANGED <<started, diagnosticsLoads, status, bar, clicks>>

BarEmpties ==
    /\ bar.emptying /\ bar' = [bar EXCEPT !.emptying = FALSE, !.width = "empty"]
    /\ UNCHANGED <<started, diagnosticsLoads, later, drawn, readiness, arSeq, probes, status, button, clicks>>

Fills(p) == p.seq = arSeq /\ drawn \in Pages

Failure(p) == readiness' = IF Fills(p) THEN p.page ELSE readiness

ProbeEnds(p) ==
    /\ p \in probes /\ probes' = probes \ {p}
    /\ UNCHANGED <<started, diagnosticsLoads, later, drawn, arSeq, status, bar, button, clicks>>

ProbeAnswered(p) == ProbeEnds(p) /\ readiness' = IF Fills(p) THEN p.page ELSE readiness

ProbeFailed(p) == ProbeEnds(p) /\ Failure(p)

(* postAction: the button is disabled while it asks and until the outcome   *)
(* has been shown for a while.  What it restores it read when clicked.      *)
OnScreen == UNCHANGED <<started, diagnosticsLoads, later, drawn, readiness, arSeq, probes, status, bar>>

Clicked(b) == [b EXCEPT !.disabled = TRUE, !.class = "busy", !.label = "busy", !.posts = Append(@, b.label)]

Click ==
    /\ drawn \in Pages /\ ~button.disabled
    /\ clicks < MaxClicks /\ clicks' = clicks + 1
    /\ button' = Clicked(button) /\ OnScreen

Outcome(b, outcome) ==
    [b EXCEPT !.class = outcome, !.label = outcome,
              !.posts = Tail(@), !.resets = Append(@, Head(b.posts))]

PostEnds ==
    /\ button.posts # <<>>
    /\ \E outcome \in {"done", "error"} : button' = Outcome(button, outcome)
    /\ OnScreen /\ UNCHANGED clicks

Reset(b) == [b EXCEPT !.class = "none", !.disabled = FALSE, !.label = Head(b.resets), !.resets = Tail(@)]

ResetFires ==
    /\ button.resets # <<>> /\ button' = Reset(button)
    /\ OnScreen /\ UNCHANGED clicks

DiagnosticsInit ==
    /\ started = 0 /\ diagnosticsLoads = {} /\ later = <<>>
    /\ drawn = Nothing /\ readiness = Nothing /\ arSeq = 0 /\ probes = {}
    /\ status = FALSE /\ clicks = 0 /\ button = FreshButton
    /\ bar = [busy |-> FALSE, filling |-> FALSE, emptying |-> FALSE, width |-> "empty"]

DiagnosticsAnswers ==
    \/ \E l \in diagnosticsLoads : DiagnosticsLoadAnswered(l) \/ LoadFailed(l)
    \/ \E p \in probes : ProbeAnswered(p) \/ ProbeFailed(p)
    \/ PostEnds

DiagnosticsTimers == TransitionDraws \/ BarEmpties \/ ResetFires

DiagnosticsNext ==
    \/ \E p \in Pages : diagnosticsLoad(p)
    \/ Click
    \/ DiagnosticsAnswers
    \/ DiagnosticsTimers

DiagnosticsSafeSpec == DiagnosticsInit /\ [][DiagnosticsNext]_diagnosticsVars

(* Timers run out, transitions draw, and every fetch is answered or fails.  *)
DiagnosticsFairness ==
    /\ WF_diagnosticsVars(DiagnosticsAnswers) /\ WF_diagnosticsVars(TransitionDraws) /\ WF_diagnosticsVars(BarEmpties) /\ WF_diagnosticsVars(ResetFires)
    /\ \A n \in 1 .. DiagnosticsMaxLoads :
         /\ WF_diagnosticsVars(\E p \in probes : p.seq = n /\ (ProbeAnswered(p) \/ ProbeFailed(p)))
         /\ WF_diagnosticsVars(\E l \in diagnosticsLoads : l.no = n /\ (DiagnosticsLoadAnswered(l) \/ LoadFailed(l)))
    /\ WF_diagnosticsVars(PostEnds)

DiagnosticsSpec == DiagnosticsSafeSpec /\ DiagnosticsFairness

(* Types; a click asks once, and its outcome is shown once, before the next *)
(* click is possible.                                                       *)
DiagnosticsTypeOK ==
    /\ diagnosticsLoads \subseteq [page : Pages, no : 1 .. DiagnosticsMaxLoads] /\ later \in Seq(Pages)
    /\ drawn \in Pages \cup {Skeleton, Nothing} /\ readiness \in Pages \cup {"loading", Nothing}
    /\ arSeq \in 0 .. DiagnosticsMaxLoads /\ probes \subseteq [page : Pages, seq : 1 .. DiagnosticsMaxLoads]
    /\ bar.width \in {"empty", "part", "full"}
    /\ Len(button.posts) + Len(button.resets) <= 1

(* The agent-readiness section below the metadata of a page is about that   *)
(* page, whatever is loaded while its probes are under way.                 *)
ReadinessOfShown == drawn \in Pages /\ readiness # "loading" => readiness = drawn

(* When nothing is under way, skeletons are only on the screen below the    *)
(* message that says why.                                                   *)
NoSkeletonLeft == drawn = Skeleton /\ diagnosticsLoads = {} /\ later = <<>> => status

(* A button that can be clicked shows its own label and no outcome.         *)
EnabledIsFresh == ~button.disabled => button.label = "own" /\ button.class = "none"

(* While one load at a time is under way, the bar fills and is not emptied  *)
(* by the load before.                                                      *)
BarFills == bar.busy => bar.filling /\ ~bar.emptying

(* Every check that can fail, of the page and of its site, has guidance of  *)
(* its own when it is drawn.                                                *)
GuidanceForAll ==
    drawn \in Pages => DiagnosticIds \cup ImageIds \cup LengthIds \subseteq DiagHelp /\ ReadinessIds \subseteq AgentHelp

-----------------------------------------------------------------------------

(***************************************************************************)
(* The frame around the previews of the OG Viewer panel (og-preview, ui/    *)
(* app.js): its tabs, which change inside a view transition that runs a     *)
(* moment after the click or the key, the layout of the previews and the    *)
(* footer, what of these is stored and restored, and the button that copies *)
(* everything, which shows for a while that it did.                         *)
(***************************************************************************)

CONSTANTS
    Storage,    \* the page may use sessionStorage and localStorage
    MaxPending, \* bound: view transitions that have yet to run
    MaxCopies   \* bound: clicks on Copy JSON

VARIABLES
    tabs,        \* the tabs that are marked active
    panels,      \* the panels that are
    focus,       \* the tab that has the keyboard
    keyed,       \* history: a key moved it there
    chromeLater, \* tabs that view transitions have yet to activate
    layout, footer,
    stored,      \* what the two storages hold
    copy,        \* the label of Copy JSON and the labels its timers will restore
    copies

chromeVars == <<tabs, panels, focus, keyed, chromeLater, layout, footer, stored, copy, copies>>

TabOrder == <<"browse", "previews", "raw", "diagnostics">>

Tabs == ToSet(TabOrder)

ChromeNone == "none"

chromeActivateTab(t) ==
    /\ tabs' = {t} /\ panels' = {t}
    /\ stored' = IF Storage THEN [stored EXCEPT !.tab = t] ELSE stored

Ask(t) ==
    /\ Len(chromeLater) < MaxPending /\ chromeLater' = Append(chromeLater, t)
    /\ UNCHANGED <<tabs, panels, layout, footer, stored, copy, copies>>

(* A click on the tab that is still active is ignored, even when another    *)
(* one is about to be.                                                      *)
Ignore == UNCHANGED <<tabs, panels, chromeLater, layout, footer, stored, copy, copies>>

ClickTab(t) ==
    /\ IF t \in tabs THEN Ignore ELSE Ask(t)
    /\ focus' = t /\ keyed' = FALSE

IndexOf(t) == CHOOSE i \in DOMAIN TabOrder : TabOrder[i] = t

Neighbour(t, key) ==
    LET n == Len(TabOrder)
        i == IndexOf(t)
    IN  CASE key = "ArrowRight" -> TabOrder[(i % n) + 1]
          [] key = "ArrowLeft"  -> TabOrder[((i + n - 2) % n) + 1]
          [] key = "Home"       -> TabOrder[1]
          [] key = "End"        -> TabOrder[n]

KeyTab(key) ==
    /\ focus \in Tabs
    /\ Ask(Neighbour(focus, key)) /\ focus' = Neighbour(focus, key) /\ keyed' = TRUE

TransitionRuns ==
    /\ chromeLater # <<>> /\ chromeLater' = Tail(chromeLater)
    /\ chromeActivateTab(Head(chromeLater))
    /\ UNCHANGED <<focus, keyed, layout, footer, copy, copies>>

Frame == UNCHANGED <<tabs, panels, focus, keyed, chromeLater, copy, copies>>

setPreviewsLayout(mode) ==
    /\ layout' = IF mode = "grid" THEN "grid" ELSE "list"
    /\ stored' = IF Storage THEN [stored EXCEPT !.layout = layout'] ELSE stored

ClickLayout(mode) == setPreviewsLayout(mode) /\ UNCHANGED footer /\ Frame

setFooterOpen(open) ==
    /\ footer' = open
    /\ stored' = IF Storage THEN [stored EXCEPT !.footer = IF open THEN "1" ELSE "0"] ELSE stored

ToggleFooter == setFooterOpen(~footer) /\ UNCHANGED layout /\ Frame

(* The script from its start: layout, footer and tab are restored, and      *)
(* stored again as they are.                                                *)
Saved(s, name) == IF Storage THEN s[name] ELSE ChromeNone

StartTab(s) == IF Saved(s, "tab") \in Tabs THEN Saved(s, "tab") ELSE "browse"

ChromeLoad(s) ==
    [layout |-> IF Saved(s, "layout") = "grid" THEN "grid" ELSE "list",
     footer |-> Saved(s, "footer") = "1",
     tab    |-> StartTab(s)]

Reload ==
    LET l == ChromeLoad(stored)
    IN  /\ layout' = l.layout /\ footer' = l.footer /\ tabs' = {l.tab} /\ panels' = {l.tab}
        /\ stored' = IF Storage THEN [stored EXCEPT !.layout = l.layout, !.tab = l.tab] ELSE stored
        /\ focus' = ChromeNone /\ keyed' = FALSE /\ chromeLater' = <<>> /\ copy' = [label |-> "own", restores |-> <<>>]
        /\ UNCHANGED copies

(* Copy JSON: what its timer restores it read when it was clicked.          *)
ClickCopy ==
    /\ copies < MaxCopies /\ copies' = copies + 1
    /\ copy' = [label |-> "copied", restores |-> Append(copy.restores, copy.label)]
    /\ UNCHANGED <<tabs, panels, focus, keyed, chromeLater, layout, footer, stored>>

CopyTimer ==
    /\ copy.restores # <<>>
    /\ copy' = [label |-> Head(copy.restores), restores |-> Tail(copy.restores)]
    /\ UNCHANGED <<tabs, panels, focus, keyed, chromeLater, layout, footer, stored, copies>>

ChromeInit ==
    /\ tabs = {"browse"} /\ panels = {"browse"} /\ focus = ChromeNone /\ keyed = FALSE /\ chromeLater = <<>>
    /\ layout = "list" /\ footer = FALSE
    /\ stored = [tab |-> IF Storage THEN "browse" ELSE ChromeNone, layout |-> IF Storage THEN "list" ELSE ChromeNone, footer |-> ChromeNone]
    /\ copy = [label |-> "own", restores |-> <<>>] /\ copies = 0

ChromeNext ==
    \/ \E t \in Tabs : ClickTab(t)
    \/ \E key \in {"ArrowRight", "ArrowLeft", "Home", "End"} : KeyTab(key)
    \/ TransitionRuns
    \/ \E mode \in {"list", "grid"} : ClickLayout(mode)
    \/ ToggleFooter
    \/ Reload
    \/ ClickCopy \/ CopyTimer

ChromeSpec == ChromeInit /\ [][ChromeNext]_chromeVars

(* Types; one tab is active, and the panel below is its own.                *)
ChromeTypeOK ==
    /\ tabs \subseteq Tabs /\ Cardinality(tabs) = 1 /\ panels = tabs
    /\ focus \in Tabs \cup {ChromeNone} /\ chromeLater \in Seq(Tabs)
    /\ layout \in {"list", "grid"} /\ footer \in BOOLEAN

(* When no transition is under way, the tab that was reached with the       *)
(* keyboard is the active one, whatever transitions ran meanwhile.          *)
FocusedIsActive == chromeLater = <<>> /\ keyed => tabs = {focus}

(* With storage, a page that is loaded again looks as it did: tab, layout   *)
(* and footer.                                                              *)
Remembered ==
    Storage /\ Reload => tabs' = tabs /\ layout' = layout /\ footer' = footer

(* From every tab the arrows lead to every other and back.                  *)
ArrowsGoRound ==
    focus # ChromeNone =>
        /\ Neighbour(Neighbour(focus, "ArrowRight"), "ArrowLeft") = focus
        /\ Neighbour(Neighbour(focus, "ArrowLeft"), "ArrowRight") = focus

-----------------------------------------------------------------------------

(***************************************************************************)
(* The card that shows the file behind a hovered link (og-preview, app.js). *)
(* One card, one timer to show it and one to hide it, files fetched once    *)
(* and kept, answers that come when the pointer is elsewhere.               *)
(***************************************************************************)

CONSTANTS
    Files,    \* the files links lead to, one link each
    HovercardNone, Card, Loading, Failed,
    MaxReq,   \* bound: codeReqId when the pointer moves on
    MayReload \* a load may replace the links under the pointer

ASSUME NamesAssumption ==
    /\ HovercardNone \notin {Card, Loading, Failed} /\ Card \notin {Loading, Failed} /\ Loading # Failed
    /\ Files \cap {HovercardNone, Card, Loading, Failed} = {} /\ MaxReq \in Nat \ {0}

VARIABLES
    over,    \* what the pointer is over: a link, the card or neither
    codeShowTimer, codeHideTimer,
    card,    \* hidden, head and body of the card
    codeReqId, fetches, codeCache,
    entered, \* history: a link was entered since the last dismissal
    hovered  \* history: the file the card was last opened for

hovercardVars == <<over, codeShowTimer, codeHideTimer, card, codeReqId, fetches, codeCache, entered, hovered>>

HovercardTypeOK ==
    /\ over \in Files \cup {HovercardNone, Card}
    /\ codeShowTimer \in Files \cup {HovercardNone} /\ codeHideTimer \in BOOLEAN
    /\ card \in [hidden : BOOLEAN, head : Files \cup {HovercardNone}, body : Files \cup {HovercardNone, Loading, Failed}]
    /\ fetches \subseteq [file : Files, token : 1 .. MaxReq + 3]
    /\ codeCache \subseteq Files \X {TRUE, FALSE}
    /\ \A f \in Files : Cardinality({p \in codeCache : p[1] = f}) <= 1
    /\ codeReqId \in 0 .. MaxReq + 3 /\ entered \in BOOLEAN /\ hovered \in Files \cup {HovercardNone}

HovercardInit ==
    /\ over = HovercardNone /\ codeShowTimer = HovercardNone /\ codeHideTimer = FALSE
    /\ card = [hidden |-> TRUE, head |-> HovercardNone, body |-> HovercardNone]
    /\ codeReqId = 0 /\ fetches = {} /\ codeCache = {} /\ entered = FALSE /\ hovered = HovercardNone

hideCodeCard ==
    /\ codeReqId' = codeReqId + 1
    /\ card' = [card EXCEPT !.hidden = TRUE]
    /\ over' = IF over = Card THEN HovercardNone ELSE over

Enter(f) ==
    /\ over = HovercardNone /\ over' = f /\ codeReqId < MaxReq
    /\ codeShowTimer' = f /\ codeHideTimer' = FALSE /\ entered' = TRUE
    /\ UNCHANGED <<card, codeReqId, fetches, codeCache, hovered>>

Leave ==
    /\ over \in Files /\ over' = HovercardNone
    /\ codeShowTimer' = HovercardNone /\ codeHideTimer' = TRUE
    /\ UNCHANGED <<card, codeReqId, fetches, codeCache, entered, hovered>>

EnterCard ==
    /\ over = HovercardNone /\ ~card.hidden /\ over' = Card /\ codeReqId < MaxReq
    /\ codeHideTimer' = FALSE
    /\ UNCHANGED <<codeShowTimer, card, codeReqId, fetches, codeCache, entered, hovered>>

LeaveCard ==
    /\ over = Card /\ over' = HovercardNone
    /\ codeHideTimer' = TRUE
    /\ UNCHANGED <<codeShowTimer, card, codeReqId, fetches, codeCache, entered, hovered>>

\* The body for a payload of the cache: the text of the file or an error.
BodyOf(p) == IF p[2] THEN p[1] ELSE Failed

HovercardRequest(f) == fetches' = fetches \cup {[file |-> f, token |-> codeReqId + 1]}

\* showCodeCard(), up to its await.
ShowTimer ==
    /\ codeShowTimer # HovercardNone /\ hovered' = codeShowTimer
    /\ LET f == codeShowTimer
           kept == {p \in codeCache : p[1] = f}
       IN  /\ card' = [hidden |-> FALSE, head |-> f,
                       body |-> IF kept = {} THEN Loading ELSE BodyOf(CHOOSE p \in kept : TRUE)]
           /\ IF kept = {} THEN HovercardRequest(f) ELSE UNCHANGED fetches
    /\ codeReqId' = codeReqId + 1 /\ codeShowTimer' = HovercardNone
    /\ UNCHANGED <<over, codeHideTimer, codeCache, entered>>

HideTimer ==
    /\ codeHideTimer /\ codeHideTimer' = FALSE
    /\ hideCodeCard
    /\ UNCHANGED <<codeShowTimer, fetches, codeCache, entered, hovered>>

Fill(r, ok) ==
    card' = IF r.token # codeReqId \/ card.hidden THEN card
            ELSE [card EXCEPT !.head = r.file, !.body = BodyOf(<<r.file, ok>>)]

Cached(f, ok) == {p \in codeCache : p[1] # f} \cup {<<f, ok>>}

CardAnswered(r, ok) ==
    /\ fetches' = fetches \ {r}
    /\ codeCache' = Cached(r.file, ok)
    /\ Fill(r, ok)
    /\ UNCHANGED <<over, codeShowTimer, codeHideTimer, codeReqId, entered, hovered>>

\* dismissHovers: a scroll, a press of Escape, another window.
Dismiss ==
    /\ hideCodeCard /\ entered' = FALSE
    /\ codeReqId < MaxReq
    /\ UNCHANGED <<codeShowTimer, codeHideTimer, fetches, codeCache, hovered>>

\* load(): the card is hidden and the link under the pointer removed, which
\* sends no mouseleave.
HovercardReload ==
    /\ MayReload /\ over \in Files /\ codeReqId < MaxReq
    /\ card' = [card EXCEPT !.hidden = TRUE] /\ codeReqId' = codeReqId + 1
    /\ over' = HovercardNone
    /\ UNCHANGED <<codeShowTimer, codeHideTimer, fetches, codeCache, entered, hovered>>

HovercardNext ==
    \/ \E f \in Files : Enter(f)
    \/ Leave \/ EnterCard \/ LeaveCard \/ ShowTimer \/ HideTimer \/ Dismiss \/ HovercardReload
    \/ \E r \in fetches, ok \in BOOLEAN : CardAnswered(r, ok)

HovercardSafeSpec == HovercardInit /\ [][HovercardNext]_hovercardVars

(* A card that is seen shows the file it was opened for, head and body,     *)
(* whichever answers come while it is open.                                 *)
ShowsHovered == ~card.hidden => card.head = hovered /\ card.body \in {hovered, Loading, Failed}

(* A card that loads waits for an answer that will fill it.                 *)
LoadingIsFilled ==
    ~card.hidden /\ card.body = Loading =>
        \E r \in fetches : r.token = codeReqId /\ r.file = card.head

(* A card the pointer has left is about to be hidden, unless the page under *)
(* the pointer was replaced.                                                *)
LeftIsHidden == ~MayReload /\ ~card.hidden /\ over = HovercardNone => codeHideTimer

-----------------------------------------------------------------------------

\* The parts of the panel share no state.
PanelSpec == TitleSafeSpec /\ BrowseSafeSpec /\ DiagnosticsSafeSpec /\ ChromeSpec /\ HovercardSafeSpec

(* What the panel shows is of the page that is loaded, whatever answers,   *)
(* messages, timers and transitions come late: its title, the page in the  *)
(* frame and its bar, the diagnostics, the tabs and the card of a link.    *)
PanelSafe ==
    /\ TitleTypeOK /\ OnePerLoad /\ TitleOfCurrent
    /\ BrowseTypeOK /\ FrameAsBelieved /\ BarAgrees /\ FrameAgrees
    /\ DiagnosticsTypeOK /\ ReadinessOfShown /\ NoSkeletonLeft /\ EnabledIsFresh /\ BarFills /\ GuidanceForAll
    /\ ChromeTypeOK /\ ArrowsGoRound /\ FocusedIsActive
    /\ HovercardTypeOK /\ ShowsHovered /\ LoadingIsFilled /\ LeftIsHidden
=============================================================================
