----------------------------- MODULE MCBrowser -----------------------------
(* What runs in a browser, on small instances.  A socket from both ends and *)
(* the page that shows what it brings: LiveClient where WebSockets work and *)
(* behind a proxy that blocks them, LiveNotice, and LiveSocket, the         *)
(* server's handler.  The OG Viewer: its panel, and what it does with the   *)
(* pages and the code it is pointed at.  No two parts share state, so one   *)
(* run explores the sum of their state spaces: part, chosen at the start,   *)
(* says which one moves; the others stay in an initial state or are off.    *)
EXTENDS LiveClient, LiveNotice, LiveSocket, ViewerPages

CONSTANTS r1, r2, s1, s2, a, b, r, p1, p2, mine, foreign, lan, Off

VARIABLE part

-----------------------------------------------------------------------------
(* The live status. *)

TwoRequests == {r1, r2}

\* Live, then over, then live again; version 0 is EMPTY, which shows "off".
OnOffOn == <<"on", "off", "on">>
ShowsOf(v) == IF v = 0 THEN "off" ELSE OnOffOn[v]
VersionShows == [v \in Versions \cup {0} |-> ShowsOf(v)]

\* The stamps of workers whose clocks agree.
InOrder == [v \in Versions \cup {0} |-> v]

\* Two sessions of one or both providers, and nothing live in between.
NothingLive == [sources |-> {}, primary |-> Null, session |-> Null]
TwoSessions ==
    {NothingLive} \cup
    {x \in [sources : (SUBSET Sources) \ {{}}, primary : Sources, session : {s1, s2}] :
        x.primary \in x.sources}

Proxied == INSTANCE LiveClient WITH Blocked <- TRUE, MayVanish <- FALSE, WireLength <- 1

-----------------------------------------------------------------------------
(* The viewer. *)

MCFinal == [u \in {a, b, r} |-> IF u = r THEN a ELSE u]

MCScope == [o \in Origins |-> IF o \in {p1, p2} THEN "public"
                              ELSE IF o = lan THEN "private" ELSE "loopback"]

\* Browsing where a load waits for the last one to be answered; diagnostics where it
\* does not, and nothing is animated; links that stay under the pointer.
Calm == INSTANCE ViewerPanel WITH BrowseOverlap <- FALSE
Hurried == INSTANCE ViewerPanel WITH DiagnosticsOverlap <- TRUE, Transitions <- FALSE
Steady == INSTANCE ViewerPanel WITH MayReload <- FALSE

HighlightOff ==
    /\ text = Off /\ tokens = Off /\ lines = Off /\ shown = Off

MarkupOff ==
    /\ markupText = << >> /\ markupI = 1 /\ inTag = FALSE /\ out = << >>

ProxyOff ==
    /\ asked = Off /\ proxyFound = Off /\ spec = Off /\ target = << >>

MetadataOff ==
    /\ all = Off /\ htmlTitle = Off /\ metadataBase = Off /\ report = << >>

ReadinessOff ==
    /\ answers = Off /\ says = Off /\ links = Off /\ aid = Off
    /\ readinessReport = << >>

-----------------------------------------------------------------------------
LiveParts == {"client", "proxied", "notice", "socket"}

\* The requests are alike: the first one is r1.
LiveInit ==
    /\ Init /\ request[r1] # Idle
    /\ part \notin {"client", "proxied"} => visibility = "visible" /\ client.socket # "none"
    /\ NoticeInit /\ (part # "notice" => videos)
    /\ SocketInit /\ (part # "socket" => ~stopping)

LiveRests ==
    /\ IF part \in {"client", "proxied"} THEN TRUE ELSE UNCHANGED vars
    /\ IF part = "notice" THEN TRUE ELSE UNCHANGED noticeVars
    /\ IF part = "socket" THEN TRUE ELSE UNCHANGED socketVars

ViewerParts == {"title", "browse", "calm", "diagnostics", "hurried", "chrome", "hovercard", "steady",
                "highlight", "markup", "fetch", "proxy", "metadata", "readiness"}

ViewerInit ==
    /\ TitleInit /\ (part # "title" => entry.currentUrl = None)
    /\ BrowseInit /\ (part \notin {"browse", "calm"} => ui = FreshPanel)
    /\ DiagnosticsInit /\ ChromeInit /\ HovercardInit
    /\ IF part = "highlight" THEN HighlightInit ELSE HighlightOff
    /\ IF part = "markup" THEN MarkupInit ELSE MarkupOff
    /\ FetchInit /\ (part # "fetch" => at = p1)
    /\ IF part = "proxy" THEN ProxyInit ELSE ProxyOff
    /\ IF part = "metadata" THEN MetadataInit ELSE MetadataOff
    /\ IF part = "readiness" THEN ReadinessInit ELSE ReadinessOff

ViewerRests ==
    /\ IF part = "title" THEN TRUE ELSE UNCHANGED titleVars
    /\ IF part \in {"browse", "calm"} THEN TRUE ELSE UNCHANGED browseVars
    /\ IF part \in {"diagnostics", "hurried"} THEN TRUE ELSE UNCHANGED diagnosticsVars
    /\ IF part = "chrome" THEN TRUE ELSE UNCHANGED chromeVars
    /\ IF part \in {"hovercard", "steady"} THEN TRUE ELSE UNCHANGED hovercardVars
    /\ IF part = "highlight" THEN TRUE ELSE UNCHANGED highlightVars
    /\ IF part = "markup" THEN TRUE ELSE UNCHANGED markupVars
    /\ IF part = "fetch" THEN TRUE ELSE UNCHANGED fetchVars
    /\ IF part = "proxy" THEN TRUE ELSE UNCHANGED proxyVars
    /\ IF part = "metadata" THEN TRUE ELSE UNCHANGED metadataVars
    /\ IF part = "readiness" THEN TRUE ELSE UNCHANGED readinessVars

OthersRest == part' = part /\ LiveRests /\ ViewerRests

MCInit == part \in LiveParts \cup ViewerParts /\ LiveInit /\ ViewerInit

ClientMoves == part = "client" /\ Next /\ OthersRest
ProxiedMoves == part = "proxied" /\ Proxied!Next /\ OthersRest
NoticeMoves == part = "notice" /\ NoticeNext /\ OthersRest
SocketMoves == part = "socket" /\ SocketNext /\ OthersRest
TitleMoves == part = "title" /\ TitleNext /\ OthersRest
BrowseMoves == part = "browse" /\ BrowseNext /\ OthersRest
CalmMoves == part = "calm" /\ Calm!BrowseNext /\ OthersRest
DiagnosticsMoves == part = "diagnostics" /\ DiagnosticsNext /\ OthersRest
HurriedMoves == part = "hurried" /\ Hurried!DiagnosticsNext /\ OthersRest
ChromeMoves == part = "chrome" /\ ChromeNext /\ OthersRest
HovercardMoves == part = "hovercard" /\ HovercardNext /\ OthersRest
SteadyMoves == part = "steady" /\ Steady!HovercardNext /\ OthersRest
HighlightMoves == part = "highlight" /\ HighlightRender /\ OthersRest
MarkupMoves == part = "markup" /\ Step /\ OthersRest
FetchMoves == part = "fetch" /\ FetchNext /\ OthersRest
ProxyMoves == part = "proxy" /\ Import /\ OthersRest
MetadataMoves == part = "metadata" /\ parseMetadata /\ OthersRest
ReadinessMoves == part = "readiness" /\ checkAgentReadiness /\ OthersRest

MCNext ==
    \/ ClientMoves \/ ProxiedMoves \/ NoticeMoves \/ SocketMoves
    \/ TitleMoves \/ BrowseMoves \/ CalmMoves \/ DiagnosticsMoves \/ HurriedMoves
    \/ ChromeMoves \/ HovercardMoves \/ SteadyMoves \/ HighlightMoves \/ MarkupMoves
    \/ FetchMoves \/ ProxyMoves \/ MetadataMoves \/ ReadinessMoves

mcVars == <<part, vars, noticeVars, socketVars, titleVars, browseVars, diagnosticsVars,
            chromeVars, hovercardVars, highlightVars, markupVars, fetchVars, proxyVars,
            metadataVars, readinessVars>>

\* The fairness of the parts whose liveness is checked.
ClientFairness ==
    /\ WF_vars(part = "client" /\ Open)
    /\ WF_vars(part = "client" /\ Receive) /\ WF_vars(part = "client" /\ Push)
    /\ WF_vars(part = "client" /\ FirePoll) /\ WF_vars(part = "client" /\ FireStale)
    /\ WF_vars(part = "client" /\ FireReconnect)
    /\ WF_vars(part = "client" /\ FireHiddenClose)
    /\ \A q \in Requests :
         WF_vars(part = "client" /\ Answer(q)) /\ WF_vars(part = "client" /\ Settle(q))

ProxiedFairness ==
    /\ WF_vars(part = "proxied" /\ Proxied!Close)
    /\ WF_vars(part = "proxied" /\ Proxied!FirePoll)
    /\ WF_vars(part = "proxied" /\ Proxied!FireReconnect)
    /\ WF_vars(part = "proxied" /\ Proxied!FireHiddenClose)
    /\ \A q \in Requests :
         /\ WF_vars(part = "proxied" /\ Proxied!Answer(q))
         /\ WF_vars(part = "proxied" /\ Proxied!Settle(q))

HandlerFairness ==
    /\ WF_socketVars(part = "socket" /\ Handler) /\ WF_socketVars(part = "socket" /\ Drain)
    /\ WF_socketVars(part = "socket" /\ Tick) /\ WF_socketVars(part = "socket" /\ Gone)
    /\ WF_socketVars(part = "socket" /\ ClientAnswers)
    /\ WF_socketVars(part = "socket" /\ PeerAnswers /\ (Sent \/ CloseSent))

ViewerFairness ==
    /\ \A u \in Urls : SF_titleVars(part = "title" /\ (Fetched(u) \/ FetchFails(u)))
    /\ \A u \in Urls : WF_titleVars(part = "title" /\ Opened(u))
    /\ WF_markupVars(part = "markup" /\ Step)
    /\ WF_fetchVars(part = "fetch" /\ Resolve)
    /\ \A h \in 0 .. maxRedirects : WF_fetchVars(part = "fetch" /\ (Drained(h) \/ Fails(h)))

MCSpec ==
    /\ MCInit /\ [][MCNext]_mcVars
    /\ ClientFairness /\ ProxiedFairness /\ HandlerFairness /\ ViewerFairness

-----------------------------------------------------------------------------
\* A dismissal lasts for its session; a visible tab comes to show the canonical
\* state and a hidden one lets go; the handler ends, and until then the newest
\* frame arrives and the socket is never silent for good.
BrowserConverges ==
    /\ DismissalLasts
    /\ part \in {"client", "proxied"} => Converges /\ HiddenReleases
    /\ part = "socket" => HandlerEnds /\ NewestDelivered /\ KeepsTalking

\* With loads that wait for one another, or links that stay, the panel keeps more; and
\* a file is highlighted and cut into lines as a reader of its language would (app.js).
CalmSafe ==
    /\ part = "calm" => Calm!FrameAgrees
    /\ part = "steady" => Steady!LeftIsHidden
    /\ part = "highlight" => ClassesAgree /\ LinesInOrder

\* What the visitor chose is there after a reload of the panel, where the browser
\* stores it; the title of the panel comes to rest, a page that is fetched is there or
\* has failed, and markup is highlighted to its end or to a "<" that opens no tag (app.js,
\* http-fetch.mjs).
ViewerProceeds ==
    /\ [][part = "chrome" => Remembered]_mcVars
    /\ part = "title" => TitleSettles
    /\ part = "fetch" => Settles
    /\ part = "markup" => EndsUnlessStray
=============================================================================
