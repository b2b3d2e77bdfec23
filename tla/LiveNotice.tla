----------------------------- MODULE LiveNotice -----------------------------
(***************************************************************************)
(* What a page makes of the snapshots that LiveClient gets: the header     *)
(* button and the dismissal of live-status.ts, and the picture-in-picture  *)
(* player of LivePip.astro, which subscribes to it.  Both keep their state *)
(* on window, across page transitions.                                     *)
(*                                                                         *)
(* Opening the player awaits the browser.  Opening a second one closes the *)
(* first, whose pagehide may come before or after the second is there; and *)
(* the pagehide of a window closed by script comes after close() returned. *)
(***************************************************************************)
EXTENDS FiniteSets, Naturals

CONSTANTS
    Snapshots, \* the snapshots the server sends (module LiveStatusReducer)
    Null,
    MaxWindows \* bound: players opened

Sources == {"twitch", "youtube"}

Windows == 1 .. MaxWindows

\* What LiveStatusReducer calls consistent; EMPTY is one that is not live.
ASSUME SnapshotsAssumption ==
    /\ \E s \in Snapshots : s.sources = {}
    /\ \A s \in Snapshots :
         /\ s.sources \subseteq Sources
         /\ s.primary \in Sources \cup {Null}
         /\ s.sources # {} => s.primary \in s.sources
         /\ s.sources # {} <=> s.session # Null

ASSUME NullAssumption == Null \notin Windows /\ Null \notin Sources

ASSUME WindowsAssumption == MaxWindows \in Nat

VARIABLES
    noticeCurrent, \* the snapshot of live-status.ts and of LivePip.astro
    dismissed,     \* __aspireLiveNotificationDismissedKey
    videos,        \* isVideosPage()
    header,        \* the data attributes of .live-btn
    pip,           \* __aspireLivePipState
    native,        \* documentPictureInPicture.window, Null when there is none
    plays,         \* plays[w]: the source whose embed window w shows
    pipOpening,    \* openNativePip calls awaiting requestWindow
    leaving,       \* windows closed whose pagehide has not been handled
    silenced       \* history: the sessions the user dismissed

noticeVars == <<noticeCurrent, dismissed, videos, header, pip, native, plays, pipOpening, leaving, silenced>>

Keys == ({"session"} \X {s.session : s \in Snapshots}) \cup (Sources \X {Null})

NoticeTypeOK ==
    /\ noticeCurrent \in Snapshots
    /\ dismissed \in Keys \cup {Null}
    /\ videos \in BOOLEAN
    /\ header \in [live : BOOLEAN, pipOpen : BOOLEAN, dismissed : BOOLEAN]
    /\ pip \in [window : Windows \cup {Null}, embed : Sources \cup {Null},
                open : BOOLEAN, selected : Sources \cup {Null}]
    /\ native \in Windows \cup {Null}
    /\ plays \in [Windows -> Sources \cup {Null}]
    /\ pipOpening \in 0 .. MaxWindows
    /\ leaving \subseteq Windows
    /\ native \notin leaving
    /\ pip.window = Null => pip.embed = Null

(* live-status.ts *)
IsLive(s) == s.sources # {}

\* The provider stands in for a missing session; its channel or video is Null.
LiveNotificationKey(s) ==
    IF ~IsLive(s) THEN Null
    ELSE IF s.session # Null THEN <<"session", s.session>>
    ELSE <<s.primary, Null>>

IsDismissed(s, key) == LiveNotificationKey(s) # Null /\ key = LiveNotificationKey(s)

\* syncDom, for a snapshot, a dismissal, a page and a player.
Synced(s, key, onVideos, open) ==
    [live |-> IsLive(s) /\ ~onVideos /\ ~open /\ ~IsDismissed(s, key),
     pipOpen |-> open,
     dismissed |-> IsDismissed(s, key)]

(* LivePip.astro, as functions of the player: its state p, the native      *)
(* window, what the windows play and the pagehides to come.                *)
Player == [pip |-> pip, native |-> native, plays |-> plays, leaving |-> leaving]

\* Broken: a window is never picked up again once it was forgotten.
GetRememberedWindow(p) == p

\* getPipWindow: picks up a window the state does not know.
GetPipWindow(p) ==
    IF p.native # Null /\ p.pip.window # p.native
    THEN [p EXCEPT !.pip.window = p.native]
    ELSE p

\* clearPipState and its publishPipState(false).
ClearPipState(p) ==
    [p EXCEPT !.pip = [window |-> Null, embed |-> Null, open |-> FALSE, selected |-> Null]]

ChooseSource(s, requested) ==
    IF requested \in s.sources THEN requested
    ELSE IF Cardinality(s.sources) = 1 THEN CHOOSE x \in s.sources : TRUE
    ELSE IF s.primary \in s.sources THEN s.primary
    ELSE Null

\* The embed is replaced only when the source changes; there is one for
\* every live source, and none is left of a broadcast that is over.
RenderPip(p, s) ==
    LET q == GetPipWindow(p)
        source == ChooseSource(s, q.pip.selected)
    IN  IF q.pip.window = Null THEN [q EXCEPT !.pip.open = FALSE]
        ELSE IF ~IsLive(s) THEN ClearPipState([q EXCEPT !.native = Null,
                                                        !.leaving = @ \cup {q.pip.window}])
        ELSE [q EXCEPT !.pip.embed = source, !.pip.selected = source, !.pip.open = TRUE,
                       !.plays[q.pip.window] = IF q.pip.embed = source THEN @ ELSE source]

\* The player as p leaves it; a change of open is published and synced.
Becomes(p) ==
    /\ pip' = p.pip /\ native' = p.native /\ plays' = p.plays /\ leaving' = p.leaving
    /\ header' = IF p.pip.open = pip.open
                 THEN header
                 ELSE Synced(noticeCurrent, dismissed, videos, p.pip.open)

NoticeIdle == CHOOSE s \in Snapshots : ~IsLive(s)

NoticeInit ==
    /\ noticeCurrent = NoticeIdle
    /\ dismissed = Null
    /\ videos \in BOOLEAN
    /\ header = Synced(NoticeIdle, Null, videos, FALSE)
    /\ pip = [window |-> Null, embed |-> Null, open |-> FALSE, selected |-> Null]
    /\ native = Null
    /\ plays = [w \in Windows |-> Null]
    /\ pipOpening = 0
    /\ leaving = {}
    /\ silenced = {}

\* applySnapshot of one that differs: it syncs the page, then tells LivePip.
ApplySnapshot(next) ==
    /\ next # noticeCurrent
    /\ noticeCurrent' = next
    /\ dismissed' = IF IsLive(next) THEN dismissed ELSE Null
    /\ LET p == RenderPip(Player, next)
       IN  /\ pip' = p.pip /\ native' = p.native /\ plays' = p.plays /\ leaving' = p.leaving
           /\ header' = Synced(next, dismissed', videos, p.pip.open)
    /\ UNCHANGED <<videos, pipOpening, silenced>>

DismissLiveNotification ==
    /\ LiveNotificationKey(noticeCurrent) # Null
    /\ dismissed' = LiveNotificationKey(noticeCurrent)
    /\ header' = Synced(noticeCurrent, dismissed', videos, pip.open)
    /\ silenced' = silenced \cup {noticeCurrent.session}
    /\ UNCHANGED <<noticeCurrent, videos, pip, native, plays, pipOpening, leaving>>

\* init of both scripts after a page transition: new buttons, maybe the
\* videos page, and the state of the player as it is.
Navigate ==
    /\ videos' \in BOOLEAN
    /\ LET p == GetPipWindow(Player)
       IN  /\ pip' = [p.pip EXCEPT !.open = p.pip.window # Null]
           /\ header' = Synced(noticeCurrent, dismissed, videos', pip'.open)
    /\ UNCHANGED <<noticeCurrent, dismissed, native, plays, pipOpening, leaving, silenced>>

(* openNativePip, before and after its await *)
OpenExisting(source) ==
    /\ source \in noticeCurrent.sources
    /\ GetPipWindow(Player).pip.window # Null
    /\ Becomes(RenderPip([Player EXCEPT !.pip.selected = source], noticeCurrent))
    /\ UNCHANGED <<noticeCurrent, dismissed, videos, pipOpening, silenced>>

RequestWindow(source) ==
    /\ source \in noticeCurrent.sources
    /\ GetPipWindow(Player).pip.window = Null
    /\ pipOpening < MaxWindows
    /\ pipOpening' = pipOpening + 1
    /\ pip' = [pip EXCEPT !.selected = source]
    /\ UNCHANGED <<noticeCurrent, dismissed, videos, header, native, plays, leaving, silenced>>

\* The window is there, and the one before it is on its way out.
WindowOpens ==
    /\ pipOpening > 0
    /\ pipOpening' = pipOpening - 1
    /\ \E w \in Windows :
        /\ w # native /\ w \notin leaving
        /\ LET old == IF native = Null THEN {} ELSE {native}
           IN  Becomes(RenderPip([pip |-> [pip EXCEPT !.window = w, !.embed = Null],
                                  native |-> w,
                                  plays |-> [plays EXCEPT ![w] = Null],
                                  leaving |-> leaving \cup old],
                                 noticeCurrent))
    /\ UNCHANGED <<noticeCurrent, dismissed, videos, silenced>>

WindowRefused ==
    /\ pipOpening > 0
    /\ pipOpening' = pipOpening - 1
    /\ UNCHANGED <<noticeCurrent, dismissed, videos, header, pip, native, plays, leaving, silenced>>

(* pagehide: the user closes the player, or a closed one goes at last *)
UserCloses ==
    /\ native # Null
    /\ Becomes(ClearPipState([Player EXCEPT !.native = Null]))
    /\ UNCHANGED <<noticeCurrent, dismissed, videos, pipOpening, silenced>>

PageHide(w) ==
    /\ w \in leaving
    /\ Becomes(ClearPipState([Player EXCEPT !.leaving = @ \ {w}]))
    /\ UNCHANGED <<noticeCurrent, dismissed, videos, pipOpening, silenced>>

NoticeOpen == \E source \in Sources : OpenExisting(source) \/ RequestWindow(source)

NoticeNext ==
    \/ \E s \in Snapshots : ApplySnapshot(s)
    \/ DismissLiveNotification
    \/ Navigate
    \/ NoticeOpen
    \/ WindowOpens \/ WindowRefused
    \/ UserCloses \/ \E w \in Windows : PageHide(w)

NoticeSpec == NoticeInit /\ [][NoticeNext]_noticeVars

(* Properties *)
\* The header shows the current snapshot, page, dismissal and player after
\* every event: each path that changes one of them synchronises it.
HeaderAgrees == header = Synced(noticeCurrent, dismissed, videos, pip.open)

\* The player never goes on with a source that is off: it changes to one
\* that is live, or closes with the broadcast, although a late pagehide may
\* have made the page forget its window.
PlayerFollows == native # Null => plays[native] \in noticeCurrent.sources

\* Only the session the user dismissed is silent, not the next one.
OnlyDismissedIsSilent == header.dismissed => noticeCurrent.session \in silenced

\* A dismissal lasts for the session, whichever providers join or leave it.
DismissalLasts ==
    [][header.dismissed /\ noticeCurrent'.session = noticeCurrent.session => header'.dismissed]_noticeVars

\* After any order of snapshots, dismissals, navigations and windows that open,
\* are refused or go late, the header shows the current state and the player
\* plays a source that is live (pip-player.ts, live-status.ts).
NoticeSafe ==
    /\ NoticeTypeOK
    /\ HeaderAgrees
    /\ PlayerFollows
    /\ OnlyDismissedIsSilent
=============================================================================
