------------------------- MODULE MCLiveStatusStore -------------------------
(* Small instances of LiveStatusStore for TLC.  One run explores three of  *)
(* them, each from the same initial state: which one is chosen at the      *)
(* start, in part.  The properties are those of the constants the          *)
(* configuration gives, which cover those of every instance.               *)
EXTENDS LiveStatusStore, TLC

CONSTANTS c1, c2, v1, v2, t1

VARIABLE part  \* the instance this behaviour is one of

Twitch(live) == [twitch |-> [live |-> live, title |-> Null],
                 youTube |-> Null, observation |-> Null]
Dev(live, videoId) == [twitch |-> Null, youTube |-> [live |-> live, videoId |-> videoId],
                       observation |-> Null]

\* One webhook or dev status of each kind.
TwitchOnOff == {Twitch(TRUE), Twitch(FALSE)}
DevOn == Dev(TRUE, v1)
BothSources == TwitchOnOff \cup {DevOn, Dev(FALSE, Null)}

OneBroadcast == {YouTubeOffline, [live |-> TRUE, videoId |-> v1]}

TwoCallers == {c1, c2}
TwoTimes == {1, 2}
Symmetry == Permutations(Callers)

\* Overlapping polls of a channel that changes twice, beside a dev status.
Polls == INSTANCE LiveStatusStore WITH
    Times <- {1}, Submissions <- {DevOn}, MaxVersion <- 4, MaxEpoch <- 1

\* Webhooks of both sources at either time, and polls that find nothing.
Sessions == INSTANCE LiveStatusStore WITH
    Broadcasts <- {YouTubeOffline}, MaxVersion <- 3, MaxEpoch <- 1, MaxMoment <- 0

\* The key is lost, and created again under another epoch.
Epochs == INSTANCE LiveStatusStore WITH
    Times <- {1}, Submissions <- TwitchOnOff, MaxVersion <- 2, MaxMoment <- 0

MCInit == Init /\ part \in {"polls", "sessions", "epochs"}

MCNext ==
    /\ \/ part = "polls" /\ Polls!Next
       \/ part = "sessions" /\ Sessions!Next
       \/ part = "epochs" /\ Epochs!Next
    /\ UNCHANGED part

MCSpec == MCInit /\ [][MCNext]_<<vars, part>>
=============================================================================
