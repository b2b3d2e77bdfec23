------------------------- MODULE LiveStatusReducer -------------------------
(***************************************************************************)
(* The canonical live-status value and the pure function that folds one    *)
(* provider update into it (LiveStatus.cs, class LiveStatusReducer of      *)
(* LiveStatusStore.cs).  Nothing here has state: the modules that store,   *)
(* replicate or render the value build on these operators.                 *)
(*                                                                         *)
(* Times are Unix milliseconds.  A session id is the string "live-<ms>" in *)
(* the code; it is represented by the millisecond it was made from, and    *)
(* the null session by 0, a time at which no worker runs.                  *)
(***************************************************************************)
EXTENDS Naturals

CONSTANTS
    Titles,                   \* Twitch channel and title, one opaque label
    Videos,                   \* YouTube video ids
    Null,                     \* C# null, of any reference type
    OfflineConfirmationCount  \* Live:YouTube:OfflineConfirmationCount

ASSUME OfflineConfirmationCountAssumption == OfflineConfirmationCount \in Nat

Time == Nat
NoSession == 0

-----------------------------------------------------------------------------
(* The data. *)

TwitchStatus == [live: BOOLEAN, title: Titles \cup {Null}]
YouTubeStatus == [live: BOOLEAN, videoId: Videos \cup {Null}]
Sources == {"twitch", "youtube"}

Snapshot == [isLive: BOOLEAN, primarySource: Sources \cup {Null},
             twitch: TwitchStatus, youTube: YouTubeStatus,
             liveSessionId: Time, updatedAt: Time]

\* youTubeRevision and offlineObservations are the two counters that only the
\* store sees; epoch and version are what the replicas order states by.
State == [epoch: Nat, version: Nat, snapshot: Snapshot,
          youTubeRevision: Nat, offlineObservations: Nat]

\* The revision a poller captured before it asked YouTube.
Observation == [epoch: Nat, revision: Nat]

Update == [twitch: TwitchStatus \cup {Null},
           youTube: YouTubeStatus \cup {Null},
           observation: Observation \cup {Null}]

ASSUME NullAssumption ==
    /\ Null \notin Sources
    /\ Null \notin TwitchStatus
    /\ Null \notin YouTubeStatus
    /\ Null \notin State
    /\ Null \notin Observation
    /\ Null \notin Update

YouTubeOffline == [live |-> FALSE, videoId |-> Null]

Idle == [isLive |-> FALSE, primarySource |-> Null,
         twitch |-> [live |-> FALSE, title |-> Null],
         youTube |-> YouTubeOffline,
         liveSessionId |-> NoSession, updatedAt |-> 0]

CreateInitial(epoch) ==
    [epoch |-> epoch, version |-> 0, snapshot |-> Idle,
     youTubeRevision |-> 0, offlineObservations |-> 0]

-----------------------------------------------------------------------------
(* The snapshot half: aggregate, sticky primary source, session id. *)

SourceLive(source, twitch, youTube) ==
    \/ source = "twitch" /\ twitch.live
    \/ source = "youtube" /\ youTube.live

\* Broken: the preferred provider takes over from one that is live.
ResolvePreferred(previous, twitch, youTube) ==
    IF twitch.live THEN "twitch" ELSE IF youTube.live THEN "youtube" ELSE Null

ResolvePrimary(previous, twitch, youTube) ==
    IF SourceLive(previous, twitch, youTube) THEN previous
    ELSE IF twitch.live THEN "twitch"
    ELSE IF youTube.live THEN "youtube"
    ELSE Null

\* Broken: a session survives the end of the broadcast.
ResolveKeptSessionId(current, isLive, updatedAt) ==
    IF current.liveSessionId # NoSession THEN current.liveSessionId
    ELSE IF isLive THEN updatedAt ELSE NoSession

ResolveLiveSessionId(current, isLive, updatedAt) ==
    IF ~isLive THEN NoSession
    ELSE IF current.isLive /\ current.liveSessionId # NoSession
         THEN current.liveSessionId
         ELSE updatedAt

ApplySnapshot(current, twitch, youTube, updatedAt) ==
    LET isLive == twitch.live \/ youTube.live IN
    IF twitch = current.twitch /\ youTube = current.youTube
    THEN current
    ELSE [isLive |-> isLive,
          primarySource |-> ResolvePrimary(current.primarySource, twitch, youTube),
          twitch |-> twitch,
          youTube |-> youTube,
          liveSessionId |-> ResolveLiveSessionId(current, isLive, updatedAt),
          updatedAt |-> updatedAt]

-----------------------------------------------------------------------------
(* The revision half: which YouTube observations count, and how often an   *)
(* offline one has to be repeated before it is believed.                   *)

\* Broken: an observation of an earlier revision of the epoch counts too.
AcceptedInEpoch(current, update) ==
    /\ update.youTube # Null
    /\ update.observation = Null \/ update.observation.epoch = current.epoch

\* The update carries a YouTube status and its observation, if it has one, is
\* of the current epoch and revision.
Accepted(current, update) ==
    /\ update.youTube # Null
    /\ \/ update.observation = Null
       \/ /\ update.observation.epoch = current.epoch
          /\ update.observation.revision = current.youTubeRevision

\* A guarded observation that says offline while the canonical state is live.
CountsOffline(current, update) ==
    /\ update.observation # Null
    /\ ~update.youTube.live
    /\ current.snapshot.youTube.live

\* offlineObservations >= Math.Max(1, OfflineConfirmationCount), after the ++
ConfirmsOffline(current) ==
    current.offlineObservations + 1 >=
        (IF OfflineConfirmationCount > 1 THEN OfflineConfirmationCount ELSE 1)

NextYouTube(current, update) ==
    IF ~Accepted(current, update) THEN current.snapshot.youTube
    ELSE IF ~CountsOffline(current, update) THEN update.youTube
    ELSE IF ConfirmsOffline(current) THEN YouTubeOffline
    ELSE current.snapshot.youTube

\* Broken: nothing starts the count again.
NeverResetOffline(current, update) ==
    IF Accepted(current, update) /\ CountsOffline(current, update)
           /\ ~ConfirmsOffline(current)
    THEN current.offlineObservations + 1
    ELSE current.offlineObservations

NextOfflineObservations(current, update) ==
    IF ~Accepted(current, update) THEN current.offlineObservations
    ELSE IF CountsOffline(current, update) /\ ~ConfirmsOffline(current)
         THEN current.offlineObservations + 1
         ELSE 0

\* Every accepted status consumes its revision, also one that changes nothing.
NextRevision(current, update) ==
    IF Accepted(current, update) THEN current.youTubeRevision + 1
    ELSE current.youTubeRevision

NextTwitch(current, update) ==
    IF update.twitch = Null THEN current.snapshot.twitch ELSE update.twitch

\* LiveStatusReducer.Apply returns its argument, the same record, in this case.
NothingToApply(current, update) ==
    /\ ~Accepted(current, update)
    /\ NextTwitch(current, update) = current.snapshot.twitch

Apply(current, update, updatedAt) ==
    IF NothingToApply(current, update) THEN current
    ELSE [epoch |-> current.epoch,
          version |-> current.version + 1,
          snapshot |-> ApplySnapshot(current.snapshot, NextTwitch(current, update),
                                     NextYouTube(current, update), updatedAt),
          youTubeRevision |-> NextRevision(current, update),
          offlineObservations |-> NextOfflineObservations(current, update)]

-----------------------------------------------------------------------------
(* What Apply preserves and promises, as predicates on states. *)

\* The derived fields agree with the two sources: the aggregate, a primary
\* source that is itself live, a session id exactly while live; and offline
\* observations are pending only while YouTube is live and more are needed.
Consistent(state) ==
    LET s == state.snapshot IN
    /\ s.isLive <=> s.twitch.live \/ s.youTube.live
    /\ s.isLive <=> SourceLive(s.primarySource, s.twitch, s.youTube)
    /\ ~s.isLive => s.primarySource = Null
    /\ s.isLive <=> s.liveSessionId # NoSession
    /\ state.offlineObservations > 0 =>
           /\ s.youTube.live
           /\ state.offlineObservations < OfflineConfirmationCount

\* From snapshot s to t the session and a primary source that is live stay.
SameSession(s, t) ==
    /\ s.isLive /\ t.isLive => t.liveSessionId = s.liveSessionId
    /\ SourceLive(s.primarySource, t.twitch, t.youTube) =>
           t.primarySource = s.primarySource
=============================================================================
