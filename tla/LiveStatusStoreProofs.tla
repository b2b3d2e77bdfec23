----------------------- MODULE LiveStatusStoreProofs -----------------------
(***************************************************************************)
(* The safety properties of LiveStatusStore, for any number of callers,    *)
(* any submissions and any bounds.  They rest on lemmas about the reducer,  *)
(* for every current state and every update, which come first.             *)
(***************************************************************************)
EXTENDS LiveStatusStore, TLAPS

-----------------------------------------------------------------------------
(* The reducer. *)

\* The initial state of an epoch is a state, and consistent.
LEMMA InitialState ==
    ASSUME NEW epoch \in Nat
    PROVE  CreateInitial(epoch) \in State /\ Consistent(CreateInitial(epoch))
<1>1. CreateInitial(epoch) \in State
  BY DEF CreateInitial, State, Idle, Snapshot, TwitchStatus, YouTubeStatus,
         YouTubeOffline, Time, NoSession
<1>2. Consistent(CreateInitial(epoch))
  BY NullAssumption DEF CreateInitial, Consistent, Idle, YouTubeOffline,
         SourceLive, Sources, NoSession
<1>3. QED BY <1>1, <1>2

\* The YouTube status an update leads to is a YouTube status.
LEMMA NextYouTubeType ==
    ASSUME NEW current \in State, NEW given \in Update
    PROVE  NextYouTube(current, given) \in YouTubeStatus
<1>1. current.snapshot.youTube \in YouTubeStatus
  BY DEF State, Snapshot
<1>2. YouTubeOffline \in YouTubeStatus
  BY DEF YouTubeOffline, YouTubeStatus
<1>3. Accepted(current, given) => given.youTube \in YouTubeStatus
  BY DEF Accepted, Update
<1>4. QED BY <1>1, <1>2, <1>3 DEF NextYouTube

\* The Twitch status an update leads to is a Twitch status.
LEMMA NextTwitchType ==
    ASSUME NEW current \in State, NEW given \in Update
    PROVE  NextTwitch(current, given) \in TwitchStatus
  BY DEF NextTwitch, State, Snapshot, Update

\* The snapshot half of the reducer returns a snapshot.
LEMMA ApplySnapshotType ==
    ASSUME NEW current \in Snapshot, NEW twitch \in TwitchStatus,
           NEW youTube \in YouTubeStatus, NEW now \in Time
    PROVE  ApplySnapshot(current, twitch, youTube, now) \in Snapshot
<1>1. twitch.live \in BOOLEAN /\ youTube.live \in BOOLEAN
  BY DEF TwitchStatus, YouTubeStatus
<1>2. ResolvePrimary(current.primarySource, twitch, youTube) \in Sources \cup {Null}
  BY DEF ResolvePrimary, Sources, Snapshot
<1>3. ResolveLiveSessionId(current, twitch.live \/ youTube.live, now) \in Time
  BY DEF ResolveLiveSessionId, Snapshot, NoSession, Time
<1>4. QED BY <1>1, <1>2, <1>3 DEF ApplySnapshot, Snapshot

\* Applying an update to a state gives a state.
LEMMA ApplyType ==
    ASSUME NEW current \in State, NEW given \in Update, NEW now \in Time
    PROVE  Apply(current, given, now) \in State
<1>1. current.snapshot \in Snapshot
  BY DEF State
<1>2. ApplySnapshot(current.snapshot, NextTwitch(current, given),
                    NextYouTube(current, given), now) \in Snapshot
  BY <1>1, NextTwitchType, NextYouTubeType, ApplySnapshotType
<1>3. NextRevision(current, given) \in Nat
  BY DEF NextRevision, State
<1>4. NextOfflineObservations(current, given) \in Nat
  BY DEF NextOfflineObservations, State
<1>5. QED BY <1>2, <1>3, <1>4 DEF Apply, State

-----------------------------------------------------------------------------
(* Counters. *)

\* An update that has something to apply advances the version by one, in the
\* same epoch, and the revision exactly when its YouTube status is accepted.
LEMMA ApplyCounters ==
    ASSUME NEW current \in State, NEW given \in Update, NEW now \in Time,
           ~NothingToApply(current, given)
    PROVE  LET next == Apply(current, given, now) IN
           /\ next.epoch = current.epoch
           /\ next.version = current.version + 1
           /\ next.youTubeRevision = IF Accepted(current, given)
                                     THEN current.youTubeRevision + 1
                                     ELSE current.youTubeRevision
  BY DEF Apply, NextRevision

\* Without an accepted status the YouTube half stays as it is.
LEMMA ApplyRejected ==
    ASSUME NEW current \in State, NEW given \in Update, NEW now \in Time,
           ~Accepted(current, given)
    PROVE  LET next == Apply(current, given, now) IN
           /\ next.snapshot.youTube = current.snapshot.youTube
           /\ next.offlineObservations = current.offlineObservations
  BY DEF Apply, ApplySnapshot, NextYouTube, NextOfflineObservations

\* A guarded offline observation of a live YouTube either turns it off, and is
\* then the last one needed, or is counted; every other accepted status starts
\* the count again.
LEMMA ApplyOffline ==
    ASSUME NEW current \in State, NEW given \in Update, NEW now \in Time,
           Accepted(current, given)
    PROVE  LET next == Apply(current, given, now) IN
           /\ CountsOffline(current, given) =>
                  \/ /\ ~next.snapshot.youTube.live
                     /\ next.offlineObservations = 0
                     /\ current.offlineObservations + 1 >= OfflineConfirmationCount
                  \/ /\ next.snapshot.youTube.live
                     /\ next.offlineObservations = current.offlineObservations + 1
                     /\ next.offlineObservations < OfflineConfirmationCount
           /\ ~CountsOffline(current, given) =>
                  /\ next.snapshot.youTube = given.youTube
                  /\ next.offlineObservations = 0
<1> DEFINE next == Apply(current, given, now)
<1>1. /\ next.snapshot.youTube = NextYouTube(current, given)
      /\ next.offlineObservations = NextOfflineObservations(current, given)
  BY DEF Apply, NothingToApply, ApplySnapshot
<1>2. current.offlineObservations \in Nat
  BY DEF State
<1>3. CASE CountsOffline(current, given)
  BY <1>1, <1>2, <1>3, OfflineConfirmationCountAssumption
     DEF NextYouTube, NextOfflineObservations, ConfirmsOffline, CountsOffline,
         YouTubeOffline
<1>4. CASE ~CountsOffline(current, given)
  BY <1>1, <1>4 DEF NextYouTube, NextOfflineObservations
<1>5. QED BY <1>3, <1>4

-----------------------------------------------------------------------------
(* The snapshot. *)

\* The snapshot half keeps the derived fields in step with the sources, and
\* keeps the session and a primary source that stays live.
LEMMA ApplySnapshotDerives ==
    ASSUME NEW s \in Snapshot, NEW twitch \in TwitchStatus,
           NEW youTube \in YouTubeStatus, NEW now \in Time \ {NoSession},
           s.isLive <=> s.twitch.live \/ s.youTube.live,
           s.isLive <=> SourceLive(s.primarySource, s.twitch, s.youTube),
           ~s.isLive => s.primarySource = Null,
           s.isLive <=> s.liveSessionId # NoSession
    PROVE  LET t == ApplySnapshot(s, twitch, youTube, now) IN
           /\ t.twitch = twitch /\ t.youTube = youTube
           /\ t.isLive <=> t.twitch.live \/ t.youTube.live
           /\ t.isLive <=> SourceLive(t.primarySource, t.twitch, t.youTube)
           /\ ~t.isLive => t.primarySource = Null
           /\ t.isLive <=> t.liveSessionId # NoSession
           /\ SameSession(s, t)
<1> DEFINE t == ApplySnapshot(s, twitch, youTube, now)
<1>1. CASE twitch = s.twitch /\ youTube = s.youTube
  BY <1>1 DEF ApplySnapshot, SameSession
<1>2. CASE ~(twitch = s.twitch /\ youTube = s.youTube)
  <2>1. /\ t.isLive = (twitch.live \/ youTube.live)
        /\ t.primarySource = ResolvePrimary(s.primarySource, twitch, youTube)
        /\ t.twitch = twitch
        /\ t.youTube = youTube
        /\ t.liveSessionId = ResolveLiveSessionId(s, twitch.live \/ youTube.live, now)
    BY <1>2 DEF ApplySnapshot
  <2>2. twitch.live \in BOOLEAN /\ youTube.live \in BOOLEAN
    BY DEF TwitchStatus, YouTubeStatus
  <2>3. /\ t.isLive <=> SourceLive(t.primarySource, twitch, youTube)
        /\ ~t.isLive => t.primarySource = Null
    BY <2>1, <2>2, NullAssumption DEF ResolvePrimary, SourceLive, Sources
  <2>4. t.isLive <=> t.liveSessionId # NoSession
    BY <2>1, <2>2 DEF ResolveLiveSessionId
  <2>5. SameSession(s, t)
    BY <2>1, <2>2 DEF SameSession, ResolvePrimary, ResolveLiveSessionId
  <2>6. QED BY <2>1, <2>2, <2>3, <2>4, <2>5
<1>3. QED BY <1>1, <1>2

\* Applying an update preserves consistency and continues the session.
LEMMA ApplyConsistent ==
    ASSUME NEW current \in State, NEW given \in Update,
           NEW now \in Time \ {NoSession}, Consistent(current)
    PROVE  LET next == Apply(current, given, now) IN
           /\ Consistent(next)
           /\ SameSession(current.snapshot, next.snapshot)
<1> DEFINE next == Apply(current, given, now)
           s == current.snapshot
           t == ApplySnapshot(s, NextTwitch(current, given),
                              NextYouTube(current, given), now)
<1>1. CASE NothingToApply(current, given)
  BY <1>1 DEF Apply, SameSession
<1>2. CASE ~NothingToApply(current, given)
  <2>1. next.snapshot = t
    BY <1>2 DEF Apply
  <2>2. /\ t.isLive <=> t.twitch.live \/ t.youTube.live
        /\ t.isLive <=> SourceLive(t.primarySource, t.twitch, t.youTube)
        /\ ~t.isLive => t.primarySource = Null
        /\ t.isLive <=> t.liveSessionId # NoSession
        /\ SameSession(s, t)
    <3>1. s \in Snapshot
      BY DEF State
    <3> HIDE DEF s
    <3>2. QED
      BY <3>1, NextTwitchType, NextYouTubeType, ApplySnapshotDerives
         DEF Consistent, s
  <2>3. next.offlineObservations > 0 =>
           /\ next.snapshot.youTube.live
           /\ next.offlineObservations < OfflineConfirmationCount
    <3>1. CASE Accepted(current, given)
      BY <3>1, ApplyOffline
    <3>2. CASE ~Accepted(current, given)
      BY <3>2, ApplyRejected DEF Consistent
    <3>3. QED BY <3>1, <3>2
  <2>4. QED BY <2>1, <2>2, <2>3 DEF Consistent
<1>3. QED BY <1>1, <1>2

-----------------------------------------------------------------------------
(* Types.  TypeOK alone is not inductive: an exchange needs to know that    *)
(* its caller holds an update.                                             *)

CallerHolds(c) ==
    /\ pc[c] = "asking" => observed[c] # Null
    /\ pc[c] \in {"get", "exchange", "publish", "return"} => update[c] # Null
    /\ pc[c] \in {"publish", "return"} => payload[c] # Null

TypeInv == TypeOK /\ \A c \in Callers : CallerHolds(c)

\* What an exchange starts from and what it writes are states.
LEMMA CurrentType ==
    ASSUME TypeInv, NEW c \in Callers
    PROVE  Current(c) \in State
  BY InitialState DEF TypeInv, TypeOK, Current

LEMMA ExchangeType ==
    ASSUME TypeInv, NEW c \in Callers, NEW now \in Times, Exchange(c, now)
    PROVE  /\ update[c] \in Update
           /\ now \in Time \ {NoSession}
           /\ Current(c) \in State
           /\ stored' = Apply(Current(c), update[c], now)
           /\ stored' \in State
           /\ stored' # Null
           /\ nextEpoch' \in Nat
<1>1. update[c] \in Update
  BY DEF TypeInv, TypeOK, CallerHolds, Exchange
<1>2. now \in Time \ {NoSession}
  BY TimesAssumption
<1>3. Current(c) \in State
  BY CurrentType
<1>4. stored' = Apply(Current(c), update[c], now)
  BY DEF Exchange
<1>5. stored' \in State
  BY <1>1, <1>2, <1>3, <1>4, ApplyType
<1>6. stored' # Null
  BY <1>5, NullAssumption
<1>7. nextEpoch' \in Nat
  BY DEF Exchange, TypeInv, TypeOK
<1>8. QED BY <1>1, <1>2, <1>3, <1>4, <1>5, <1>6, <1>7

\* The initial states are well typed and no caller holds anything.
LEMMA InitTypeInv == Init => TypeInv
  BY BroadcastsAssumption DEF Init, TypeInv, TypeOK, CallerHolds, Locations

\* Every step keeps the types and what the callers hold.
LEMMA NextTypeInv == TypeInv /\ [Next]_vars => TypeInv'
<1> SUFFICES ASSUME TypeInv, [Next]_vars PROVE TypeInv'
  OBVIOUS
<1> USE DEF TypeInv, TypeOK, CallerHolds, Locations
<1>1. ASSUME NEW c \in Callers, Submit(c) PROVE TypeInv'
  BY <1>1, SubmissionsAssumption, NullAssumption DEF Submit, upstream, history
<1>2. ASSUME NEW c \in Callers, Observe(c) PROVE TypeInv'
  BY <1>2 DEF Observe, upstream, history
<1>3. ASSUME NEW c \in Callers, Create(c) PROVE TypeInv'
  BY <1>3, InitialState, NullAssumption DEF Create, upstream, history
<1>4. ASSUME NEW c \in Callers, Answer(c) PROVE TypeInv'
  <2>1. PICK answer \in Answers(observed[c].snapshot.youTube) :
           update' = [update EXCEPT ![c] =
               [twitch |-> Null, youTube |-> answer,
                observation |-> [epoch |-> observed[c].epoch,
                                 revision |-> observed[c].youTubeRevision]]]
    BY <1>4 DEF Answer
  <2>2. answer \in YouTubeStatus
    <3>1. YouTubeOffline \in YouTubeStatus
      BY DEF YouTubeOffline, YouTubeStatus
    <3>2. answer = broadcast \/ answer = YouTubeOffline
      BY DEF Answers, Search, KnownVideoStatus
    <3>3. QED BY <3>1, <3>2
  <2>3. observed[c] \in State
    BY <1>4 DEF Answer
  <2>4. update' \in [Callers -> Update \cup {Null}] /\ update'[c] # Null
    BY <2>1, <2>2, <2>3, NullAssumption DEF Update, Observation, State
  <2>5. \A d \in Callers \ {c} : update'[d] = update[d]
    BY <2>1
  <2>6. QED BY <1>4, <2>4, <2>5 DEF Answer, upstream, history
<1>5. ASSUME NEW c \in Callers, Get(c) PROVE TypeInv'
  BY <1>5 DEF Get, upstream, history
<1>6. ASSUME NEW c \in Callers, ReturnCurrent(c) PROVE TypeInv'
  BY <1>6 DEF ReturnCurrent, Unchanged, upstream, history
<1>7. ASSUME NEW c \in Callers, NEW now \in Times, Exchange(c, now) PROVE TypeInv'
  <2>1. stored' \in State /\ stored' # Null /\ nextEpoch' \in Nat
    BY <1>7, ExchangeType
  <2>2. acceptedAt' \in Nat /\ offlineRun' \in Nat
    BY <1>7 DEF Exchange, RecordAcceptance
  <2>3. QED BY <1>7, <2>1, <2>2 DEF Exchange, upstream
<1>8. ASSUME NEW c \in Callers, Conflict(c) PROVE TypeInv'
  BY <1>8 DEF Conflict, upstream, history
<1>9. ASSUME NEW c \in Callers, Exhaust(c) PROVE TypeInv'
  BY <1>9 DEF Exhaust, Forget, upstream
<1>10. ASSUME NEW c \in Callers, Publish(c) PROVE TypeInv'
  BY <1>10 DEF Publish, upstream, history
<1>11. ASSUME NEW c \in Callers, Return(c) PROVE TypeInv'
  BY <1>11 DEF Return, Forget, upstream
<1>12. ASSUME NEW c \in Callers, Fail(c) PROVE TypeInv'
  BY <1>12 DEF Fail, Forget, upstream
<1>13. CASE BroadcastChanges
  BY <1>13, BroadcastsAssumption DEF BroadcastChanges, callerVars, history
<1>14. CASE Lose
  BY <1>14 DEF Lose, upstream, callerVars, history
<1>15. CASE UNCHANGED vars
  BY <1>15 DEF vars, upstream, callerVars, history
<1>16. QED
  BY <1>1, <1>2, <1>3, <1>4, <1>5, <1>6, <1>7, <1>8, <1>9, <1>10, <1>11, <1>12,
     <1>13, <1>14, <1>15 DEF Next, Step

\* Every reachable state is well typed, and every caller that is about to
\* exchange, publish or return holds what it needs for that.
LEMMA CallersHold == Spec => []TypeInv
  BY InitTypeInv, NextTypeInv, PTL DEF Spec

\* The variables of the store and of its callers keep their types.
THEOREM StoreTypes == Spec => []TypeOK
<1>1. TypeInv => TypeOK
  BY DEF TypeInv
<1>2. QED BY <1>1, CallersHold, PTL

-----------------------------------------------------------------------------
(* What a step can do to the stored state.  All the invariants below argue *)
(* over these four cases, not over the actions.                            *)

Kept == stored' = stored /\ nextEpoch' = nextEpoch
Lost == stored' = Null /\ nextEpoch' = nextEpoch

\* The key is created, by GetAsync or by an update.
Opened ==
    /\ stored = Null
    /\ stored' \in State /\ stored' # Null
    /\ stored'.epoch = nextEpoch
    /\ nextEpoch' = nextEpoch + 1

\* An exchange replaces the stored state by its successor.
Advanced ==
    /\ stored \in State /\ stored # Null
    /\ stored' \in State /\ stored' # Null
    /\ stored'.epoch = stored.epoch
    /\ stored'.version = stored.version + 1
    /\ stored'.youTubeRevision \in {stored.youTubeRevision, stored.youTubeRevision + 1}
    /\ nextEpoch' = nextEpoch

\* A caller that does not end gets its copies from the store.
CopiesFromStore ==
    /\ published' \subseteq published \cup {payload[c] : c \in Callers}
    /\ \A c \in Callers :
           /\ observed'[c] \in {observed[c], stored', Null}
           /\ payload'[c] \in {payload[c], stored', Null}

\* A successful exchange opens an epoch or advances the current one.
LEMMA ExchangeStored ==
    ASSUME TypeInv, NEW c \in Callers, NEW now \in Times, Exchange(c, now)
    PROVE  /\ Opened \/ Advanced
           /\ payload[c] = stored
<1>1. /\ update[c] \in Update
      /\ now \in Time
      /\ Current(c) \in State
      /\ stored' = Apply(Current(c), update[c], now)
      /\ stored' \in State
      /\ stored' # Null
  BY ExchangeType
<1>2. payload[c] = stored
  BY DEF Exchange
<1>3. CASE stored = Null
  <2>1. Current(c).epoch = nextEpoch
    BY <1>2, <1>3 DEF Current, CreateInitial
  <2>2. stored'.epoch = nextEpoch
    BY <1>1, <2>1 DEF Apply
  <2>3. nextEpoch' = nextEpoch + 1
    BY <1>2, <1>3 DEF Exchange
  <2>4. QED BY <1>1, <1>2, <1>3, <2>2, <2>3 DEF Opened
<1>4. CASE stored # Null
  <2>1. Current(c) = stored /\ stored \in State
    BY <1>2, <1>4 DEF Current, TypeInv, TypeOK
  <2>2. ~NothingToApply(stored, update[c])
    BY <1>2, <1>4 DEF Exchange, Unchanged
  <2>3. nextEpoch' = nextEpoch
    BY <1>2, <1>4 DEF Exchange
  <2>4. /\ stored'.epoch = stored.epoch
        /\ stored'.version = stored.version + 1
        /\ stored'.youTubeRevision \in
               {stored.youTubeRevision, stored.youTubeRevision + 1}
    BY <1>1, <2>1, <2>2, ApplyCounters
  <2>5. QED BY <1>1, <1>2, <1>4, <2>1, <2>3, <2>4 DEF Advanced
<1>5. QED BY <1>3, <1>4

\* Every step does one of the four things, and copies only what is stored.
LEMMA StoredStep ==
    ASSUME TypeInv, [Next]_vars
    PROVE  /\ Kept \/ Lost \/ Opened \/ Advanced
           /\ CopiesFromStore
<1> USE DEF TypeInv, TypeOK
<1>1. ASSUME NEW c \in Callers, Create(c)
      PROVE  (Kept \/ Opened) /\ CopiesFromStore
  <2>1. Kept \/ Opened
    BY <1>1, InitialState, NullAssumption DEF Create, Kept, Opened, CreateInitial
  <2>2. CopiesFromStore
    BY <1>1 DEF Create, CopiesFromStore
  <2>3. QED BY <2>1, <2>2
<1>2. ASSUME NEW c \in Callers, NEW now \in Times, Exchange(c, now)
      PROVE  (Opened \/ Advanced) /\ CopiesFromStore
  <2>1. CopiesFromStore
    BY <1>2 DEF Exchange, CopiesFromStore
  <2>2. QED BY <1>2, <2>1, ExchangeStored
<1>3. ASSUME NEW c \in Callers,
             \/ Submit(c) \/ Observe(c) \/ Answer(c) \/ Get(c) \/ ReturnCurrent(c)
             \/ Conflict(c)
      PROVE  Kept /\ CopiesFromStore
  BY <1>3 DEF Submit, Observe, Answer, Get, ReturnCurrent, Conflict, Kept, CopiesFromStore
<1>4. ASSUME NEW c \in Callers, Exhaust(c) \/ Return(c) \/ Fail(c)
      PROVE  Kept /\ CopiesFromStore
  BY <1>4 DEF Exhaust, Return, Fail, Forget, Kept, CopiesFromStore
<1>5. ASSUME NEW c \in Callers, Publish(c) PROVE Kept /\ CopiesFromStore
  BY <1>5 DEF Publish, Kept, CopiesFromStore
<1>6. CASE BroadcastChanges
  BY <1>6 DEF BroadcastChanges, callerVars, Kept, CopiesFromStore
<1>7. CASE Lose
  BY <1>7 DEF Lose, callerVars, Lost, CopiesFromStore
<1>8. CASE UNCHANGED vars
  BY <1>8 DEF vars, callerVars, Kept, CopiesFromStore
<1>9. QED
  BY <1>1, <1>2, <1>3, <1>4, <1>5, <1>6, <1>7, <1>8 DEF Next, Step

-----------------------------------------------------------------------------
(* Epoch and version identify a state. *)

\* No copy is of an epoch that does not exist yet, and none is ahead of what is
\* stored: so the next state stored differs from every copy in epoch or version.
CopiesBehind ==
    \A s \in Copies :
        /\ s \in State
        /\ s.epoch < nextEpoch
        /\ stored # Null /\ s.epoch = stored.epoch => s.version <= stored.version

IdentityInv == CopiesBehind /\ VersionIdentifiesState

LEMMA NextIdentityInv ==
    ASSUME TypeInv, IdentityInv, [Next]_vars
    PROVE  IdentityInv'
<1>1. /\ Kept \/ Lost \/ Opened \/ Advanced
      /\ CopiesFromStore
  BY StoredStep
<1>2. \A s \in Copies' : s \in Copies \/ (s = stored' /\ s # Null)
  BY <1>1 DEF CopiesFromStore, Copies
<1>3. stored # Null => stored \in Copies
  BY DEF Copies
<1>4. nextEpoch \in Nat
  BY DEF TypeInv, TypeOK
<1>5. CASE Kept \/ Lost
  <2>1. Copies' \subseteq Copies
    BY <1>2, <1>3, <1>5 DEF Kept, Lost
  <2>2. CopiesBehind'
    BY <1>5, <2>1 DEF Kept, Lost, CopiesBehind, IdentityInv
  <2>3. VersionIdentifiesState'
    BY <2>1 DEF VersionIdentifiesState, IdentityInv
  <2>4. QED BY <2>2, <2>3 DEF IdentityInv
<1>6. CASE Opened
  <2>1. CopiesBehind'
    BY <1>2, <1>4, <1>6 DEF Opened, CopiesBehind, IdentityInv, State
  <2>2. VersionIdentifiesState'
    BY <1>2, <1>4, <1>6 DEF Opened, CopiesBehind, VersionIdentifiesState, IdentityInv, State
  <2>3. QED BY <2>1, <2>2 DEF IdentityInv
<1>7. CASE Advanced
  <2>1. CopiesBehind'
    BY <1>2, <1>3, <1>4, <1>7 DEF Advanced, CopiesBehind, IdentityInv, State
  <2>2. VersionIdentifiesState'
    BY <1>2, <1>3, <1>4, <1>7 DEF Advanced, CopiesBehind, VersionIdentifiesState, IdentityInv, State
  <2>3. QED BY <2>1, <2>2 DEF IdentityInv
<1>8. QED BY <1>1, <1>5, <1>6, <1>7

\* Two states of one epoch and version, wherever they are held, are the same.
THEOREM VersionsIdentifyStates == Spec => []VersionIdentifiesState
<1>1. Init => IdentityInv
  BY DEF Init, IdentityInv, CopiesBehind, VersionIdentifiesState, Copies
<1>2. TypeInv /\ IdentityInv /\ [Next]_vars => IdentityInv'
  BY NextIdentityInv
<1>3. IdentityInv => VersionIdentifiesState
  BY DEF IdentityInv
<1>4. QED BY <1>1, <1>2, <1>3, CallersHold, PTL DEF Spec

-----------------------------------------------------------------------------
(* The canonical snapshot. *)

\* A step from a consistent state leads to one, and continues the session.
LEMMA NextConsistent ==
    ASSUME TypeInv, SnapshotConsistent, [Next]_vars
    PROVE  /\ SnapshotConsistent'
           /\ stored # Null /\ stored' # Null =>
                  SameSession(stored.snapshot, stored'.snapshot)
<1>1. ASSUME NEW c \in Callers, NEW now \in Times, Exchange(c, now)
      PROVE  /\ Consistent(stored')
             /\ stored # Null => SameSession(stored.snapshot, stored'.snapshot)
  <2>1. /\ update[c] \in Update
        /\ now \in Time \ {NoSession}
        /\ Current(c) \in State
        /\ stored' = Apply(Current(c), update[c], now)
    BY <1>1, ExchangeType
  <2>2. payload[c] = stored
    BY <1>1 DEF Exchange
  <2>3. stored # Null => Current(c) = stored
    BY <2>2 DEF Current
  <2>4. Consistent(Current(c))
    BY <2>2, InitialState DEF Current, SnapshotConsistent, TypeInv, TypeOK
  <2>5. QED BY <2>1, <2>3, <2>4, ApplyConsistent
<1>2. ASSUME NEW c \in Callers, Create(c), stored = Null
      PROVE  Consistent(stored')
  BY <1>2, InitialState DEF Create, TypeInv, TypeOK
<1>3. CASE stored' = stored
  BY <1>3 DEF SnapshotConsistent, SameSession
<1>4. CASE stored' = Null
  BY <1>4 DEF SnapshotConsistent
<1>5. CASE stored' # stored /\ stored' # Null
  <2>1. \/ \E c \in Callers, now \in Times : Exchange(c, now)
        \/ \E c \in Callers : Create(c) /\ stored = Null
    BY <1>5 DEF Next, Step, vars, Submit, Observe, Create, Answer, Get, ReturnCurrent,
                Conflict, Exhaust, Publish, Return, Fail, BroadcastChanges, Lose
  <2>2. QED BY <1>1, <1>2, <2>1 DEF SnapshotConsistent
<1>6. QED BY <1>3, <1>4, <1>5

\* The derived fields of the canonical snapshot always follow from its sources.
THEOREM SnapshotsConsistent == Spec => []SnapshotConsistent
<1>1. Init => SnapshotConsistent
  BY DEF Init, SnapshotConsistent
<1>2. TypeInv /\ SnapshotConsistent /\ [Next]_vars => SnapshotConsistent'
  BY NextConsistent
<1>3. QED BY <1>1, <1>2, CallersHold, PTL DEF Spec

\* While the canonical state is live its session id stays, and its primary
\* source stays while that source is live.
THEOREM SessionsStable == Spec => SessionStable
<1>1. TypeInv /\ SnapshotConsistent /\ [Next]_vars =>
          [stored # Null /\ stored' # Null =>
              SameSession(stored.snapshot, stored'.snapshot)]_vars
  BY NextConsistent
<1>2. QED BY <1>1, CallersHold, SnapshotsConsistent, PTL DEF Spec, SessionStable

-----------------------------------------------------------------------------
(* YouTube observations. *)

\* No revision captured is ahead of the stored one: a caller cannot hold the
\* number of a revision that is still to come.
CapturesBehind ==
    \A c \in Callers :
        /\ observed[c] # Null =>
               /\ observed[c].epoch < nextEpoch
               /\ stored # Null /\ observed[c].epoch = stored.epoch =>
                      observed[c].youTubeRevision <= stored.youTubeRevision
        /\ update[c] # Null /\ update[c].observation # Null =>
               /\ update[c].observation.epoch < nextEpoch
               /\ stored # Null /\ update[c].observation.epoch = stored.epoch =>
                      update[c].observation.revision <= stored.youTubeRevision

\* An observation that would be accepted now was answered after the last one
\* that was.
CurrentAnswersAreLatest ==
    \A c \in Callers :
        /\ stored # Null
        /\ update[c] # Null /\ update[c].observation # Null
        /\ update[c].observation.epoch = stored.epoch
        /\ update[c].observation.revision = stored.youTubeRevision
        => acceptedAt <= sampledAt[c]

MomentsPast == acceptedAt <= moment /\ \A c \in Callers : sampledAt[c] <= moment

\* The epochs in use were handed out.
StoredEpoch == stored # Null => stored.epoch < nextEpoch

OrderInv == StoredEpoch /\ CapturesBehind /\ CurrentAnswersAreLatest /\ MomentsPast

\* What an exchange does to the stored revision and to the latest acceptance.
LEMMA ExchangeAcceptance ==
    ASSUME TypeInv, OrderInv, NEW c \in Callers, NEW now \in Times, Exchange(c, now)
    PROVE  /\ acceptedAt' >= acceptedAt
           /\ acceptedAt' <= moment
           /\ Advanced => \/ stored'.youTubeRevision = stored.youTubeRevision + 1
                          \/ /\ stored'.youTubeRevision = stored.youTubeRevision
                             /\ acceptedAt' = acceptedAt
<1>1. /\ update[c] \in Update /\ update[c] # Null
      /\ now \in Time
      /\ Current(c) \in State
      /\ stored' = Apply(Current(c), update[c], now)
  BY ExchangeType, NullAssumption
<1>2. /\ payload[c] = stored
      /\ RecordAcceptance(c, Current(c), update[c])
  BY DEF Exchange
<1>3. acceptedAt \in Nat /\ moment \in Nat /\ sampledAt[c] \in Nat
  BY DEF TypeInv, TypeOK
<1>4. CASE Accepted(Current(c), update[c]) /\ update[c].observation # Null
  <2>1. /\ update[c].observation.epoch = Current(c).epoch
        /\ update[c].observation.revision = Current(c).youTubeRevision
    BY <1>4 DEF Accepted
  <2>2. update[c].observation.epoch \in Nat /\ nextEpoch \in Nat
    BY <1>1, <1>4 DEF Update, Observation, TypeInv, TypeOK
  <2>3. stored # Null /\ Current(c) = stored
    BY <1>1, <1>2, <1>4, <2>1, <2>2
       DEF Current, CreateInitial, OrderInv, CapturesBehind
  <2>4. acceptedAt <= sampledAt[c]
    BY <1>1, <1>4, <2>1, <2>3 DEF OrderInv, CurrentAnswersAreLatest
  <2>5. acceptedAt' = sampledAt[c]
    BY <1>2, <1>4 DEF RecordAcceptance
  <2>6. stored'.youTubeRevision = stored.youTubeRevision + 1
    BY <1>1, <1>4, <2>3, ApplyCounters DEF NothingToApply
  <2>7. QED BY <1>3, <2>4, <2>5, <2>6 DEF OrderInv, MomentsPast
<1>5. CASE ~(Accepted(Current(c), update[c]) /\ update[c].observation # Null)
  <2>1. acceptedAt' = acceptedAt
    BY <1>2, <1>5 DEF RecordAcceptance
  <2>2. Advanced => stored'.youTubeRevision \in
            {stored.youTubeRevision, stored.youTubeRevision + 1}
    BY DEF Advanced
  <2>3. QED BY <1>3, <2>1, <2>2 DEF OrderInv, MomentsPast
<1>6. QED BY <1>4, <1>5

\* Only an exchange accepts an observation, and answers are not older than
\* their captures.
LEMMA NextOrderInv ==
    ASSUME TypeInv, OrderInv, [Next]_vars
    PROVE  OrderInv' /\ acceptedAt' >= acceptedAt
<1> USE DEF TypeInv, TypeOK
<1>1. Kept \/ Lost \/ Opened \/ Advanced
  BY StoredStep
<1>2. StoredEpoch'
  BY <1>1 DEF Kept, Lost, Opened, Advanced, OrderInv, StoredEpoch
<1>3. ASSUME NEW c \in Callers, NEW now \in Times, Exchange(c, now)
      PROVE  /\ CapturesBehind' /\ CurrentAnswersAreLatest' /\ MomentsPast'
             /\ acceptedAt' >= acceptedAt
  <2>1. /\ observed' = observed /\ update' = update /\ sampledAt' = sampledAt
        /\ moment' = moment
    BY <1>3 DEF Exchange, upstream
  <2>2. /\ Opened \/ Advanced
        /\ acceptedAt' >= acceptedAt
        /\ acceptedAt' <= moment
        /\ Advanced => \/ stored'.youTubeRevision = stored.youTubeRevision + 1
                       \/ /\ stored'.youTubeRevision = stored.youTubeRevision
                          /\ acceptedAt' = acceptedAt
    BY <1>3, ExchangeStored, ExchangeAcceptance
  <2>3. \A d \in Callers : /\ observed[d] # Null => observed[d] \in State
                           /\ update[d] # Null => update[d] \in Update
    OBVIOUS
  <2>4. \A d \in Callers : update[d] # Null /\ update[d].observation # Null =>
            update[d].observation \in Observation
    BY <2>3 DEF Update
  <2>5. MomentsPast'
    BY <2>1, <2>2 DEF OrderInv, MomentsPast
  <2>6. CASE Opened
    <3>1. CapturesBehind'
      BY <2>1, <2>3, <2>4, <2>6
         DEF Opened, OrderInv, CapturesBehind, State, Observation
    <3>2. CurrentAnswersAreLatest'
      BY <2>1, <2>4, <2>6
         DEF Opened, OrderInv, CapturesBehind, CurrentAnswersAreLatest, Observation
    <3>3. QED BY <2>2, <2>5, <3>1, <3>2
  <2>7. CASE Advanced
    <3>1. CapturesBehind'
      BY <2>1, <2>3, <2>4, <2>7
         DEF Advanced, OrderInv, CapturesBehind, State, Observation
    <3>2. CurrentAnswersAreLatest'
      BY <2>1, <2>2, <2>4, <2>7
         DEF Advanced, OrderInv, CapturesBehind, CurrentAnswersAreLatest,
             State, Observation
    <3>3. QED BY <2>2, <2>5, <3>1, <3>2
  <2>8. QED BY <2>2, <2>6, <2>7
<1>4. ASSUME NEW c \in Callers, Observe(c) \/ Create(c)
      PROVE  /\ CapturesBehind' /\ CurrentAnswersAreLatest' /\ MomentsPast'
             /\ acceptedAt' = acceptedAt
  <2>1. /\ update' = update /\ sampledAt' = sampledAt
        /\ moment' = moment /\ acceptedAt' = acceptedAt
        /\ observed' = [observed EXCEPT ![c] = stored']
        /\ stored' # Null => stored' \in State
        /\ Kept \/ Opened
    BY <1>4, InitialState, NullAssumption
       DEF Observe, Create, upstream, history, Kept, Opened, CreateInitial
  <2>2. \A d \in Callers : /\ observed[d] # Null => observed[d] \in State
                           /\ update[d] # Null => update[d] \in Update
    OBVIOUS
  <2>3. \A d \in Callers : update[d] # Null /\ update[d].observation # Null =>
            update[d].observation \in Observation
    BY <2>2 DEF Update
  <2>4. CapturesBehind'
    BY <1>2, <2>1, <2>2, <2>3
       DEF Kept, Opened, OrderInv, StoredEpoch, CapturesBehind, State, Observation
  <2>5. CurrentAnswersAreLatest'
    BY <2>1, <2>3
       DEF Kept, Opened, OrderInv, CapturesBehind, CurrentAnswersAreLatest, Observation
  <2>6. QED BY <2>1, <2>4, <2>5 DEF OrderInv, MomentsPast
<1>5. ASSUME NEW c \in Callers, Answer(c)
      PROVE  /\ CapturesBehind' /\ CurrentAnswersAreLatest' /\ MomentsPast'
             /\ acceptedAt' = acceptedAt
  <2>1. /\ observed' = [observed EXCEPT ![c] = Null]
        /\ sampledAt' = [sampledAt EXCEPT ![c] = moment]
        /\ moment' = moment /\ acceptedAt' = acceptedAt
        /\ stored' = stored /\ nextEpoch' = nextEpoch
        /\ observed[c] # Null
    BY <1>5 DEF Answer, upstream, CallerHolds
  <2>2. /\ \A d \in Callers \ {c} : update'[d] = update[d]
        /\ update'[c].observation = [epoch |-> observed[c].epoch,
                                     revision |-> observed[c].youTubeRevision]
    BY <1>5 DEF Answer
  <2>3. CapturesBehind'
    BY <2>1, <2>2 DEF OrderInv, CapturesBehind
  <2>4. CurrentAnswersAreLatest'
    BY <2>1, <2>2 DEF OrderInv, CurrentAnswersAreLatest, MomentsPast
  <2>5. QED BY <2>1, <2>3, <2>4 DEF OrderInv, MomentsPast
<1>6. ASSUME NEW c \in Callers, Submit(c)
      PROVE  /\ CapturesBehind' /\ CurrentAnswersAreLatest' /\ MomentsPast'
             /\ acceptedAt' = acceptedAt
  <2>1. /\ observed' = observed /\ sampledAt' = sampledAt /\ moment' = moment
        /\ acceptedAt' = acceptedAt /\ stored' = stored /\ nextEpoch' = nextEpoch
        /\ \A d \in Callers : update'[d] = update[d] \/ update'[d].observation = Null
    BY <1>6, SubmissionsAssumption DEF Submit, upstream, history
  <2>2. QED BY <2>1 DEF OrderInv, CapturesBehind, CurrentAnswersAreLatest, MomentsPast
<1>7. ASSUME NEW c \in Callers,
             Get(c) \/ ReturnCurrent(c) \/ Conflict(c) \/ Publish(c)
      PROVE  /\ CapturesBehind' /\ CurrentAnswersAreLatest' /\ MomentsPast'
             /\ acceptedAt' = acceptedAt
  <2>1. /\ observed' = observed /\ update' = update /\ sampledAt' = sampledAt
        /\ moment' = moment /\ acceptedAt' = acceptedAt
        /\ stored' = stored /\ nextEpoch' = nextEpoch
    BY <1>7 DEF Get, ReturnCurrent, Conflict, Publish, upstream, history
  <2>2. QED BY <2>1 DEF OrderInv, CapturesBehind, CurrentAnswersAreLatest, MomentsPast
<1>8. ASSUME NEW c \in Callers, Exhaust(c) \/ Return(c) \/ Fail(c)
      PROVE  /\ CapturesBehind' /\ CurrentAnswersAreLatest' /\ MomentsPast'
             /\ acceptedAt' = acceptedAt
  <2>1. /\ observed' = [observed EXCEPT ![c] = Null]
        /\ update' = [update EXCEPT ![c] = Null]
        /\ sampledAt' = [sampledAt EXCEPT ![c] = 0]
        /\ moment' = moment /\ acceptedAt' = acceptedAt
        /\ stored' = stored /\ nextEpoch' = nextEpoch
    BY <1>8 DEF Exhaust, Return, Fail, Forget, upstream
  <2>2. QED BY <2>1 DEF OrderInv, CapturesBehind, CurrentAnswersAreLatest, MomentsPast
<1>9. ASSUME BroadcastChanges \/ Lose \/ UNCHANGED vars
      PROVE  /\ CapturesBehind' /\ CurrentAnswersAreLatest' /\ MomentsPast'
             /\ acceptedAt' = acceptedAt
  <2>1. /\ observed' = observed /\ update' = update /\ sampledAt' = sampledAt
        /\ moment' >= moment /\ acceptedAt' = acceptedAt
        /\ stored' \in {stored, Null} /\ nextEpoch' = nextEpoch
        /\ moment' \in Nat
    BY <1>9 DEF BroadcastChanges, Lose, vars, upstream, callerVars, history
  <2>2. CapturesBehind' /\ CurrentAnswersAreLatest'
    BY <2>1 DEF OrderInv, CapturesBehind, CurrentAnswersAreLatest
  <2>3. MomentsPast'
    BY <2>1 DEF OrderInv, MomentsPast
  <2>4. QED BY <2>1, <2>2, <2>3
<1>10. /\ CapturesBehind' /\ CurrentAnswersAreLatest' /\ MomentsPast'
       /\ acceptedAt' = acceptedAt \/ acceptedAt' >= acceptedAt
  <2>1. ASSUME NEW c \in Callers, Step(c)
        PROVE  /\ CapturesBehind' /\ CurrentAnswersAreLatest' /\ MomentsPast'
               /\ acceptedAt' = acceptedAt \/ acceptedAt' >= acceptedAt
    BY <2>1, <1>3, <1>4, <1>5, <1>6, <1>7, <1>8 DEF Step
  <2>2. (\E c \in Callers : Step(c)) \/ (BroadcastChanges \/ Lose \/ UNCHANGED vars)
    BY DEF Next
  <2>3. QED BY <2>1, <2>2, <1>9
<1>11. acceptedAt' = acceptedAt => acceptedAt' >= acceptedAt
  OBVIOUS
<1>12. QED BY <1>2, <1>10, <1>11 DEF OrderInv

\* Of overlapping polls, one that YouTube answered earlier is never accepted
\* after one it answered later.
THEOREM AcceptanceInOrder == Spec => AcceptedInOrder
<1>1. Init => OrderInv
  BY DEF Init, OrderInv, StoredEpoch, CapturesBehind, CurrentAnswersAreLatest, MomentsPast
<1>2. TypeInv /\ OrderInv /\ [Next]_vars => OrderInv'
  BY NextOrderInv
<1>3. TypeInv /\ OrderInv /\ [Next]_vars => [acceptedAt' >= acceptedAt]_vars
  BY NextOrderInv
<1>4. QED BY <1>1, <1>2, <1>3, CallersHold, PTL DEF Spec, AcceptedInOrder

-----------------------------------------------------------------------------
(* The offline rule. *)

\* The stored count never exceeds the run of offline observations accepted.
CountBacked == stored # Null => stored.offlineObservations <= offlineRun

\* An exchange counts what the history counts.
LEMMA ExchangeOffline ==
    ASSUME TypeInv, CountBacked, NEW c \in Callers, NEW now \in Times, Exchange(c, now)
    PROVE  /\ CountBacked'
           /\ /\ stored # Null /\ stored.snapshot.youTube.live
              /\ ~stored'.snapshot.youTube.live
              => offlineRun' = 0 \/ offlineRun' >= OfflineConfirmationCount
<1> DEFINE u == update[c]
<1>1. /\ u \in Update /\ now \in Time
      /\ Current(c) \in State
      /\ stored' = Apply(Current(c), u, now)
      /\ stored' \in State
  BY ExchangeType, NullAssumption
<1>2. /\ payload[c] = stored
      /\ RecordAcceptance(c, Current(c), u)
  BY DEF Exchange
<1>3. /\ Current(c).offlineObservations <= offlineRun
      /\ stored # Null => Current(c) = stored
  BY <1>2 DEF Current, CreateInitial, CountBacked, TypeInv, TypeOK
<1>4. /\ offlineRun \in Nat
      /\ Current(c).offlineObservations \in Nat
      /\ Current(c).snapshot.youTube.live \in BOOLEAN
  BY <1>1 DEF TypeInv, TypeOK, State, Snapshot, YouTubeStatus
<1>5. CASE ~Accepted(Current(c), u)
  <2>1. offlineRun' = offlineRun
    BY <1>2, <1>5 DEF RecordAcceptance
  <2>2. /\ stored'.snapshot.youTube = Current(c).snapshot.youTube
        /\ stored'.offlineObservations = Current(c).offlineObservations
    BY <1>1, <1>5, ApplyRejected
  <2>3. QED BY <1>3, <1>4, <2>1, <2>2 DEF CountBacked
<1>6. CASE Accepted(Current(c), u) /\ CountsOffline(Current(c), u)
  <2>1. offlineRun' = offlineRun + 1
    BY <1>2, <1>6 DEF RecordAcceptance, CountsOffline
  <2>2. \/ /\ stored'.offlineObservations = 0
           /\ Current(c).offlineObservations + 1 >= OfflineConfirmationCount
        \/ /\ stored'.offlineObservations = Current(c).offlineObservations + 1
           /\ stored'.snapshot.youTube.live
    BY <1>1, <1>6, ApplyOffline
  <2>3. QED
    BY <1>3, <1>4, <2>1, <2>2, OfflineConfirmationCountAssumption DEF CountBacked
<1>7. CASE Accepted(Current(c), u) /\ ~CountsOffline(Current(c), u)
  <2>1. /\ stored'.offlineObservations = 0
        /\ stored'.snapshot.youTube = u.youTube
    BY <1>1, <1>7, ApplyOffline
  <2>2. CASE u.observation = Null \/ u.youTube.live
    <3>1. offlineRun' = 0
      BY <1>2, <1>7, <2>2 DEF RecordAcceptance
    <3>2. QED BY <2>1, <3>1 DEF CountBacked
  <2>3. CASE u.observation # Null /\ ~u.youTube.live
    <3>1. offlineRun' = offlineRun + 1
      BY <1>2, <1>7, <2>3 DEF RecordAcceptance
    <3>2. ~Current(c).snapshot.youTube.live
      BY <1>7, <2>3 DEF CountsOffline
    <3>3. QED BY <1>3, <1>4, <2>1, <3>1, <3>2 DEF CountBacked
  <2>4. QED BY <2>2, <2>3
<1>8. QED BY <1>5, <1>6, <1>7

LEMMA NextCountBacked ==
    ASSUME TypeInv, CountBacked, [Next]_vars
    PROVE  /\ CountBacked'
           /\ /\ stored # Null /\ stored' # Null /\ stored.snapshot.youTube.live
              /\ ~stored'.snapshot.youTube.live
              => offlineRun' = 0 \/ offlineRun' >= OfflineConfirmationCount
<1>1. CASE \E c \in Callers, now \in Times : Exchange(c, now)
  BY <1>1, ExchangeOffline
<1>2. CASE ~\E c \in Callers, now \in Times : Exchange(c, now)
  <2>1. /\ offlineRun' = offlineRun
        /\ \/ stored' \in {stored, Null}
           \/ stored = Null /\ stored' = CreateInitial(nextEpoch)
    BY <1>2 DEF Next, Step, vars, history, Submit, Observe, Create, Answer, Get,
                ReturnCurrent, Conflict, Exhaust, Publish, Return, Fail,
                BroadcastChanges, Lose
  <2>2. offlineRun \in Nat
    BY DEF TypeInv, TypeOK
  <2>3. QED BY <2>1, <2>2 DEF CountBacked, CreateInitial
<1>3. QED BY <1>1, <1>2

\* Polling turns YouTube off only after OfflineConfirmationCount offline
\* observations in a row were accepted.
THEOREM OfflineIsConfirmed == Spec => OfflineConfirmed
<1>1. Init => CountBacked
  BY DEF Init, CountBacked
<1>2. TypeInv /\ CountBacked /\ [Next]_vars => CountBacked'
  BY NextCountBacked
<1>3. TypeInv /\ CountBacked /\ [Next]_vars =>
          [stored # Null /\ stored' # Null /\ stored.snapshot.youTube.live
               /\ ~stored'.snapshot.youTube.live
           => offlineRun' = 0 \/ offlineRun' >= OfflineConfirmationCount]_vars
  BY NextCountBacked
<1>4. QED BY <1>1, <1>2, <1>3, CallersHold, PTL DEF Spec, OfflineConfirmed

-----------------------------------------------------------------------------
(* The store implements the register. *)

\* A caller's request and response depend on its own variables only.
OthersKept(c) ==
    \A d \in Callers \ {c} :
        /\ Requests'[d] = Requests[d]
        /\ Responses'[d] = Responses[d]

LEMMA OwnStep ==
    ASSUME TypeInv, NEW c \in Callers,
           \A d \in Callers \ {c} :
               pc'[d] = pc[d] /\ update'[d] = update[d] /\ payload'[d] = payload[d]
    PROVE  OthersKept(c)
BY DEF OthersKept, Requests, Responses, InUpdate, TookEffect, Unchanged

\* The register applies updates with the reducer of the store.
LEMMA SameUpdates == Register!Update = Update
BY DEF Update, TwitchStatus, YouTubeStatus, Observation, Register!Update,
       Register!TwitchStatus, Register!YouTubeStatus, Register!Observation

LEMMA SameInitial == \A e : Register!CreateInitial(e) = CreateInitial(e)
BY DEF CreateInitial, Idle, YouTubeOffline, NoSession, Register!CreateInitial,
       Register!Idle, Register!YouTubeOffline, Register!NoSession

LEMMA SameReducer ==
    \A current, u, now : Register!Apply(current, u, now) = Apply(current, u, now)
<1>1. \A current, u : Register!Accepted(current, u) <=> Accepted(current, u)
  BY DEF Accepted, Register!Accepted
<1>2. \A current, u : /\ Register!CountsOffline(current, u) <=> CountsOffline(current, u)
                      /\ Register!ConfirmsOffline(current) <=> ConfirmsOffline(current)
  BY DEF CountsOffline, Register!CountsOffline, ConfirmsOffline, Register!ConfirmsOffline
<1>3. \A current, u :
          /\ Register!NextYouTube(current, u) = NextYouTube(current, u)
          /\ Register!NextOfflineObservations(current, u) =
                 NextOfflineObservations(current, u)
          /\ Register!NextRevision(current, u) = NextRevision(current, u)
          /\ Register!NextTwitch(current, u) = NextTwitch(current, u)
  BY <1>1, <1>2 DEF NextYouTube, NextOfflineObservations, NextRevision, NextTwitch,
      Register!NextYouTube, Register!NextOfflineObservations, Register!NextRevision,
      Register!NextTwitch, YouTubeOffline, Register!YouTubeOffline
<1>4. \A s, twitch, youTube, now :
          Register!ApplySnapshot(s, twitch, youTube, now) =
              ApplySnapshot(s, twitch, youTube, now)
  BY DEF ApplySnapshot, ResolvePrimary, ResolveLiveSessionId, SourceLive, NoSession,
      Register!ApplySnapshot, Register!ResolvePrimary, Register!ResolveLiveSessionId,
      Register!SourceLive, Register!NoSession
<1>5. \A current, u : Register!NothingToApply(current, u) <=> NothingToApply(current, u)
  BY <1>1, <1>3 DEF NothingToApply, Register!NothingToApply
<1>6. QED BY <1>3, <1>4, <1>5 DEF Apply, Register!Apply

\* What a caller sees of its call at each location.
LEMMA OwnView ==
    ASSUME NEW c \in Callers
    PROVE  /\ Requests[c] = IF pc[c] \in {"get", "exchange", "publish", "return"}
                             THEN update[c] ELSE Null
           /\ Responses[c] =
                  IF \/ pc[c] \in {"publish", "return"}
                     \/ pc[c] = "exchange" /\ payload[c] # Null
                           /\ NothingToApply(payload[c], update[c])
                  THEN payload[c] ELSE Null
BY DEF Requests, Responses, InUpdate, TookEffect, Unchanged

\* Submitting a status and submitting an answer both start a request.
LEMMA RequestStep ==
    ASSUME TypeInv, TypeInv', NEW c \in Callers, Submit(c) \/ Answer(c)
    PROVE  Register!Request(c)
<1>1. /\ pc[c] \in {"idle", "asking"}
      /\ pc' = [pc EXCEPT ![c] = "get"]
      /\ payload' = payload /\ stored' = stored /\ nextEpoch' = nextEpoch
      /\ \A d \in Callers \ {c} : update'[d] = update[d]
  BY DEF Submit, Answer, TypeInv, TypeOK
<1>2. pc'[c] = "get" /\ \A d \in Callers \ {c} : pc'[d] = pc[d]
  BY <1>1 DEF TypeInv, TypeOK
<1>3. update'[c] \in Update
  BY <1>2 DEF TypeInv, CallerHolds, TypeOK
<1>4. OthersKept(c)
  BY <1>1, <1>2, OwnStep
<1>5. Requests[c] = Null /\ Responses[c] = Null
  BY <1>1, OwnView
<1>6. Requests'[c] = update'[c] /\ Responses'[c] = Null
  BY <1>2 DEF Requests, Responses, InUpdate, TookEffect
<1>7. Responses' = Responses
  BY <1>4, <1>5, <1>6 DEF OthersKept, Responses
<1>8. Requests' = [Requests EXCEPT ![c] = Requests'[c]]
  BY <1>4 DEF OthersKept, Requests
<1>9. QED BY <1>1, <1>3, <1>5, <1>6, <1>7, <1>8, SameUpdates DEF Register!Request

\* A successful exchange performs the request.
LEMMA ExchangeStep ==
    ASSUME TypeInv, NEW c \in Callers, NEW now \in Times, Exchange(c, now)
    PROVE  Register!Perform(c, now)
<1>1. /\ pc[c] = "exchange" /\ ~Unchanged(c) /\ stored = payload[c]
      /\ stored' = Apply(Current(c), update[c], now)
      /\ stored' # Null
      /\ nextEpoch' = IF stored = Null THEN nextEpoch + 1 ELSE nextEpoch
      /\ update' = update
      /\ payload' = [payload EXCEPT ![c] = stored']
      /\ pc' \in {[pc EXCEPT ![c] = "publish"], [pc EXCEPT ![c] = "return"]}
  BY ExchangeType DEF Exchange
<1>2. /\ payload'[c] = stored' /\ pc'[c] \in {"publish", "return"}
      /\ \A d \in Callers \ {c} : pc'[d] = pc[d] /\ payload'[d] = payload[d]
  BY <1>1 DEF TypeInv, TypeOK
<1>3. OthersKept(c)
  BY <1>1, <1>2, OwnStep
<1>4. /\ Requests[c] = update[c] /\ update[c] # Null /\ Responses[c] = Null
      /\ Requests'[c] = update[c] /\ Responses'[c] = stored'
  BY <1>1, <1>2 DEF Requests, Responses, InUpdate, TookEffect, TypeInv, CallerHolds
<1>5. Requests' = Requests /\ Responses' = [Responses EXCEPT ![c] = stored']
  BY <1>3, <1>4 DEF OthersKept, Requests, Responses
<1>6. stored' = Register!Apply(Register!Base, Requests[c], now)
  BY <1>1, <1>4, SameReducer, SameInitial DEF Current, Register!Base
<1>7. QED
  BY <1>1, <1>4, <1>5, <1>6 DEF Register!Perform, Register!Opened

\* Reading the payload performs the request too, when it has nothing to change;
\* otherwise the register does not move.
LEMMA ReadStep ==
    ASSUME TypeInv, TypeInv', NEW c \in Callers, Get(c) \/ Conflict(c)
    PROVE  \/ \E now \in Times : Register!Perform(c, now)
           \/ UNCHANGED Register!vars
<1>1. /\ pc[c] = "get" \/ (pc[c] = "exchange" /\ ~Unchanged(c))
      /\ pc' = [pc EXCEPT ![c] = "exchange"]
      /\ payload' = [payload EXCEPT ![c] = stored]
      /\ update' = update /\ stored' = stored /\ nextEpoch' = nextEpoch
  BY DEF Get, Conflict, TypeInv, TypeOK
<1>2. /\ payload'[c] = stored /\ pc'[c] = "exchange"
      /\ \A d \in Callers \ {c} : pc'[d] = pc[d] /\ payload'[d] = payload[d]
  BY <1>1 DEF TypeInv, TypeOK
<1>3. OthersKept(c)
  BY <1>1, <1>2, OwnStep
<1>4. /\ Requests[c] = update[c] /\ update[c] # Null /\ Responses[c] = Null
      /\ Requests'[c] = update[c]
  BY <1>1, <1>2 DEF Requests, Responses, InUpdate, TookEffect, TypeInv, CallerHolds
<1>5. Requests' = Requests
  BY <1>3, <1>4 DEF OthersKept, Requests
<1>6. CASE stored # Null /\ NothingToApply(stored, update[c])
  <2>1. Responses'[c] = stored
    BY <1>1, <1>2, <1>6 DEF Responses, TookEffect, Unchanged
  <2>2. Responses' = [Responses EXCEPT ![c] = stored]
    BY <1>3, <1>4, <2>1 DEF OthersKept, Responses
  <2>3. PICK now \in Times : TRUE
    BY TimesAssumption
  <2>4. Register!Apply(Register!Base, Requests[c], now) = stored
    BY <1>4, <1>6, SameReducer DEF Apply, Register!Base
  <2>5. Register!Perform(c, now)
    BY <1>1, <1>4, <1>5, <1>6, <2>2, <2>4 DEF Register!Perform, Register!Opened
  <2>6. QED BY <2>5
<1>7. CASE ~(stored # Null /\ NothingToApply(stored, update[c]))
  <2>1. Responses'[c] = Null
    BY <1>1, <1>2, <1>7 DEF Responses, TookEffect, Unchanged
  <2>2. Responses' = Responses
    BY <1>3, <1>4, <2>1 DEF OthersKept, Responses
  <2>3. QED BY <1>1, <1>5, <2>2 DEF Register!vars
<1>8. QED BY <1>6, <1>7

\* The end of a call, with or without an effect.
LEMMA EndStep ==
    ASSUME TypeInv, NEW c \in Callers, Exhaust(c) \/ Return(c) \/ Fail(c)
    PROVE  Register!Finish(c) \/ UNCHANGED Register!vars
<1>1. /\ pc' = [pc EXCEPT ![c] = "idle"]
      /\ update' = [update EXCEPT ![c] = Null]
      /\ payload' = [payload EXCEPT ![c] = Null]
      /\ stored' = stored /\ nextEpoch' = nextEpoch
  BY DEF Exhaust, Return, Fail, Forget
<1>2. /\ pc'[c] = "idle"
      /\ \A d \in Callers \ {c} :
             pc'[d] = pc[d] /\ update'[d] = update[d] /\ payload'[d] = payload[d]
  BY <1>1 DEF TypeInv, TypeOK
<1>3. OthersKept(c)
  BY <1>2, OwnStep
<1>4. Requests'[c] = Null /\ Responses'[c] = Null
  BY <1>2 DEF Requests, Responses, InUpdate, TookEffect
<1>5. CASE Requests[c] = Null
  <2>1. Responses[c] = Null
    BY <1>5, NullAssumption DEF Requests, Responses, InUpdate, TookEffect, TypeInv, CallerHolds
  <2>2. Requests' = Requests /\ Responses' = Responses
    BY <1>3, <1>4, <1>5, <2>1 DEF OthersKept, Requests, Responses
  <2>3. QED BY <1>1, <2>2 DEF Register!vars
<1>6. CASE Requests[c] # Null
  <2>1. /\ Requests' = [Requests EXCEPT ![c] = Null]
        /\ Responses' = [Responses EXCEPT ![c] = Null]
    BY <1>3, <1>4 DEF OthersKept, Requests, Responses
  <2>2. QED BY <1>1, <1>6, <2>1 DEF Register!Finish
<1>7. QED BY <1>5, <1>6

\* Everything else is invisible, but for the first value and the loss of the key.
LEMMA SilentStep ==
    ASSUME TypeInv, NEW c \in Callers,
           Observe(c) \/ Create(c) \/ ReturnCurrent(c) \/ Publish(c)
    PROVE  Register!Create \/ UNCHANGED Register!vars
<1>1. /\ \/ stored' = stored /\ nextEpoch' = nextEpoch
         \/ /\ stored = Null /\ stored' = CreateInitial(nextEpoch)
            /\ nextEpoch' = nextEpoch + 1
      /\ update' = update /\ payload' = payload
      /\ \/ pc[c] \in {"idle", "create"} /\ pc' \in {[pc EXCEPT ![c] = "create"],
                                                     [pc EXCEPT ![c] = "asking"]}
         \/ /\ (pc[c] = "exchange" /\ Unchanged(c)) \/ pc[c] = "publish"
            /\ pc' = [pc EXCEPT ![c] = "return"]
  BY DEF Observe, Create, ReturnCurrent, Publish
<1>2. \A d \in Callers \ {c} : pc'[d] = pc[d]
  BY <1>1 DEF TypeInv, TypeOK
<1>3. OthersKept(c)
  BY <1>1, <1>2, OwnStep
<1>4. Requests'[c] = Requests[c] /\ Responses'[c] = Responses[c]
  BY <1>1 DEF Requests, Responses, InUpdate, TookEffect, TypeInv, TypeOK
<1>5. Requests' = Requests /\ Responses' = Responses
  BY <1>3, <1>4 DEF OthersKept, Requests, Responses
<1>6. Register!Base = CreateInitial(nextEpoch) \/ stored # Null
  BY SameInitial DEF Register!Base
<1>7. QED BY <1>1, <1>5, <1>6 DEF Register!Create, Register!Opened, Register!vars

LEMMA RegisterStep ==
    ASSUME TypeInv, TypeInv', [Next]_vars
    PROVE  Register!Next \/ UNCHANGED Register!vars
<1>1. ASSUME NEW c \in Callers, Step(c)
      PROVE  Register!Next \/ UNCHANGED Register!vars
  <2>1. \/ Register!Request(c)
        \/ \E now \in Times : Register!Perform(c, now)
        \/ Register!Finish(c)
        \/ Register!Create
        \/ UNCHANGED Register!vars
    BY <1>1, RequestStep, ExchangeStep, ReadStep, EndStep, SilentStep DEF Step
  <2>2. QED BY <2>1 DEF Register!Next
<1>2. CASE BroadcastChanges \/ UNCHANGED vars
  <2>1. /\ pc' = pc /\ update' = update /\ payload' = payload
        /\ stored' = stored /\ nextEpoch' = nextEpoch
    BY <1>2 DEF BroadcastChanges, vars, callerVars
  <2>2. QED BY <2>1 DEF Requests, Responses, InUpdate, TookEffect, Unchanged, Register!vars
<1>3. CASE Lose
  <2>1. /\ pc' = pc /\ update' = update /\ payload' = payload
        /\ stored' = Null /\ nextEpoch' = nextEpoch
    BY <1>3 DEF Lose, callerVars
  <2>2. Requests' = Requests /\ Responses' = Responses
    BY <2>1 DEF Requests, Responses, InUpdate, TookEffect, Unchanged
  <2>3. QED BY <2>1, <2>2 DEF Register!Lose, Register!Next
<1>4. QED BY <1>1, <1>2, <1>3 DEF Next

\* Reads, retries, conflicts and lost replies are invisible: to its callers the
\* store is one register whose updates take effect at most once and one by one.
THEOREM StoreImplementsRegister == Spec => ImplementsRegister
<1>1. Init => Register!Init
  BY DEF Init, Register!Init, Requests, Responses, InUpdate, TookEffect
<1>2. TypeInv /\ TypeInv' /\ [Next]_vars => [Register!Next]_(Register!vars)
  BY RegisterStep
<1>3. QED BY <1>1, <1>2, CallersHold, PTL DEF Spec, ImplementsRegister, Register!Spec
=============================================================================
