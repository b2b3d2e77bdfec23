-------------------------- MODULE LiveStatusStore --------------------------
(***************************************************************************)
(* RedisLiveStatusStore and its callers.  Any number of requests and ticks *)
(* of all App Service workers read, compute and compare-and-set one Redis  *)
(* key without a lock.  A caller either submits a provider status as it is *)
(* (Twitch webhook and reconcile, dev endpoint) or polls YouTube: it       *)
(* captures the state, asks YouTube, and submits what YouTube said         *)
(* together with the epoch and revision it captured.                       *)
(*                                                                         *)
(* The step between reading the payload and exchanging it only computes,   *)
(* so the reducer runs in the step of the exchange, on the payload read.   *)
(***************************************************************************)
EXTENDS LiveStatusReducer

CONSTANTS
    Callers,     \* concurrent requests and ticks, over all workers
    Times,       \* what the clocks of the workers may read, in any order
    Submissions, \* the unguarded updates that are submitted
    Broadcasts,  \* the values the YouTube channel itself can be in
    MaxAttempts, \* RedisOptimisticConcurrency.MaxAttempts
    MaxVersion,  \* bound: versions written within an epoch
    MaxEpoch,    \* bound: epochs created
    MaxMoment    \* bound: changes of the YouTube channel

ASSUME TimesAssumption == Times # {} /\ Times \subseteq Time \ {NoSession}
ASSUME SubmissionsAssumption ==
    \A update \in Submissions : update \in Update /\ update.observation = Null
ASSUME BroadcastsAssumption == Broadcasts \subseteq YouTubeStatus
ASSUME MaxAttemptsAssumption == MaxAttempts \in Nat \ {0}
ASSUME BoundsAssumption ==
    MaxVersion \in Nat /\ MaxEpoch \in Nat /\ MaxMoment \in Nat

VARIABLES
    stored,     \* value of the Redis state key, Null when absent
    nextEpoch,  \* the next Guid
    published,  \* every message put on the pub/sub channel
    broadcast,  \* what the YouTube channel is doing now
    moment,     \* how often it has changed
    pc,         \* pc[c]: where caller c is
    observed,   \* observed[c]: the state c captured before asking YouTube
    update,     \* update[c]: the update c submits
    payload,    \* payload[c]: the value c read last, or the one it wrote
    attempt     \* attempt[c]: the number of the current attempt

(* History variables: no action reads them. *)
VARIABLES
    sampledAt,   \* sampledAt[c]: the moment YouTube answered c
    acceptedAt,  \* the latest moment an accepted observation was made at
    offlineRun   \* accepted offline observations since the last other status

upstream == <<broadcast, moment>>
history == <<sampledAt, acceptedAt, offlineRun>>
callerVars == <<pc, observed, update, payload, attempt>>
vars == <<stored, nextEpoch, published, upstream, callerVars, history>>

\* GetAsync of a poller: get (folded into Observe), create; then the answer of
\* YouTube; then UpdateAsync: get, exchange, publish, return.
Locations == {"idle", "create", "asking", "get", "exchange", "publish", "return"}

TypeOK ==
    /\ stored \in State \cup {Null}
    /\ nextEpoch \in Nat
    /\ published \subseteq State
    /\ broadcast \in YouTubeStatus
    /\ moment \in Nat
    /\ pc \in [Callers -> Locations]
    /\ observed \in [Callers -> State \cup {Null}]
    /\ update \in [Callers -> Update \cup {Null}]
    /\ payload \in [Callers -> State \cup {Null}]
    /\ attempt \in [Callers -> Nat]
    /\ sampledAt \in [Callers -> Nat]
    /\ acceptedAt \in Nat
    /\ offlineRun \in Nat

Init ==
    /\ stored = Null
    /\ nextEpoch = 0
    /\ published = {}
    /\ broadcast \in Broadcasts
    /\ moment = 0
    /\ pc = [c \in Callers |-> "idle"]
    /\ observed = [c \in Callers |-> Null]
    /\ update = [c \in Callers |-> Null]
    /\ payload = [c \in Callers |-> Null]
    /\ attempt = [c \in Callers |-> 0]
    /\ sampledAt = [c \in Callers |-> 0]
    /\ acceptedAt = 0
    /\ offlineRun = 0

-----------------------------------------------------------------------------
(* Starting a call. *)

\* UpdateAsync with a status that carries no observation.
Submit(c) ==
    /\ pc[c] = "idle"
    /\ \E u \in Submissions : update' = [update EXCEPT ![c] = u]
    /\ pc' = [pc EXCEPT ![c] = "get"]
    /\ UNCHANGED <<stored, nextEpoch, published, upstream, observed, payload,
                   attempt, history>>

\* GetStateAsync of a poll: the get of GetAsync.
Observe(c) ==
    /\ pc[c] = "idle"
    /\ observed' = [observed EXCEPT ![c] = stored]
    /\ pc' = [pc EXCEPT ![c] = IF stored = Null THEN "create" ELSE "asking"]
    /\ UNCHANGED <<stored, nextEpoch, published, upstream, update, payload,
                   attempt, history>>

\* Broken: a plain SET, whatever was stored since.
CreateAnyway(c) ==
    /\ pc[c] = "create"
    /\ nextEpoch < MaxEpoch
    /\ stored' = CreateInitial(nextEpoch)
    /\ nextEpoch' = nextEpoch + 1
    /\ observed' = [observed EXCEPT ![c] = stored']
    /\ pc' = [pc EXCEPT ![c] = "asking"]
    /\ UNCHANGED <<published, upstream, update, payload, attempt, history>>

\* GetAsync found no key: exchange null for the initial state.  The loser of
\* that race captures the state of the winner.
Create(c) ==
    /\ pc[c] = "create"
    /\ \/ /\ stored = Null
          /\ nextEpoch < MaxEpoch
          /\ stored' = CreateInitial(nextEpoch)
          /\ nextEpoch' = nextEpoch + 1
       \/ /\ stored # Null
          /\ UNCHANGED <<stored, nextEpoch>>
    /\ observed' = [observed EXCEPT ![c] = stored']
    /\ pc' = [pc EXCEPT ![c] = "asking"]
    /\ UNCHANGED <<published, upstream, update, payload, attempt, history>>

\* search.list finds the broadcast there is.  videos.list, which a tick uses
\* when the captured state has a live video, only knows of that video.
Search == broadcast
KnownVideoStatus(videoId) ==
    IF broadcast.live /\ broadcast.videoId = videoId THEN broadcast ELSE YouTubeOffline
Answers(known) ==
    {Search} \cup (IF known.live /\ known.videoId # Null
                   THEN {KnownVideoStatus(known.videoId)} ELSE {})

\* YouTube answers c, and c submits the answer as an observation of the epoch
\* and the revision it captured before.
Answer(c) ==
    /\ pc[c] = "asking"
    /\ \E answer \in Answers(observed[c].snapshot.youTube) :
           update' = [update EXCEPT ![c] =
               [twitch |-> Null, youTube |-> answer,
                observation |-> [epoch |-> observed[c].epoch,
                                 revision |-> observed[c].youTubeRevision]]]
    /\ sampledAt' = [sampledAt EXCEPT ![c] = moment]
    /\ pc' = [pc EXCEPT ![c] = "get"]
    /\ observed' = [observed EXCEPT ![c] = Null]
    /\ UNCHANGED <<stored, nextEpoch, published, upstream, payload, attempt,
                   acceptedAt, offlineRun>>

-----------------------------------------------------------------------------
(* UpdateAsync. *)

Get(c) ==
    /\ pc[c] = "get"
    /\ payload' = [payload EXCEPT ![c] = stored]
    /\ attempt' = [attempt EXCEPT ![c] = 1]
    /\ pc' = [pc EXCEPT ![c] = "exchange"]
    /\ UNCHANGED <<stored, nextEpoch, published, upstream, observed, update, history>>

Current(c) == IF payload[c] = Null THEN CreateInitial(nextEpoch) ELSE payload[c]

\* next == current && !payload.IsNull: the call is over without an exchange.
Unchanged(c) == payload[c] # Null /\ NothingToApply(payload[c], update[c])

ReturnCurrent(c) ==
    /\ pc[c] = "exchange"
    /\ Unchanged(c)
    /\ pc' = [pc EXCEPT ![c] = "return"]
    /\ UNCHANGED <<stored, nextEpoch, published, upstream, observed, update,
                   payload, attempt, history>>

\* The history of YouTube observations, when u is applied to the state current.
RecordAcceptance(c, current, u) ==
    IF ~Accepted(current, u) THEN UNCHANGED <<acceptedAt, offlineRun>>
    ELSE IF u.observation = Null THEN offlineRun' = 0 /\ UNCHANGED acceptedAt
    ELSE /\ acceptedAt' = sampledAt[c]
         /\ offlineRun' = IF u.youTube.live THEN 0 ELSE offlineRun + 1

\* Broken: a SET of what was computed from the payload read, without comparing.
ExchangeAnyway(c, now) ==
    /\ pc[c] = "exchange"
    /\ ~Unchanged(c)
    /\ stored' = Apply(Current(c), update[c], now)
    /\ stored'.version <= MaxVersion
    /\ nextEpoch' = IF payload[c] = Null THEN nextEpoch + 1 ELSE nextEpoch
    /\ nextEpoch' <= MaxEpoch
    /\ payload' = [payload EXCEPT ![c] = stored']
    /\ pc' = [pc EXCEPT ![c] = "return"]
    /\ RecordAcceptance(c, Current(c), update[c])
    /\ UNCHANGED <<published, upstream, observed, update, attempt, sampledAt>>

\* The Lua script finds the payload it expects and replaces it.  Only a changed
\* snapshot is published.
Exchange(c, now) ==
    /\ pc[c] = "exchange"
    /\ ~Unchanged(c)
    /\ stored = payload[c]
    /\ stored' = Apply(Current(c), update[c], now)
    /\ stored'.version <= MaxVersion
    /\ nextEpoch' = IF payload[c] = Null THEN nextEpoch + 1 ELSE nextEpoch
    /\ nextEpoch' <= MaxEpoch
    /\ payload' = [payload EXCEPT ![c] = stored']
    /\ pc' = [pc EXCEPT ![c] =
                 IF stored'.snapshot # Current(c).snapshot THEN "publish" ELSE "return"]
    /\ RecordAcceptance(c, Current(c), update[c])
    /\ UNCHANGED <<published, upstream, observed, update, attempt, sampledAt>>

\* The script finds another value and returns it: the next attempt starts from
\* it.  The last attempt throws LiveStatusConcurrencyException instead.
Conflict(c) ==
    /\ pc[c] = "exchange"
    /\ ~Unchanged(c)
    /\ stored # payload[c]
    /\ attempt[c] < MaxAttempts
    /\ payload' = [payload EXCEPT ![c] = stored]
    /\ attempt' = [attempt EXCEPT ![c] = @ + 1]
    /\ UNCHANGED <<stored, nextEpoch, published, upstream, pc, observed, update, history>>

\* Back to "idle": what the call held is garbage.
Forget(c) ==
    /\ pc' = [pc EXCEPT ![c] = "idle"]
    /\ observed' = [observed EXCEPT ![c] = Null]
    /\ update' = [update EXCEPT ![c] = Null]
    /\ payload' = [payload EXCEPT ![c] = Null]
    /\ attempt' = [attempt EXCEPT ![c] = 0]
    /\ sampledAt' = [sampledAt EXCEPT ![c] = 0]

Exhaust(c) ==
    /\ pc[c] = "exchange"
    /\ ~Unchanged(c)
    /\ stored # payload[c]
    /\ attempt[c] = MaxAttempts
    /\ Forget(c)
    /\ UNCHANGED <<stored, nextEpoch, published, upstream, acceptedAt, offlineRun>>

\* PublishAsync; a RedisException is logged and swallowed.
Publish(c) ==
    /\ pc[c] = "publish"
    /\ \/ published' = published \cup {payload[c]}
       \/ UNCHANGED published
    /\ pc' = [pc EXCEPT ![c] = "return"]
    /\ UNCHANGED <<stored, nextEpoch, upstream, observed, update, payload, attempt, history>>

Return(c) ==
    /\ pc[c] = "return"
    /\ Forget(c)
    /\ UNCHANGED <<stored, nextEpoch, published, upstream, acceptedAt, offlineRun>>

\* A Redis or HTTP exception, a cancelled request, the end of the process; also
\* an exchange that took effect and whose reply was lost.
Fail(c) ==
    /\ pc[c] # "idle"
    /\ Forget(c)
    /\ UNCHANGED <<stored, nextEpoch, published, upstream, acceptedAt, offlineRun>>

-----------------------------------------------------------------------------
(* The environment. *)

BroadcastChanges ==
    /\ moment < MaxMoment
    /\ broadcast' \in Broadcasts \ {broadcast}
    /\ moment' = moment + 1
    /\ UNCHANGED <<stored, nextEpoch, published, callerVars, history>>

\* The state key disappears; the next caller starts a new epoch.
Lose ==
    /\ stored # Null
    /\ nextEpoch < MaxEpoch
    /\ stored' = Null
    /\ UNCHANGED <<nextEpoch, published, upstream, callerVars, history>>

-----------------------------------------------------------------------------
Step(c) ==
    \/ Submit(c)
    \/ Observe(c)
    \/ Create(c)
    \/ Answer(c)
    \/ Get(c)
    \/ ReturnCurrent(c)
    \/ \E now \in Times : Exchange(c, now)
    \/ Conflict(c)
    \/ Exhaust(c)
    \/ Publish(c)
    \/ Return(c)
    \/ Fail(c)

Next == (\E c \in Callers : Step(c)) \/ BroadcastChanges \/ Lose

Spec == Init /\ [][Next]_vars

-----------------------------------------------------------------------------
(* Properties. *)

\* The derived fields of the canonical snapshot follow from the two sources,
\* after any interleaving of partial updates: the aggregate, a primary source
\* that is itself live, a session id exactly while live (LiveStatus.cs:5-22),
\* and an offline count that is pending only while YouTube is shown live and
\* one more observation would not already have settled it.
SnapshotConsistent == stored # Null => Consistent(stored)

\* Every state that is somewhere in the system: stored, in flight, published.
Copies ==
    ({stored} \cup {observed[c] : c \in Callers} \cup {payload[c] : c \in Callers}
        \cup published) \ {Null}

\* Epoch and version identify a state.  The replicas and browsers compare
\* nothing else (LiveStatusBroadcaster.ApplyState), so two different states
\* with one version would leave two workers showing different things for good.
\* Lost exchange races, retries and a lost and recreated key must not make any.
VersionIdentifiesState ==
    \A s, t \in Copies : s.epoch = t.epoch /\ s.version = t.version => s = t

\* Overlapping polls: an observation that YouTube answered earlier is never
\* accepted after one it answered later (LiveStatusStore.cs:164-174), through
\* conflicts and re-application, and not in the next epoch either.
AcceptedInOrder == [][acceptedAt' >= acceptedAt]_vars

\* A poll alone turns YouTube off only on the last of OfflineConfirmationCount
\* accepted offline observations in a row (README.md:175-176); a status that
\* was submitted without an observation starts the count again.
OfflineConfirmed ==
    [][stored # Null /\ stored' # Null /\ stored.snapshot.youTube.live
            /\ ~stored'.snapshot.youTube.live
        => offlineRun' = 0 \/ offlineRun' >= OfflineConfirmationCount]_vars

\* Near-simultaneous webhooks announce one session, with one primary source:
\* while the canonical state stays live its session id stays, and the primary
\* source changes only when that source went offline (README.md:347-349).
SessionStable ==
    [][stored # Null /\ stored' # Null =>
        SameSession(stored.snapshot, stored'.snapshot)]_vars

\* The store is a register (LiveStatusRegister).  A call takes effect when its
\* exchange succeeds, or, when it has nothing to change, when it reads that.
InUpdate(c) == pc[c] \in {"get", "exchange", "publish", "return"}
TookEffect(c) ==
    pc[c] \in {"publish", "return"} \/ (pc[c] = "exchange" /\ Unchanged(c))

Requests == [c \in Callers |-> IF InUpdate(c) THEN update[c] ELSE Null]
Responses == [c \in Callers |-> IF TookEffect(c) THEN payload[c] ELSE Null]

Register == INSTANCE LiveStatusRegister WITH
    request <- Requests, response <- Responses

\* Every update that succeeds is applied exactly once, to the then current
\* state, and its caller is told that state; one that fails with a conflict
\* is not applied at all.
ImplementsRegister == Register!Spec
=============================================================================
