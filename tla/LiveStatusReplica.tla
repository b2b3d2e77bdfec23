------------------------- MODULE LiveStatusReplica -------------------------
(***************************************************************************)
(* One App Service worker: LiveStatusBroadcaster, the replica it keeps of  *)
(* the canonical state; LiveStatusSynchronizer, which follows the pub/sub  *)
(* channel and reads the canonical state every 30 seconds; and the sockets *)
(* of StreamWebSocket, which refresh the replica, subscribe to it and send *)
(* its frames.  ApplyState, Flush and Subscribe run under one lock, so     *)
(* each is one step; every await is a step boundary.                       *)
(*                                                                         *)
(* The canonical state is the register that LiveStatusStore implements:    *)
(* here it only matters that a write makes the next version of its epoch   *)
(* and that a message may be late, lost or overtaken.                      *)
(***************************************************************************)
EXTENDS Naturals, SequencesExt

CONSTANTS
    Shown,          \* what a snapshot says, without its UpdatedAt
    Times,          \* the UpdatedAt stamps, in no order
    Writers,        \* UpdateAsync calls of this worker
    Sockets,        \* browsers, and the socket each has on this worker
    Null,
    Coalesces,      \* CoalesceWindowMs # 0
    QueueCapacity,  \* 8 in Subscribe
    MaxVersion,     \* bound: versions written within each epoch
    MaxEpoch        \* bound: epochs created

Snapshot == [shown: Shown, updatedAt: Times]
State == [epoch: Nat, version: Nat, snapshot: Snapshot]

CONSTANT Idle \* LiveStatus.Idle

ASSUME IdleAssumption == Idle \in Snapshot
ASSUME NullAssumption == Null \notin State /\ Null \notin Nat
ASSUME CoalescesAssumption == Coalesces \in BOOLEAN
ASSUME QueueCapacityAssumption == QueueCapacity \in Nat \ {0}
ASSUME BoundsAssumption ==
    MaxEpoch \in Nat /\ MaxVersion \in [0 .. MaxEpoch - 1 -> Nat]

VARIABLES
    stored,    \* the canonical state, Null when the key is absent
    nextEpoch, \* the next Guid
    messages   \* published, or about to be, and not yet read by this worker

(* LiveStatusBroadcaster *)
VARIABLES
    current, \* _current, _currentEpoch and _currentVersion
    pending, \* _pending
    timer,   \* whether _flushTimer will fire
    queue    \* queue[s]: the channel of the subscriber s

VARIABLES
    sync,     \* where LiveStatusSynchronizer is
    syncRead, \* the state its RefreshAsync read
    held,     \* held[w]: the state UpdateAsync returned to w
    socket,   \* socket[s]: where the request of s is
    read,     \* read[s]: the state its RefreshAsync read
    view      \* view[s]: what browser s was sent last

canonical == <<stored, nextEpoch, messages>>
broadcaster == <<current, pending, timer, queue>>
synchronizer == <<sync, syncRead>>
sockets == <<socket, read, view>>
vars == <<canonical, broadcaster, synchronizer, held, sockets>>

\* _current before anything was applied: no epoch yet.
Replica == [epoch: Nat \cup {Null}, version: Nat, snapshot: Snapshot]

TypeOK ==
    /\ stored \in State \cup {Null}
    /\ nextEpoch \in Nat
    /\ messages \subseteq State
    /\ current \in Replica
    /\ pending \in State \cup {Null}
    /\ timer \in BOOLEAN
    /\ queue \in [Sockets -> Seq(Replica)]
    /\ \A s \in Sockets : Len(queue[s]) <= QueueCapacity
    /\ sync \in {"subscribe", "refresh", "apply", "loop"}
    /\ syncRead \in State \cup {Null}
    /\ held \in [Writers -> State \cup {Null}]
    /\ socket \in [Sockets -> {"closed", "refresh", "apply", "accept", "open"}]
    /\ read \in [Sockets -> State \cup {Null}]
    /\ view \in [Sockets -> Replica \cup {Null}]

Init ==
    /\ stored = Null
    /\ nextEpoch = 0
    /\ messages = {}
    /\ current = [epoch |-> Null, version |-> 0, snapshot |-> Idle]
    /\ pending = Null
    /\ timer = FALSE
    /\ queue = [s \in Sockets |-> <<>>]
    /\ sync = "subscribe"
    /\ syncRead = Null
    /\ held = [w \in Writers |-> Null]
    /\ socket = [s \in Sockets |-> "closed"]
    /\ read = [s \in Sockets |-> Null]
    /\ view = [s \in Sockets |-> Null]

-----------------------------------------------------------------------------
(* The canonical state. *)

Initial == [epoch |-> nextEpoch, version |-> 0, snapshot |-> Idle]
Base == IF stored = Null THEN Initial ELSE stored

\* GetAsync: reads the state and creates it when there is none.
Get ==
    \/ stored # Null /\ UNCHANGED <<stored, nextEpoch>>
    \/ /\ stored = Null
       /\ nextEpoch < MaxEpoch
       /\ stored' = Initial
       /\ nextEpoch' = nextEpoch + 1

\* UpdateAsync writes the next version.  Either the snapshot is another one and
\* is published, though the message may be lost, or only counters changed.
Write ==
    /\ stored = Null => nextEpoch < MaxEpoch
    /\ Base.version < MaxVersion[Base.epoch]
    /\ nextEpoch' = IF stored = Null THEN nextEpoch + 1 ELSE nextEpoch
    /\ \E shown \in Shown, updatedAt \in Times :
           stored' = [epoch |-> Base.epoch, version |-> Base.version + 1,
                      snapshot |-> IF shown = Base.snapshot.shown THEN Base.snapshot
                                   ELSE [shown |-> shown, updatedAt |-> updatedAt]]
    /\ messages' \in IF stored'.snapshot = Base.snapshot THEN {messages}
                     ELSE {messages, messages \cup {stored'}}

\* Another worker, or a call of this one that never applies its result.
WriteElsewhere == Write /\ UNCHANGED <<broadcaster, synchronizer, held, sockets>>

\* Redis restarts, or the full inbox of the synchronizer drops its oldest.
LoseMessage ==
    /\ \E message \in messages : messages' = messages \ {message}
    /\ UNCHANGED <<stored, nextEpoch, broadcaster, synchronizer, held, sockets>>

\* The state key disappears.
LoseKey ==
    /\ stored # Null
    /\ nextEpoch < MaxEpoch
    /\ stored' = Null
    /\ UNCHANGED <<nextEpoch, messages, broadcaster, synchronizer, held, sockets>>

-----------------------------------------------------------------------------
(* LiveStatusBroadcaster, everything under _gate. *)

\* Broken: a full channel that drops what is written.
TryWriteDropNewest(channel, event) ==
    IF Len(channel) < QueueCapacity THEN Append(channel, event) ELSE channel

\* TryWrite on a bounded channel in mode DropOldest.
TryWrite(channel, event) ==
    Append(IF Len(channel) < QueueCapacity THEN channel ELSE Tail(channel), event)

Subscribed(s) == socket[s] = "open"

\* Broken: the early return leaves the pending state.
FlushKeepingPending(next) ==
    /\ current' = next
    /\ pending' = IF next.snapshot.shown = current.snapshot.shown THEN pending ELSE Null
    /\ queue' = IF next.snapshot.shown = current.snapshot.shown THEN queue
                ELSE [s \in Sockets |-> IF Subscribed(s) THEN TryWrite(queue[s], next)
                                        ELSE queue[s]]

\* FlushLocked, with next the pending state.
FlushLocked(next) ==
    /\ current' = next
    /\ pending' = Null
    /\ queue' = IF next.snapshot.shown = current.snapshot.shown THEN queue
                ELSE [s \in Sockets |-> IF Subscribed(s) THEN TryWrite(queue[s], next)
                                        ELSE queue[s]]

Latest == IF pending # Null THEN pending ELSE current

\* ApplyState returns false.
Refused(state, allowEpochChange) ==
    /\ Latest.epoch # Null
    /\ state.epoch # Latest.epoch
    /\ ~allowEpochChange

\* Broken: only a repeated version is refused; versions compared across epochs.
DuplicateVersion(state) ==
    /\ state.epoch = Latest.epoch
    /\ state.version = Latest.version
DuplicateInAnyEpoch(state) ==
    /\ Latest.epoch # Null
    /\ state.version <= Latest.version

\* ApplyState returns true before it does anything.
Duplicate(state) ==
    /\ state.epoch = Latest.epoch
    /\ state.version <= Latest.version

ApplyState(state, flushImmediately, allowEpochChange) ==
    IF Refused(state, allowEpochChange) \/ Duplicate(state)
    THEN UNCHANGED broadcaster
    ELSE IF flushImmediately \/ ~Coalesces
    THEN FlushLocked(state) /\ UNCHANGED timer
    ELSE /\ pending' = state
         /\ timer' = TRUE
         /\ UNCHANGED <<current, queue>>

\* The coalescing window is over.  The timer also fires when an immediate flush
\* took the pending state before.
Flush ==
    /\ timer
    /\ timer' = FALSE
    /\ \/ pending # Null /\ FlushLocked(pending)
       \/ pending = Null /\ UNCHANGED <<current, pending, queue>>
    /\ UNCHANGED <<canonical, synchronizer, held, sockets>>

\* UpdateAsync of a webhook, a tick or the dev endpoint of this worker: a write,
\* or a no-op that returns the current state; then ApplyState.
Update(w) ==
    /\ held[w] = Null
    /\ \/ Write
       \/ stored # Null /\ UNCHANGED canonical
    /\ held' = [held EXCEPT ![w] = stored']
    /\ UNCHANGED <<broadcaster, synchronizer, sockets>>

ApplyUpdate(w) ==
    /\ held[w] # Null
    /\ ApplyState(held[w], FALSE, TRUE)
    /\ held' = [held EXCEPT ![w] = Null]
    /\ UNCHANGED <<canonical, synchronizer, sockets>>

-----------------------------------------------------------------------------
(* LiveStatusSynchronizer. *)

SubscribeToRedis ==
    /\ sync = "subscribe"
    /\ sync' = "refresh"
    /\ UNCHANGED <<canonical, broadcaster, syncRead, held, sockets>>

RefreshRead ==
    /\ sync = "refresh"
    /\ Get
    /\ syncRead' = stored'
    /\ sync' = "apply"
    /\ UNCHANGED <<messages, broadcaster, held, sockets>>

\* The replica keeps what it has.
RefreshFails ==
    /\ sync = "refresh"
    /\ sync' = "loop"
    /\ UNCHANGED <<canonical, broadcaster, syncRead, held, sockets>>

RefreshApply ==
    /\ sync = "apply"
    /\ ApplyState(syncRead, TRUE, TRUE)
    /\ syncRead' = Null
    /\ sync' = "loop"
    /\ UNCHANGED <<canonical, held, sockets>>

\* A message of another epoch is not believed: the canonical state is read.
ApplyMessage ==
    /\ sync = "loop"
    /\ \E message \in messages :
           /\ messages' = messages \ {message}
           /\ ApplyState(message, FALSE, FALSE)
           /\ sync' = IF Refused(message, FALSE) THEN "refresh" ELSE "loop"
    /\ UNCHANGED <<stored, nextEpoch, syncRead, held, sockets>>

ResyncTick ==
    /\ sync = "loop"
    /\ sync' = "refresh"
    /\ UNCHANGED <<canonical, broadcaster, syncRead, held, sockets>>

-----------------------------------------------------------------------------
(* StreamWebSocket. *)

Connect(s) ==
    /\ socket[s] = "closed"
    /\ socket' = [socket EXCEPT ![s] = "refresh"]
    /\ UNCHANGED <<canonical, broadcaster, synchronizer, held, read, view>>

SocketRead(s) ==
    /\ socket[s] = "refresh"
    /\ Get
    /\ read' = [read EXCEPT ![s] = stored']
    /\ socket' = [socket EXCEPT ![s] = "apply"]
    /\ UNCHANGED <<messages, broadcaster, synchronizer, held, view>>

SocketApply(s) ==
    /\ socket[s] = "apply"
    /\ ApplyState(read[s], TRUE, TRUE)
    /\ socket' = [socket EXCEPT ![s] = "accept"]
    /\ UNCHANGED <<canonical, synchronizer, held, read, view>>

\* AcceptWebSocketAsync is over: seed the channel and register it.
Subscribe(s) ==
    /\ socket[s] = "accept"
    /\ queue' = [queue EXCEPT ![s] = <<current>>]
    /\ socket' = [socket EXCEPT ![s] = "open"]
    /\ read' = [read EXCEPT ![s] = Null]
    /\ UNCHANGED <<canonical, current, pending, timer, synchronizer, held, view>>

Send(s) ==
    /\ Subscribed(s)
    /\ queue[s] # <<>>
    /\ view' = [view EXCEPT ![s] = Head(queue[s])]
    /\ queue' = [queue EXCEPT ![s] = Tail(@)]
    /\ UNCHANGED <<canonical, current, pending, timer, synchronizer, held, socket, read>>

\* A failed refresh, the browser, the maximum lifetime or the host ends it.
Close(s) ==
    /\ socket[s] # "closed"
    /\ socket' = [socket EXCEPT ![s] = "closed"]
    /\ read' = [read EXCEPT ![s] = Null]
    /\ queue' = [queue EXCEPT ![s] = <<>>]
    /\ UNCHANGED <<canonical, current, pending, timer, synchronizer, held, view>>

-----------------------------------------------------------------------------
Environment == WriteElsewhere \/ LoseMessage \/ LoseKey

Synchronize ==
    \/ SubscribeToRedis
    \/ RefreshRead \/ RefreshFails \/ RefreshApply
    \/ ApplyMessage \/ ResyncTick

Stream(s) ==
    Connect(s) \/ SocketRead(s) \/ SocketApply(s) \/ Subscribe(s) \/ Send(s) \/ Close(s)

Next ==
    \/ Environment
    \/ Flush
    \/ Synchronize
    \/ \E w \in Writers : Update(w) \/ ApplyUpdate(w)
    \/ \E s \in Sockets : Stream(s)

\* The loops of the worker go on, the timers fire, and the reads of the resync
\* do not fail for ever.  Nothing is assumed of messages, writers and browsers.
Fairness ==
    /\ WF_vars(SubscribeToRedis)
    /\ SF_vars(RefreshRead)
    /\ WF_vars(RefreshApply)
    /\ WF_vars(ResyncTick)
    /\ WF_vars(Flush)
    /\ \A s \in Sockets : WF_vars(Send(s))

SafeSpec == Init /\ [][Next]_vars
Spec == SafeSpec /\ Fairness

-----------------------------------------------------------------------------
(* Properties. *)

\* What subscriber s knows, or will know from what is already in its channel.
Outlook(s) == IF queue[s] = <<>> THEN view[s] ELSE Last(queue[s])

\* No subscriber is stuck on a stale frame: the last frame it has been given
\* shows what the replica shows.  The seed and the registration are one step, the
\* full channel drops its oldest, and a flush that is not broadcast shows nothing
\* new (LiveStatusBroadcaster.cs:115-118, 199-211).
SubscribersCurrent ==
    \A s \in Sockets : Subscribed(s) => Outlook(s).snapshot.shown = current.snapshot.shown

\* While the key is not lost, the replica and each browser only move forward:
\* messages that are late or overtaken and reads that are stale undo nothing.
NeverBackwards ==
    [][nextEpoch' <= 1 =>
        /\ current'.version >= current.version
        /\ \A s \in Sockets : view[s] # Null => view'[s].version >= view[s].version]_vars

\* A coalesced update is never forgotten: it has a timer that will flush it, and
\* while the key is not lost it is ahead of what is shown.
PendingArmed ==
    pending # Null =>
        /\ timer
        /\ nextEpoch <= 1 => pending.version > current.version \/ current.epoch = Null

\* Whatever was lost, late or stale, and after the key was recreated: once the
\* writes stop, the replica comes to the canonical state for good.
ReplicaConverges == <>[](stored # Null /\ current = stored)

\* And so does every browser that keeps its socket (README.md:371-372).
BrowsersConverge ==
    \A s \in Sockets :
        <>[]Subscribed(s) => <>[](stored # Null /\ view[s] # Null
                                  /\ view[s].snapshot.shown = stored.snapshot.shown)

\* Both: the worker and the browsers it serves.
Converge == ReplicaConverges /\ BrowsersConverge

\* "Reloads canonical state before seeding a new WebSocket subscriber": the seed
\* shows the state the request read, or a later one.
SeedIsCanonical ==
    [][\A s \in Sockets :
           socket[s] = "accept" /\ socket'[s] = "open" /\ nextEpoch <= 1 =>
               \/ Head(queue'[s]).version >= read[s].version
               \/ Head(queue'[s]).snapshot.shown = read[s].snapshot.shown]_vars
=============================================================================
