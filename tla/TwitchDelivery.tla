--------------------------- MODULE TwitchDelivery ---------------------------
(***************************************************************************)
(* How a change of the Twitch stream reaches the canonical state: signed   *)
(* webhook messages, delivered late, more than once or never, kept from    *)
(* being applied twice by a Redis key per message, and the reconcile of    *)
(* TwitchEventSubService that reads the stream and writes what it read.    *)
(*                                                                         *)
(* Message m announces the m-th change of the stream, which goes live on   *)
(* odd ones.  Messages that are not fresh are answered 401 and change      *)
(* nothing.  UpdateAsync is one step here; its retries are module          *)
(* LiveStatusStore.  SET NX and the GET after it are one step as well: the *)
(* code asks again when the key is gone between them.  A request may take  *)
(* any time, and its lease is not renewed.                                 *)
(***************************************************************************)
EXTENDS Naturals, FiniteSets

CONSTANTS
    Deliveries,  \* bound: webhook requests being handled at once
    MaxMessages, \* bound: changes of the stream
    MaxTime,     \* bound: the clock stops there
    MaxAge,      \* how old a message may be when it arrives
    Processing,  \* s_twitchProcessingLifetime
    Replay,      \* s_twitchReplayLifetime
    Tolerance,   \* how far in the future a message may be dated
    Ahead        \* how far Twitch's clock is ahead of ours

Messages == 1 .. MaxMessages

Times == 0 .. MaxTime + Replay + Processing

ASSUME TimesAssumption ==
    /\ MaxMessages \in Nat /\ MaxTime \in Nat /\ MaxAge \in Nat /\ Ahead \in Nat
    /\ Processing \in Nat \ {0} /\ Replay \in Nat /\ Tolerance \in Nat

ASSUME NoTokenAssumption == "completed" \notin Deliveries

VARIABLES
    clock,
    sent,      \* sent[m]: when the stream changed, for the messages there are
    count,     \* the messages there are
    key,       \* key[m]: value and expiry of the Redis key of message m
    request,   \* request[d]: a webhook request
    status,    \* the Twitch status of the canonical state
    reconcile, \* the reading of the reconcile, once it has one
    applied,   \* history: the messages that were applied
    completed, \* history: the messages whose lease was completed
    acked      \* history: the messages answered 200

vars == <<clock, sent, count, key, request, status, reconcile, applied, completed, acked>>

history == <<applied, completed, acked>>

stream == <<clock, sent, count>>

StatusAfter(m) == IF m % 2 = 1 THEN "live" ELSE "offline"

\* since: when the age of the message was checked; until: history, the expiry
\* of the lease the request was given, 0 before it has one.
Idle == [pc |-> "idle", m |-> 0, since |-> 0, until |-> 0]

NoReading == "none"

TypeOK ==
    /\ clock \in 0 .. MaxTime
    /\ count \in 0 .. MaxMessages
    /\ sent \in [Messages -> 0 .. MaxTime]
    /\ key \in [Messages -> [value : Deliveries \cup {"completed"}, until : Times]]
    /\ request \in [Deliveries -> {Idle} \cup
                       [pc : {"checked", "acquired", "updated"}, m : Messages,
                        since : 0 .. MaxTime, until : Times]]
    /\ status \in {"live", "offline"}
    /\ reconcile \in {"live", "offline", NoReading}
    /\ applied \subseteq Messages /\ completed \subseteq Messages /\ acked \subseteq Messages

\* Redis drops a key at its expiry; until 0 stands for a key that is not there.
Held(m) == clock < key[m].until

Mine(d) == Held(request[d].m) /\ key[request[d].m].value = d

Init ==
    /\ clock = 0
    /\ sent = [m \in Messages |-> 0]
    /\ count = 0
    /\ key = [m \in Messages |-> [value |-> "completed", until |-> 0]]
    /\ request = [d \in Deliveries |-> Idle]
    /\ status = "offline"
    /\ reconcile = NoReading
    /\ applied = {} /\ completed = {} /\ acked = {}

(* Twitch and time *)
\* The last change is early enough for its message to go stale by MaxTime.
ChangeStream ==
    /\ count < MaxMessages /\ clock + Ahead + MaxAge < MaxTime
    /\ count' = count + 1
    /\ sent' = [sent EXCEPT ![count + 1] = clock]
    /\ UNCHANGED <<clock, key, request, status, reconcile, history>>

Tick ==
    /\ clock < MaxTime
    /\ clock' = clock + 1
    /\ UNCHANGED <<sent, count, key, request, status, reconcile, history>>

(* A webhook request *)
\* age <= maxAge and age >= -1 minute, the age being clock - (sent + Ahead).
IsFresh(m) ==
    /\ clock <= sent[m] + Ahead + MaxAge
    /\ sent[m] + Ahead <= clock + Tolerance

Arrive(d, m) ==
    /\ request[d] = Idle
    /\ m <= count
    /\ IsFresh(m)
    /\ request' = [request EXCEPT ![d] = [pc |-> "checked", m |-> m, since |-> clock, until |-> 0]]
    /\ UNCHANGED <<stream, key, status, reconcile, history>>

At(d, pc) == request[d].pc = pc

Goto(d, pc) == request' = [request EXCEPT ![d].pc = pc]

End(d) == request' = [request EXCEPT ![d] = Idle]

Acquire(d) ==
    /\ At(d, "checked") /\ ~Held(request[d].m)
    /\ key' = [key EXCEPT ![request[d].m] = [value |-> d, until |-> clock + Processing]]
    /\ request' = [request EXCEPT ![d].pc = "acquired", ![d].until = clock + Processing]
    /\ UNCHANGED <<stream, status, reconcile, history>>

\* Broken: a message in progress elsewhere is answered like a completed one.
AnswerAnyHeld(d) ==
    /\ At(d, "checked") /\ Held(request[d].m)
    /\ acked' = acked \cup {request[d].m}
    /\ End(d)
    /\ UNCHANGED <<stream, key, status, reconcile, applied, completed>>

AnswerCompleted(d) ==
    /\ At(d, "checked") /\ Held(request[d].m)
    /\ key[request[d].m].value = "completed"
    /\ acked' = acked \cup {request[d].m}
    /\ End(d)
    /\ UNCHANGED <<stream, key, status, reconcile, applied, completed>>

\* 503: Twitch is to retry.
AnswerProcessing(d) ==
    /\ At(d, "checked") /\ Held(request[d].m)
    /\ key[request[d].m].value # "completed"
    /\ End(d)
    /\ UNCHANGED <<stream, key, status, reconcile, history>>

Update(d) ==
    /\ At(d, "acquired")
    /\ status' = StatusAfter(request[d].m)
    /\ applied' = applied \cup {request[d].m}
    /\ Goto(d, "updated")
    /\ UNCHANGED <<stream, key, reconcile, completed, acked>>

\* What CompleteTwitchMessageScript leaves of the key.
\* Broken: the completed key keeps the lifetime of the lease.
CompletedForLease(d) == [key[request[d].m] EXCEPT !.value = "completed"]

CompletedKey(d) == [value |-> "completed", until |-> clock + Replay]

Complete(d) ==
    /\ At(d, "updated") /\ Mine(d)
    /\ key' = [key EXCEPT ![request[d].m] = CompletedKey(d)]
    /\ completed' = completed \cup {request[d].m}
    /\ acked' = acked \cup {request[d].m}
    /\ End(d)
    /\ UNCHANGED <<stream, status, reconcile, applied>>

\* The script ran, its answer was lost: 500, and nothing left to release.
CompleteUnheard(d) ==
    /\ At(d, "updated") /\ Mine(d)
    /\ key' = [key EXCEPT ![request[d].m] = CompletedKey(d)]
    /\ completed' = completed \cup {request[d].m}
    /\ End(d)
    /\ UNCHANGED <<stream, status, reconcile, applied, acked>>

\* Broken: the key is deleted, whoever holds it.
DisposeAnyway(d) == [key EXCEPT ![request[d].m].until = 0]

\* DisposeAsync: the key is deleted if it still holds this lease's token.
Dispose(d) == IF Mine(d) THEN [key EXCEPT ![request[d].m].until = 0] ELSE key

\* The update gives up, is aborted or fails after it took effect, the lease
\* has expired at CompleteAsync, or Redis fails: 503 or 500, lease disposed.
Fail(d) ==
    /\ At(d, "acquired") \/ At(d, "updated")
    /\ key' = Dispose(d)
    /\ End(d)
    /\ UNCHANGED <<stream, status, reconcile, history>>

\* The worker dies, or the lease cannot be released: the key stays.
Crash(d) ==
    /\ request[d] # Idle
    /\ End(d)
    /\ UNCHANGED <<stream, key, status, reconcile, history>>

(* ReconcileAsync *)
GetStream ==
    /\ reconcile = NoReading
    /\ reconcile' = StatusAfter(count)
    /\ UNCHANGED <<stream, key, request, status, history>>

\* Broken: only a stream that is live is seeded.
SeedIfLive ==
    /\ reconcile # NoReading
    /\ status' = IF reconcile = "live" THEN "live" ELSE status
    /\ reconcile' = NoReading
    /\ UNCHANGED <<stream, key, request, history>>

SeedState ==
    /\ reconcile # NoReading
    /\ status' = reconcile
    /\ reconcile' = NoReading
    /\ UNCHANGED <<stream, key, request, history>>

ReconcileFails ==
    /\ reconcile # NoReading
    /\ reconcile' = NoReading
    /\ UNCHANGED <<stream, key, request, status, history>>

Handle(d) ==
    \/ \E m \in Messages : Arrive(d, m)
    \/ Acquire(d) \/ AnswerCompleted(d) \/ AnswerProcessing(d)
    \/ Update(d) \/ Complete(d) \/ CompleteUnheard(d) \/ Fail(d) \/ Crash(d)

Next ==
    \/ ChangeStream \/ Tick
    \/ \E d \in Deliveries : Handle(d)
    \/ GetStream \/ SeedState \/ ReconcileFails

\* Time passes, a request ends one way or another, and the reconcile, which
\* runs every ReconcileInterval, does not fail for ever.
Fairness ==
    /\ WF_vars(Tick)
    /\ \A d \in Deliveries : WF_vars(Update(d) \/ Complete(d) \/ Fail(d) \/ Crash(d))
    /\ WF_vars(GetStream) /\ SF_vars(SeedState)

SafeSpec == Init /\ [][Next]_vars

Spec == SafeSpec /\ Fairness

(* A message Twitch was told is done has been applied: what is still being  *)
(* processed, failed or was lost with its worker is never answered 200, or  *)
(* Twitch would not deliver it again.                                       *)
AckMeansApplied == acked \subseteq applied

\* A request at work, and one whose lease has not run out.
Working(d) == request[d].pc \in {"acquired", "updated"}

InTime(d) == Working(d) /\ clock < request[d].until

(* While the lease of a request lasts no other request processes the same   *)
(* message with a lease of its own: one that still does has outlived its    *)
(* lease, and can neither complete the message nor release the key of the   *)
(* request that took over, whatever expired, failed or crashed between.     *)
OneProcessor ==
    \A d, e \in Deliveries :
        /\ d # e /\ request[d].m = request[e].m
        /\ InTime(d) /\ Working(e)
        => Mine(d) /\ ~InTime(e) /\ ~Mine(e)

\* The lease was asked for so long after the age check that the memory of a
\* completed message may have ended between.
Waited(d) == request[d].since + Replay + Processing <= request[d].until + Ahead + MaxAge

(* A completed message is not applied again under a lease: when the memory  *)
(* of it ends, a copy of it is no longer fresh, though Twitch's clock is    *)
(* ahead.  Two requests do apply it again: one that outlived its lease, and *)
(* one that stood still between the age check and the lease for longer than *)
(* the memory outlasts the freshness.                                       *)
NotAppliedAgain ==
    [][\A d \in Deliveries :
         At(d, "acquired") /\ request'[d].pc = "updated" /\ request[d].m \in completed
            => ~InTime(d) \/ Waited(d)]_vars

(* The README says that concurrent deliveries are told to retry while the   *)
(* owner is still processing: no two requests process one message at once.  *)
(* The code keeps this only while the lease of the owner lasts.             *)
OwnerAlone ==
    \A d, e \in Deliveries :
        Working(d) /\ Working(e) /\ request[d].m = request[e].m => d = e

(* Once the stream no longer changes the canonical state comes to agree     *)
(* with it for good, though messages are lost, repeated and applied out of  *)
(* order and a reconcile may write a reading that is out of date.           *)
TwitchConverges == <>[](status = StatusAfter(count))
=============================================================================
