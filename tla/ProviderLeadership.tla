------------------------- MODULE ProviderLeadership -------------------------
(***************************************************************************)
(* RedisLiveStatusCoordination.RunAsLeaderAsync: the workers compete for   *)
(* one expiring Redis key; the one that holds it runs the provider loop    *)
(* (Twitch reconcile, YouTube poll), renews the key on a timer and stops       *)
(* the loop when a renewal does not succeed.                               *)
(*                                                                         *)
(* Time passes in Tick.  Nothing in the code bounds how late a worker's    *)
(* next step is: a garbage collection, a starved thread pool, a slow Redis *)
(* or network.  MaxLate is that bound, a parameter of the model, so that   *)
(* what depends on it can be said.                                         *)
(***************************************************************************)
EXTENDS Naturals

CONSTANTS
    Workers,         \* calls of RunAsLeaderAsync, one per worker
    Nobody,          \* the key is absent
    Gone,            \* the owner token of a process that is no more
    Lease,           \* s_leaderLeaseLifetime
    RenewalInterval, \* s_leaderRenewalInterval
    RetryInterval,   \* s_leaderRetryInterval
    MaxLate,         \* how late a step may be
    Faults,          \* what goes wrong: "redis", "process", "key"
    MaxFaults        \* bound: how often

ASSUME TokensAssumption == Nobody \notin Workers /\ Gone \notin Workers /\ Gone # Nobody
ASSUME TimingAssumption ==
    /\ Lease \in Nat \ {0} /\ RenewalInterval \in Nat \ {0}
    /\ RetryInterval \in Nat \ {0} /\ MaxLate \in Nat
ASSUME FaultsAssumption ==
    Faults \subseteq {"redis", "process", "key"} /\ MaxFaults \in Nat

VARIABLES
    owner,          \* the value of the lease key: the owner token, or Nobody
    ttl,            \* its remaining life
    pc,             \* where the call of worker w is
    delayLeft,      \* what is left of its Task.Delay
    late,           \* how long its next step has been due
    acting,         \* whether its provider loop runs
    leadershipLost, \* the local variable
    stopping,       \* whether the host of w is shutting down
    faults,
    keyLost         \* history: whether Redis ever lost the lease key

mishaps == <<faults, keyLost>>
leaderVars == <<owner, ttl, pc, delayLeft, late, acting, leadershipLost, stopping, mishaps>>
lease == <<owner, ttl>>

(* "acquire"   the SET NX is on its way                                    *)
(* "wait"      the delay before the next attempt                           *)
(* "granted"   the SET NX was executed, its reply is on its way            *)
(* "lead"      the delay before the next renewal                           *)
(* "renew"     the renewal script is on its way                            *)
(* "renewed", "lost"   its reply is on its way, or its exception           *)
(* "stop"      leadership is cancelled, the loop is awaited                *)
(* "release"   the release script is on its way                            *)
(* "ended"     the call returned or threw OperationCanceledException       *)
Locations == {"acquire", "wait", "granted", "lead", "renew", "renewed", "lost",
              "stop", "release", "ended"}

LeaderTypeOK ==
    /\ owner \in Workers \cup {Nobody, Gone}
    /\ ttl \in 0..Lease
    /\ pc \in [Workers -> Locations]
    /\ delayLeft \in [Workers -> Nat]
    /\ late \in [Workers -> 0..MaxLate]
    /\ acting \in [Workers -> BOOLEAN]
    /\ leadershipLost \in [Workers -> BOOLEAN]
    /\ stopping \in [Workers -> BOOLEAN]
    /\ faults \in Nat
    /\ keyLost \in BOOLEAN

LeaderInit ==
    /\ owner = Nobody
    /\ ttl = 0
    /\ pc = [w \in Workers |-> "acquire"]
    /\ delayLeft = [w \in Workers |-> 0]
    /\ late = [w \in Workers |-> 0]
    /\ acting = [w \in Workers |-> FALSE]
    /\ leadershipLost = [w \in Workers |-> FALSE]
    /\ stopping = [w \in Workers |-> FALSE]
    /\ faults = 0
    /\ keyLost = FALSE

-----------------------------------------------------------------------------
Fault(kind) ==
    /\ kind \in Faults
    /\ faults < MaxFaults
    /\ faults' = faults + 1
    /\ keyLost' = (keyLost \/ kind = "key")

\* Worker w goes to a location, where its next step is due after a delay.
Goto(w, location, delay) ==
    /\ pc' = [pc EXCEPT ![w] = location]
    /\ delayLeft' = [delayLeft EXCEPT ![w] = delay]
    /\ late' = [late EXCEPT ![w] = 0]

\* The step of w is due.  A pending delay throws when the host stops.
Due(w) ==
    \/ pc[w] \in {"acquire", "granted", "renew", "renewed", "lost", "stop", "release"}
    \/ pc[w] \in {"wait", "lead"} /\ (delayLeft[w] = 0 \/ stopping[w])

\* The key holds the token, for the whole life of a lease.
SetTtl(token) == owner' = token /\ ttl' = Lease

-----------------------------------------------------------------------------
(* RunAsLeaderAsync. *)

\* SET key token PX NX.
Acquire(w) ==
    /\ pc[w] = "acquire"
    /\ \/ owner = Nobody /\ SetTtl(w) /\ Goto(w, "granted", 0)
       \/ owner # Nobody /\ UNCHANGED lease /\ Goto(w, "wait", RetryInterval)
    /\ UNCHANGED <<acting, leadershipLost, stopping, mishaps>>

\* RedisException: the command was not executed, or its reply was lost.
AcquireFails(w) ==
    /\ pc[w] = "acquire"
    /\ Fault("redis")
    /\ \/ UNCHANGED lease
       \/ owner = Nobody /\ SetTtl(w)
    /\ Goto(w, "wait", RetryInterval)
    /\ UNCHANGED <<acting, leadershipLost, stopping>>

Retry(w) ==
    /\ pc[w] = "wait"
    /\ Due(w)
    /\ Goto(w, IF stopping[w] THEN "ended" ELSE "acquire", 0)
    /\ UNCHANGED <<lease, acting, leadershipLost, stopping, mishaps>>

\* The reply arrives: start the loop, and the first delay.
Start(w) ==
    /\ pc[w] = "granted"
    /\ acting' = [acting EXCEPT ![w] = TRUE]
    /\ leadershipLost' = [leadershipLost EXCEPT ![w] = FALSE]
    /\ Goto(w, "lead", RenewalInterval)
    /\ UNCHANGED <<lease, stopping, mishaps>>

\* The delay is over, or it throws and the finally block runs.
Wake(w) ==
    /\ pc[w] = "lead"
    /\ Due(w)
    /\ Goto(w, IF stopping[w] THEN "stop" ELSE "renew", 0)
    /\ UNCHANGED <<lease, acting, leadershipLost, stopping, mishaps>>

\* The script: extend the lease if it is still this owner's.
Renew(w) ==
    /\ pc[w] = "renew"
    /\ \/ owner = w /\ SetTtl(w) /\ Goto(w, "renewed", 0)
       \/ owner # w /\ UNCHANGED lease /\ Goto(w, "lost", 0)
    /\ UNCHANGED <<acting, leadershipLost, stopping, mishaps>>

\* Broken: a renewal that failed counts as one that succeeded.
RenewFailsUnnoticed(w) ==
    /\ pc[w] = "renew"
    /\ Fault("redis")
    /\ UNCHANGED lease
    /\ Goto(w, "renewed", 0)
    /\ UNCHANGED <<acting, leadershipLost, stopping>>

\* RedisException: RenewLeaseAsync returns false.
RenewFails(w) ==
    /\ pc[w] = "renew"
    /\ Fault("redis")
    /\ \/ UNCHANGED lease
       \/ owner = w /\ SetTtl(w)
    /\ Goto(w, "lost", 0)
    /\ UNCHANGED <<acting, leadershipLost, stopping>>

\* while (!actionTask.IsCompleted)
Continue(w) ==
    /\ pc[w] = "renewed"
    /\ IF acting[w] THEN Goto(w, "lead", RenewalInterval) ELSE Goto(w, "stop", 0)
    /\ UNCHANGED <<lease, acting, leadershipLost, stopping, mishaps>>

LoseLeadership(w) ==
    /\ pc[w] = "lost"
    /\ leadershipLost' = [leadershipLost EXCEPT ![w] = TRUE]
    /\ Goto(w, "stop", 0)
    /\ UNCHANGED <<lease, acting, stopping, mishaps>>

\* The loop ends when its token, linked to the host's, is cancelled.
ActionEnds(w) ==
    /\ acting[w]
    /\ pc[w] = "stop" \/ stopping[w]
    /\ acting' = [acting EXCEPT ![w] = FALSE]
    /\ UNCHANGED <<lease, pc, delayLeft, late, leadershipLost, stopping, mishaps>>

\* await actionTask, in the try or in the finally block.
ActionAwaited(w) ==
    /\ pc[w] = "stop"
    /\ ~acting[w]
    /\ Goto(w, "release", 0)
    /\ UNCHANGED <<lease, acting, leadershipLost, stopping, mishaps>>

\* Broken: a worker that lost the leadership does not compete again.
ReturnAfterRelease(w) == Goto(w, "ended", 0)

AfterRelease(w) ==
    Goto(w, IF leadershipLost[w] /\ ~stopping[w] THEN "acquire" ELSE "ended", 0)

\* Broken: DEL without comparing the owner token.
ReleaseAnyway(w) ==
    /\ pc[w] = "release"
    /\ owner' = Nobody
    /\ ttl' = 0
    /\ AfterRelease(w)
    /\ UNCHANGED <<acting, leadershipLost, stopping, mishaps>>

\* The script: delete the key if it is still this owner's.
Release(w) ==
    /\ pc[w] = "release"
    /\ owner' = IF owner = w THEN Nobody ELSE owner
    /\ ttl' = IF owner = w THEN 0 ELSE ttl
    /\ AfterRelease(w)
    /\ UNCHANGED <<acting, leadershipLost, stopping, mishaps>>

\* RedisException, logged and swallowed; the script ran when its reply was lost.
ReleaseFails(w) ==
    /\ pc[w] = "release"
    /\ Fault("redis")
    /\ UNCHANGED lease
    /\ AfterRelease(w)
    /\ UNCHANGED <<acting, leadershipLost, stopping>>

-----------------------------------------------------------------------------
(* The environment. *)

Shutdown(w) ==
    /\ ~stopping[w] /\ pc[w] # "ended"
    /\ Fault("process")
    /\ stopping' = [stopping EXCEPT ![w] = TRUE]
    /\ UNCHANGED <<lease, pc, delayLeft, late, acting, leadershipLost>>

\* The process dies, or had ended, and a new one starts, with a new owner token.
Restart(w) ==
    /\ \/ pc[w] = "ended" /\ UNCHANGED mishaps
       \/ pc[w] # "ended" /\ Fault("process")
    /\ owner' = IF owner = w THEN Gone ELSE owner
    /\ Goto(w, "acquire", 0)
    /\ acting' = [acting EXCEPT ![w] = FALSE]
    /\ stopping' = [stopping EXCEPT ![w] = FALSE]
    /\ leadershipLost' = [leadershipLost EXCEPT ![w] = FALSE]
    /\ UNCHANGED ttl

\* Redis loses the key before it expires (restart, failover, flush).
LoseLease ==
    /\ owner # Nobody
    /\ Fault("key")
    /\ owner' = Nobody
    /\ ttl' = 0
    /\ UNCHANGED <<pc, delayLeft, late, acting, leadershipLost, stopping>>

\* A unit of time.  A step that is due is at most MaxLate late.
Tick ==
    /\ \A w \in Workers : Due(w) => late[w] < MaxLate
    /\ ttl' = IF ttl > 0 THEN ttl - 1 ELSE 0
    /\ owner' = IF ttl <= 1 THEN Nobody ELSE owner
    /\ delayLeft' = [w \in Workers |-> IF delayLeft[w] > 0 THEN delayLeft[w] - 1 ELSE 0]
    /\ late' = [w \in Workers |-> IF Due(w) THEN late[w] + 1 ELSE 0]
    /\ UNCHANGED <<pc, acting, leadershipLost, stopping, mishaps>>

-----------------------------------------------------------------------------
Run(w) ==
    \/ Acquire(w) \/ AcquireFails(w) \/ Retry(w)
    \/ Start(w) \/ Wake(w)
    \/ Renew(w) \/ RenewFails(w) \/ Continue(w)
    \/ LoseLeadership(w) \/ ActionEnds(w) \/ ActionAwaited(w)
    \/ Release(w) \/ ReleaseFails(w)

LeaderNext ==
    \/ \E w \in Workers : Run(w) \/ Shutdown(w) \/ Restart(w)
    \/ LoseLease
    \/ Tick

\* Time passes and what is due is done.
LeaderFairness == WF_leaderVars(Tick) /\ \A w \in Workers : WF_leaderVars(Run(w))

LeaderSafeSpec == LeaderInit /\ [][LeaderNext]_leaderVars
LeaderSpec == LeaderSafeSpec /\ LeaderFairness

-----------------------------------------------------------------------------
(* Properties. *)

\* "Only one worker polls or reconciles" (README.md:504-507), unless Redis lost
\* the lease key while a worker held it.
Exclusive == ~keyLost => \A v, w \in Workers : acting[v] /\ acting[w] => v = w

\* A worker that lost its lease, however late it notices, neither renews nor
\* releases the lease of its replacement: a lease ends by its owner, by expiry or
\* by a fault, and only its owner extends it.
ReplacementSafe ==
    [][/\ \A w \in Workers : owner = w /\ owner' # w =>
              pc[w] \in {"release", "ended"} \/ ttl <= 1 \/ faults' > faults
       /\ owner' = owner /\ ttl' > ttl =>
              \E w \in Workers : owner = w /\ pc[w] = "renew"]_leaderVars

\* When the faults are over, some worker leads for good, unless all were shut down.
EventuallyLed ==
    <>[]((\E w \in Workers : acting[w]) \/ \A w \in Workers : stopping[w])

\* A loop whose worker does not hold the lease stops.
LoserStops == \A w \in Workers : (acting[w] /\ owner # w) ~> ~acting[w]

\* The leadership moves: the loop of a worker that lost it stops, and in the end
\* another worker, or the same one again, leads.
LeadershipMoves == EventuallyLed /\ LoserStops
=============================================================================
