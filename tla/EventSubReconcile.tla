-------------------------- MODULE EventSubReconcile -------------------------
(***************************************************************************)
(* The EventSub subscriptions at Twitch, as TwitchEventSubService keeps    *)
(* them: every half hour the leader lists what there is, creates what is   *)
(* missing for its configuration and deletes what is stale.  Twitch        *)
(* verifies, revokes and gives up subscriptions meanwhile, its answers are *)
(* lost, and a leader with another configuration (a deployment under way)  *)
(* may take over between any two requests.  One leader at a time is module *)
(* ProviderLeadership; what a leader reads of the stream is TwitchDelivery.*)
(*                                                                         *)
(* A configuration is its callback and channel, which are compared alike.  *)
(* A request a leader has under way when it stops was handled or not;      *)
(* none is handled later, as the next leader waits before it reconciles.   *)
(***************************************************************************)
EXTENDS Naturals, FiniteSets

CONSTANTS
    Configurations, \* callback and channel of the deployments
    MaxSubs,        \* bound: subscriptions ever created
    MaxLeaders,     \* bound: leaders
    MaxFaults       \* bound: refused or lost requests, and subscriptions that fail

ASSUME BoundsAssumption == MaxSubs \in Nat /\ MaxLeaders \in Nat /\ MaxFaults \in Nat

VARIABLES
    subs,    \* what Twitch has
    created, \* ids given
    leader,  \* the leader and where its ReconcileAsync is
    leaders, \* leaders so far
    faults

eventSubVars == <<subs, created, leader, leaders, faults>>

Types == {"online", "offline"}

Verifying == "webhook_callback_verification_pending"

VerifyFailed == "webhook_callback_verification_failed"

Revoked == {"authorization_revoked", "user_removed", "notification_failures_exceeded"}

Subscription == [id : 1 .. MaxSubs, type : Types, of : Configurations,
                 status : {"enabled", Verifying, VerifyFailed} \cup Revoked]

\* missing, stale: what it found in its list and has still to create and delete.
Resting(configuration) == [at |-> "rest", of |-> configuration, missing |-> {}, stale |-> {}]

EventSubInit ==
    /\ subs = {} /\ created = 0 /\ leaders = 1 /\ faults = 0
    /\ leader \in {Resting(c) : c \in Configurations}

Fault == faults < MaxFaults /\ faults' = faults + 1

Live(sub) == sub.status \in {"enabled", Verifying}

Serves(sub, configuration) == sub.of = configuration /\ Live(sub)

Stale(sub, configuration) == sub.of # configuration \/ sub.status \in Revoked

\* Everything before is done or failed: the channel, the stream and its update.
List ==
    /\ leader.at = "rest"
    /\ leader' = [leader EXCEPT
                    !.at = "ensure",
                    !.missing = {t \in Types : ~\E sub \in subs : sub.type = t /\ Serves(sub, leader.of)},
                    !.stale = {sub.id : sub \in {s \in subs : Stale(s, leader.of)}}]
    /\ UNCHANGED <<subs, created, leaders, faults>>

\* The channel, the stream or the list cannot be read: until the next time.
ListFails ==
    /\ leader.at = "rest"
    /\ Fault
    /\ UNCHANGED <<subs, created, leader, leaders>>

New(type) == [id |-> created + 1, type |-> type, of |-> leader.of, status |-> Verifying]

\* stream.online comes first.
Turn(type) == type \in leader.missing /\ ("online" \in leader.missing => type = "online")

\* EnsureSubAsync for a type that was not found.
Create(type) ==
    /\ leader.at = "ensure" /\ Turn(type)
    /\ created < MaxSubs
    /\ created' = created + 1
    /\ subs' = subs \cup {New(type)}
    /\ leader' = [leader EXCEPT !.missing = @ \ {type}]
    /\ UNCHANGED <<leaders, faults>>

\* Broken: a failed creation is logged and the rest goes on.
CreateFailsQuietly(type) ==
    /\ leader.at = "ensure" /\ Turn(type)
    /\ Fault
    /\ \/ UNCHANGED <<subs, created>>
       \/ /\ created < MaxSubs
          /\ created' = created + 1
          /\ subs' = subs \cup {New(type)}
    /\ leader' = [leader EXCEPT !.missing = @ \ {type}]
    /\ UNCHANGED leaders

\* It is refused, or its answer is lost: the exception ends the reconciliation.
CreateFails(type) ==
    /\ leader.at = "ensure" /\ Turn(type)
    /\ \/ Fault /\ UNCHANGED <<subs, created>>
       \/ /\ Fault
          /\ created < MaxSubs
          /\ created' = created + 1
          /\ subs' = subs \cup {New(type)}
    /\ leader' = Resting(leader.of)
    /\ UNCHANGED leaders

Delete(id) ==
    /\ leader.at = "ensure" /\ leader.missing = {} /\ id \in leader.stale
    /\ leader' = [leader EXCEPT !.stale = @ \ {id}]
    /\ subs' = {sub \in subs : sub.id # id}
    /\ UNCHANGED <<created, leaders, faults>>

\* It failed, or only its answer did; the next is deleted all the same.
DeleteFails(id) ==
    /\ leader.at = "ensure" /\ leader.missing = {} /\ id \in leader.stale
    /\ Fault
    /\ leader' = [leader EXCEPT !.stale = @ \ {id}]
    /\ subs' \in {subs, {sub \in subs : sub.id # id}}
    /\ UNCHANGED <<created, leaders>>

\* Done, and the delay until the next time.
Rest ==
    /\ leader.at = "ensure" /\ leader.missing = {} /\ leader.stale = {}
    /\ leader' = Resting(leader.of)
    /\ UNCHANGED <<subs, created, leaders, faults>>

\* Another worker leads, with the configuration it was started with.
TakeOver ==
    /\ leaders < MaxLeaders
    /\ leaders' = leaders + 1
    /\ leader' \in {Resting(c) : c \in Configurations}
    /\ UNCHANGED <<subs, created, faults>>

Becomes(sub, outcome) == subs' = (subs \ {sub}) \cup {[sub EXCEPT !.status = outcome]}

Verify(sub) ==
    /\ sub \in subs /\ sub.status = Verifying
    /\ Becomes(sub, "enabled")
    /\ UNCHANGED <<created, leader, leaders, faults>>

\* The challenge is not answered, or the webhook fails, or access is withdrawn.
GiveUp(sub) ==
    /\ sub \in subs
    /\ Fault
    /\ \/ sub.status = Verifying /\ Becomes(sub, VerifyFailed)
       \/ sub.status = "enabled" /\ \E outcome \in Revoked : Becomes(sub, outcome)
    /\ UNCHANGED <<created, leader, leaders>>

Reconcile ==
    \/ List \/ Rest
    \/ \E type \in Types : Create(type)
    \/ \E id \in 1 .. MaxSubs : Delete(id)

EventSubNext ==
    \/ Reconcile \/ ListFails \/ TakeOver
    \/ \E type \in Types : CreateFails(type)
    \/ \E id \in 1 .. MaxSubs : DeleteFails(id)
    \/ \E sub \in subs : Verify(sub) \/ GiveUp(sub)

\* The loop goes on and Twitch verifies what it took; the rest is owed by nobody.
EventSubFairness ==
    /\ WF_eventSubVars(Reconcile)
    /\ WF_eventSubVars(\E sub \in subs : Verify(sub))

EventSubSpec == EventSubInit /\ [][EventSubNext]_eventSubVars /\ EventSubFairness

EventSubTypeOK ==
    /\ subs \subseteq Subscription
    /\ \A a, b \in subs : a.id = b.id => a = b
    /\ \A sub \in subs : sub.id <= created
    /\ leader.at \in {"rest", "ensure"}
    /\ leader.missing \subseteq Types /\ leader.stale \subseteq 1 .. created

\* A subscription that delivers is dropped only when one of its type is there
\* for the configuration that drops it: whatever fails, and whenever a leader
\* with another configuration takes over, no type is left without one because
\* of the reconciliation.
ReplacedBeforeDropped ==
    [][\A sub \in subs : Live(sub) /\ ~(\E kept \in subs' : kept.id = sub.id) =>
          \E other \in subs' : other.type = sub.type /\ other.of = leader.of]_eventSubVars

\* "Reconciliation timers are the safety net" (README.md:532): in the end both
\* kinds are delivered to the configuration that leads, for good.
BothDelivered ==
    <>[](created < MaxSubs) =>
        <>[](\A type \in Types : \E sub \in subs :
                sub.type = type /\ sub.of = leader.of /\ sub.status = "enabled")

\* ...and nothing is delivered elsewhere, and nothing Twitch gave up is left.
\* Failed verifications stay: they are neither found nor stale.
NothingStaleLeft ==
    <>[](created < MaxSubs) => <>[](\A sub \in subs : sub.of = leader.of /\ sub.status \notin Revoked)
=============================================================================
