------------------------- MODULE WebSubSubscription -------------------------
(***************************************************************************)
(* The YouTube WebSub subscription: requests that workers send to the hub, *)
(* verifications by which the hub confirms them, and the shared record in  *)
(* Redis that relates the two and says when to renew.                      *)
(*                                                                         *)
(* One channel.  A request is its verify token, numbered in the order of   *)
(* TryBegin.  Each operation on the record is a compare-and-set loop whose *)
(* last attempt is one step (LiveStatusStore models such a loop); an       *)
(* operation that exhausts its attempts has no effect.  ConfirmedAt is     *)
(* left out: there is one clock.                                           *)
(***************************************************************************)
EXTENDS Naturals, Sequences

CONSTANTS
    Workers,       \* workers whose leader loop may be at a tick
    MaxRequests,   \* bound: requests begun
    WebSubMaxTime, \* bound: the clock stops there
    Reservation,   \* s_sendReservationTimeout
    Verification,  \* s_verificationTimeout
    Lease,         \* the lease the hub grants
    Renewal,       \* 0.8 of it
    Delay          \* Delay[n]: the wait after the n-th failure; the last repeats

ASSUME WebSubTimesAssumption ==
    /\ MaxRequests \in Nat /\ WebSubMaxTime \in Nat /\ Reservation \in Nat
    /\ Verification \in Nat /\ Lease \in Nat /\ Renewal \in Nat /\ Renewal <= Lease
    /\ Delay \in Seq(Nat) /\ Delay # <<>>

VARIABLES
    webSubClock,
    data,    \* YouTubeWebSubSubscriptionData
    begun,   \* requests begun
    worker,  \* worker[w]: what it does with its request
    hub,     \* requests the hub has received
    granted, \* history: the request of the last lease recorded
    wait     \* history: the failures charged since then and the end of the backoff

webSubVars == <<webSubClock, data, begun, worker, hub, granted, wait>>

Requests == 1 .. MaxRequests

Never == WebSubMaxTime + 1

NoRequest == [token |-> 0, requestedAt |-> 0, sentAt |-> Never]

NoConfirmation == [token |-> 0, until |-> 0]

NoRetry == [failures |-> 0, at |-> 0]

WebSubResting == [pc |-> "rest", request |-> NoRequest]

WebSubTypeOK ==
    /\ webSubClock \in 0 .. WebSubMaxTime
    /\ begun \in 0 .. MaxRequests
    /\ data.pending \in [token : 0 .. begun, requestedAt : 0 .. webSubClock, sentAt : 0 .. webSubClock \cup {Never}]
    /\ data.renewAt \in 0 .. webSubClock + Renewal
    /\ data.recent \in [token : 0 .. begun, until : 0 .. webSubClock + Verification]
    /\ data.retry.failures \in 0 .. begun
    /\ data.retry.at \in Nat
    /\ \A w \in Workers : worker[w].pc \in {"rest", "sending", "sent", "failed"}
    /\ hub \subseteq 1 .. begun
    /\ granted \in 0 .. begun

WebSubInit ==
    /\ webSubClock = 0
    /\ data = [pending |-> NoRequest, renewAt |-> 0, recent |-> NoConfirmation, retry |-> NoRetry]
    /\ begun = 0
    /\ worker = [w \in Workers |-> WebSubResting]
    /\ hub = {}
    /\ granted = 0
    /\ wait = NoRetry

WebSubTick ==
    /\ webSubClock < WebSubMaxTime
    /\ webSubClock' = webSubClock + 1
    /\ UNCHANGED <<data, begun, worker, hub, granted, wait>>

(* YouTubeWebSubSubscriptionTransitions *)
PendingSince == IF data.pending.sentAt = Never THEN data.pending.requestedAt ELSE data.pending.sentAt

PendingTimeout == IF data.pending.sentAt = Never THEN Reservation ELSE Verification

MayBegin ==
    /\ webSubClock >= data.retry.at
    /\ data.pending # NoRequest => webSubClock >= PendingSince + PendingTimeout
    /\ webSubClock >= data.renewAt

TryBegin(asked) == [data EXCEPT !.pending = asked, !.recent = NoConfirmation]

RequestsMatch(asked) ==
    /\ data.pending.token = asked.token
    /\ data.pending.requestedAt = asked.requestedAt

RetryDelay(failures) == Delay[IF failures \in DOMAIN Delay THEN failures ELSE Len(Delay)]

NextRetry(retry) ==
    [failures |-> retry.failures + 1, at |-> webSubClock + RetryDelay(retry.failures + 1)]

MarkRequestFailed(asked) ==
    IF RequestsMatch(asked)
    THEN [data EXCEPT !.pending = NoRequest, !.retry = NextRetry(data.retry)]
    ELSE data

MarkRequestSent(asked) ==
    IF RequestsMatch(asked) /\ data.pending.sentAt = Never
    THEN [data EXCEPT !.pending = [asked EXCEPT !.sentAt = webSubClock]]
    ELSE data

\* Acknowledged again, without effect: the hub did not hear the first answer.
Repeats(token) ==
    /\ data.recent.token = token /\ data.pending = NoRequest
    /\ webSubClock < data.recent.until

Confirms(token) == data.pending.token = token /\ webSubClock < PendingSince + Verification

\* Broken: the confirmation is not remembered.
TryConfirmOnce(token) ==
    [pending |-> NoRequest, renewAt |-> webSubClock + Renewal,
     recent |-> NoConfirmation, retry |-> NoRetry]

TryConfirm(token) ==
    [pending |-> NoRequest,
     renewAt |-> webSubClock + Renewal,
     recent  |-> [token |-> token,
                  until |-> webSubClock + (IF Lease < Verification THEN Lease ELSE Verification)],
     retry   |-> NoRetry]

(* TickAsync of YouTubeWebSubService *)
Begin(w) ==
    /\ worker[w].pc = "rest" /\ begun < MaxRequests
    /\ MayBegin
    /\ LET asked == [token |-> begun + 1, requestedAt |-> webSubClock, sentAt |-> Never]
       IN  /\ data' = TryBegin(asked)
           /\ worker' = [worker EXCEPT ![w] = [pc |-> "sending", request |-> asked]]
    /\ begun' = begun + 1
    /\ UNCHANGED <<webSubClock, hub, granted, wait>>

\* SubscribeAsync returns, or throws, with the request received or not.
Subscribe(w) ==
    /\ worker[w].pc = "sending"
    /\ \E outcome \in {"sent", "failed"} :
         worker' = [worker EXCEPT ![w].pc = outcome]
    /\ UNCHANGED <<webSubClock, data, begun, hub, granted, wait>>

ReportSent(w) ==
    /\ worker[w].pc = "sent"
    /\ data' = MarkRequestSent(worker[w].request)
    /\ worker' = [worker EXCEPT ![w] = WebSubResting]
    /\ UNCHANGED <<webSubClock, begun, hub, granted, wait>>

ReportFailed(w) ==
    /\ worker[w].pc = "failed"
    /\ data' = MarkRequestFailed(worker[w].request)
    /\ wait' = IF data' # data THEN NextRetry(wait) ELSE wait
    /\ worker' = [worker EXCEPT ![w] = WebSubResting]
    /\ UNCHANGED <<webSubClock, begun, hub, granted>>

\* The worker stops, loses the lead, or its report fails.
Abandon(w) ==
    /\ worker[w].pc # "rest"
    /\ worker' = [worker EXCEPT ![w] = WebSubResting]
    /\ UNCHANGED <<webSubClock, data, begun, hub, granted, wait>>

(* The hub *)
\* It gets a request while it is being sent, or late.
Receive(t) ==
    /\ t <= begun /\ t \notin hub
    /\ hub' = hub \cup {t}
    /\ UNCHANGED <<webSubClock, data, begun, worker, granted, wait>>

\* A verification, at any time and as often as the hub likes.  One that is
\* repeated or refused changes nothing.
WebSubVerify(t) ==
    /\ t \in hub
    /\ Confirms(t)
    /\ data' = TryConfirm(t)
    /\ granted' = t
    /\ wait' = NoRetry
    /\ UNCHANGED <<webSubClock, begun, worker, hub>>

WebSubNext ==
    \/ WebSubTick
    \/ \E w \in Workers : Begin(w) \/ Subscribe(w) \/ ReportSent(w) \/ ReportFailed(w) \/ Abandon(w)
    \/ \E t \in Requests : Receive(t) \/ WebSubVerify(t)

WebSubSpec == WebSubInit /\ [][WebSubNext]_webSubVars

(* Each request grants one lease and a superseded one none: a verification  *)
(* repeated, or coming before, between or after the reports of the worker,  *)
(* never moves the renewal again.                                           *)
GrantsInOrder == [][data'.renewAt # data.renewAt => granted' > granted]_webSubVars

(* Once verified, a request stays settled whatever its worker reports later *)
(* (that it was sent, that it timed out): nothing is pending again, and the *)
(* lease is neither shortened nor a failure charged, until the next Begin.  *)
SettledStaysSettled ==
    [][granted # 0 /\ granted = begun /\ begun' = begun
         => data'.renewAt = data.renewAt /\ data'.pending = NoRequest /\ data'.retry = NoRetry]_webSubVars

(* The hub is left alone, by every worker, for the backoff that all the     *)
(* failures since the last lease add up to.                                 *)
BackoffKept == [][begun' # begun => webSubClock >= wait.at]_webSubVars

(* The hub's retry of a verification whose answer it did not hear is        *)
(* acknowledged for as long as it verifies, unless a renewal has begun.     *)
RetryAcknowledged ==
    granted # 0 /\ granted = begun /\ Lease >= Verification
        => \/ Repeats(granted)
           \/ webSubClock + Renewal >= data.renewAt + Verification
=============================================================================
