----------------------------- MODULE LiveClient -----------------------------
(***************************************************************************)
(* live-status.ts in one tab: the WebSocket, the snapshot poller that      *)
(* covers for it, the reconnect, stale and hidden-close timers, the tab's  *)
(* visibility and the 404 that switches it all off.  Handlers, timers and  *)
(* promise reactions run to completion, so each is one step.               *)
(*                                                                         *)
(* Delays are left out: an armed timer may fire at any time, and so        *)
(* backoffIndex, which only chooses a delay, is left out too.  A snapshot  *)
(* is the version it was published as; Shows and Stamp say what it shows   *)
(* (all that snapshotsEqual compares) and its updatedAt.  What the page    *)
(* does with a snapshot is module LiveNotice.                              *)
(***************************************************************************)
EXTENDS Naturals, Sequences

CONSTANTS
    MaxVersion,  \* bound: states published; they are numbered in order
    Shows,       \* Shows[v]: the snapshot without its updatedAt; 0 is EMPTY
    Stamp,       \* Stamp[v]: its updatedAt
    Requests,    \* bound: snapshot requests of this tab in flight at once
    WireLength,  \* bound: frames in flight to the browser
    MaxFaults,   \* bound: sockets lost or silent, requests failed
    Blocked,     \* whether a proxy blocks WebSockets
    MayVanish    \* whether the snapshot endpoint may answer 404

Versions == 1 .. MaxVersion

ASSUME VersionsAssumption == MaxVersion \in Nat \ {0}

ASSUME StampAssumption == Stamp \in [Versions \cup {0} -> Nat]

ASSUME BooleansAssumption == Blocked \in BOOLEAN /\ MayVanish \in BOOLEAN

ASSUME BoundsAssumption == WireLength \in Nat /\ MaxFaults \in Nat

VARIABLES
    visibility, \* document.visibilityState
    client,     \* unavailable, socket and socketOpen, and the armed timers
    wire,       \* what the server sends on that socket
    current,    \* the snapshot the page has
    request,    \* request[r]: a fetch of the snapshot
    latest,     \* the canonical state
    faults

vars == <<visibility, client, wire, current, request, latest, faults>>

Timers == {"poll", "stale", "reconnect", "hiddenClose"}

Replies == (Versions \X {"ok"}) \cup {<<0, "404">>, <<0, "failed">>}

Idle == [at |-> "idle"]

\* resume: whether the request is followed by schedulePoll.
Pending(resume) == [at |-> "sent", resume |-> resume]

Answered(r, reply) == [at |-> "answered", resume |-> request[r].resume, reply |-> reply]

\* A new socket: nothing sent, nothing on the wire, and a server behind it.
Fresh == [frames |-> <<>>, sent |-> 0, up |-> TRUE]

Client == [unavailable : BOOLEAN,
           socket : {"none", "connecting", "open"},
           timers : SUBSET Timers]

TypeOK ==
    /\ visibility \in {"visible", "hidden"}
    /\ client \in Client
    /\ "stale" \in client.timers => client.socket = "open"
    /\ wire \in [frames : Seq(Versions), sent : Versions \cup {0}, up : BOOLEAN]
    /\ Len(wire.frames) <= WireLength
    /\ current \in Versions \cup {0}
    /\ request \in [Requests -> {Idle} \cup [at : {"sent"}, resume : BOOLEAN]
                                \cup [at : {"answered"}, resume : BOOLEAN, reply : Replies]]
    /\ latest \in Versions
    /\ faults \in 0 .. MaxFaults

CloseSocket(c) == [c EXCEPT !.socket = "none", !.timers = @ \ {"stale"}]

ClearTimers(c, ts) == [c EXCEPT !.timers = @ \ ts]

SchedulePoll(c) ==
    IF c.unavailable \/ c.socket = "open" THEN c ELSE [c EXCEPT !.timers = @ \cup {"poll"}]

ScheduleReconnect(c) ==
    IF c.unavailable THEN c ELSE [c EXCEPT !.timers = @ \cup {"reconnect"}]

HandleSocketLost(c) == SchedulePoll(ScheduleReconnect(CloseSocket(c)))

\* refused: the WebSocket constructor throws.
Refusals == IF Blocked THEN BOOLEAN ELSE {FALSE}

Connect(c, refused) ==
    IF c.unavailable THEN c
    ELSE IF refused THEN SchedulePoll(ScheduleReconnect(CloseSocket(c)))
    ELSE SchedulePoll([CloseSocket(c) EXCEPT !.socket = "connecting"])

\* A request is sent in the first free place; identical requests are alike.
Seed(resume) ==
    \E r \in Requests :
        /\ request[r] = Idle
        /\ request' = [request EXCEPT ![r] = Pending(resume)]

Fault == faults < MaxFaults /\ faults' = faults + 1

page == <<visibility, client, current>>

\* The tab after its first init(): one snapshot requested, one socket opened.
Init ==
    /\ visibility \in {"visible", "hidden"}
    /\ \E refused \in Refusals :
        client = LET c == Connect([unavailable |-> FALSE, socket |-> "none", timers |-> {}],
                                  refused)
                 IN  IF visibility = "hidden"
                     THEN [c EXCEPT !.timers = @ \cup {"hiddenClose"}]
                     ELSE c
    /\ wire = Fresh
    /\ current = 0
    /\ \E r \in Requests :
        request = [q \in Requests |-> IF q = r THEN Pending(FALSE) ELSE Idle]
    /\ latest = 1
    /\ faults = 0

(* The socket *)
Open ==
    /\ client.socket = "connecting" /\ ~Blocked
    /\ client' = [client EXCEPT !.socket = "open",
                                !.timers = (@ \ {"poll"}) \cup {"stale"}]
    /\ UNCHANGED <<visibility, wire, current, request, latest, faults>>

\* A state message; the stale timer is armed anew.  It is applied as it is.
Receive ==
    /\ client.socket = "open" /\ wire.frames # <<>>
    /\ wire' = [wire EXCEPT !.frames = Tail(@)]
    /\ current' = Head(wire.frames)
    /\ client' = [client EXCEPT !.timers = @ \cup {"stale"}]
    /\ UNCHANGED <<visibility, request, latest, faults>>

\* onclose.  A blocked socket never opens and is closed every time.
Close ==
    /\ client.socket # "none"
    /\ IF Blocked THEN UNCHANGED faults ELSE Fault
    /\ client' = HandleSocketLost(client)
    /\ wire' = Fresh
    /\ UNCHANGED <<visibility, current, request, latest>>

(* The timers *)
FirePoll ==
    /\ "poll" \in client.timers
    /\ LET c == ClearTimers(client, {"poll"})
       IN  /\ client' = c
           /\ IF c.unavailable \/ c.socket = "open" \/ visibility = "hidden"
              THEN UNCHANGED request
              ELSE Seed(TRUE)
    /\ UNCHANGED <<visibility, wire, current, latest, faults>>

\* Heartbeats keep the timer from firing while the server is there, unless
\* they are late, which counts as a fault.
FireStale ==
    /\ "stale" \in client.timers
    /\ IF wire.up THEN Fault ELSE UNCHANGED faults
    /\ client' = HandleSocketLost(ClearTimers(client, {"stale"}))
    /\ wire' = Fresh
    /\ IF visibility = "hidden" THEN UNCHANGED request ELSE Seed(FALSE)
    /\ UNCHANGED <<visibility, current, latest>>

FireReconnect ==
    /\ "reconnect" \in client.timers
    /\ \E refused \in Refusals :
        client' = Connect(ClearTimers(client, {"reconnect"}), refused)
    /\ wire' = Fresh
    /\ UNCHANGED <<visibility, current, request, latest, faults>>

\* Broken: a reconnect that is already armed is left armed.
FireHiddenCloseSocket ==
    /\ "hiddenClose" \in client.timers
    /\ LET c == ClearTimers(client, {"hiddenClose"})
       IN  IF visibility = "hidden"
           THEN client' = CloseSocket(ClearTimers(c, {"poll"})) /\ wire' = Fresh
           ELSE client' = c /\ UNCHANGED wire
    /\ UNCHANGED <<visibility, current, request, latest, faults>>

FireHiddenClose ==
    /\ "hiddenClose" \in client.timers
    /\ LET c == ClearTimers(client, {"hiddenClose"})
       IN  IF visibility = "hidden"
           THEN /\ client' = CloseSocket(ClearTimers(c, {"reconnect", "poll"}))
                /\ wire' = Fresh
           ELSE client' = c /\ UNCHANGED wire
    /\ UNCHANGED <<visibility, current, request, latest, faults>>

(* The browser *)
ReconnectNow(c) ==
    IF c.unavailable
    THEN client' = c /\ UNCHANGED <<wire, request>>
    ELSE /\ \E refused \in Refusals :
            client' = Connect(ClearTimers(c, {"reconnect"}), refused)
         /\ wire' = Fresh
         /\ Seed(FALSE)

Hide ==
    /\ visibility = "visible"
    /\ visibility' = "hidden"
    /\ client' = [client EXCEPT !.timers = @ \cup {"hiddenClose"}]
    /\ UNCHANGED <<wire, current, request, latest, faults>>

\* Broken: a tab that still has a socket is taken to be served by it.
ShowWithoutPoll ==
    /\ visibility = "hidden"
    /\ visibility' = "visible"
    /\ LET c == ClearTimers(client, {"hiddenClose"})
       IN  IF c.socket = "none"
           THEN ReconnectNow(c)
           ELSE client' = c /\ UNCHANGED <<wire, request>>
    /\ UNCHANGED <<current, latest, faults>>

Show ==
    /\ visibility = "hidden"
    /\ visibility' = "visible"
    /\ LET c == ClearTimers(client, {"hiddenClose"})
       IN  IF c.socket = "none"
           THEN ReconnectNow(c)
           ELSE client' = SchedulePoll(c) /\ UNCHANGED <<wire, request>>
    /\ UNCHANGED <<current, latest, faults>>

Online ==
    /\ visibility = "visible" /\ client.socket # "open"
    /\ ReconnectNow(client)
    /\ UNCHANGED <<visibility, current, latest, faults>>

NotOlder(v) == Stamp[v] >= Stamp[current]

\* Broken: the 404 closes the socket and forgets the timers.
SettleKeepingTimers(r) ==
    /\ request[r].at = "answered"
    /\ LET v == request[r].reply[1]
           status == request[r].reply[2]
           c == IF status = "404"
                THEN CloseSocket([client EXCEPT !.unavailable = TRUE])
                ELSE client
       IN  /\ client' = IF request[r].resume THEN SchedulePoll(c) ELSE c
           /\ wire' = IF status = "404" THEN Fresh ELSE wire
           /\ current' = IF status = "ok" /\ NotOlder(v) THEN v ELSE current
    /\ request' = [request EXCEPT ![r] = Idle]
    /\ UNCHANGED <<visibility, latest, faults>>

Settle(r) ==
    /\ request[r].at = "answered"
    /\ LET v == request[r].reply[1]
           status == request[r].reply[2]
           c == IF status = "404"
                THEN ClearTimers(CloseSocket([client EXCEPT !.unavailable = TRUE]),
                                 {"reconnect", "poll"})
                ELSE client
       IN  /\ client' = IF request[r].resume THEN SchedulePoll(c) ELSE c
           /\ wire' = IF status = "404" THEN Fresh ELSE wire
           /\ current' = IF status = "ok" /\ NotOlder(v) THEN v ELSE current
    /\ request' = [request EXCEPT ![r] = Idle]
    /\ UNCHANGED <<visibility, latest, faults>>

(* The server and the network *)
Publish ==
    /\ latest + 1 \in Versions
    /\ latest' = latest + 1
    /\ UNCHANGED <<page, wire, request, faults>>

\* A worker sends what it has; it may skip states, and start behind.
Push ==
    /\ client.socket = "open" /\ wire.up
    /\ Len(wire.frames) < WireLength
    /\ \E v \in wire.sent + 1 .. latest :
        wire' = [wire EXCEPT !.frames = Append(@, v), !.sent = v]
    /\ UNCHANGED <<page, request, latest, faults>>

GoSilent ==
    /\ client.socket = "open" /\ wire.up
    /\ Fault
    /\ wire' = [wire EXCEPT !.up = FALSE]
    /\ UNCHANGED <<page, request, latest>>

Answer(r) ==
    /\ request[r].at = "sent"
    /\ request' = [request EXCEPT ![r] = Answered(r, <<latest, "ok">>)]
    /\ UNCHANGED <<page, wire, latest, faults>>

AnswerNotFound(r) ==
    /\ MayVanish /\ request[r].at = "sent"
    /\ request' = [request EXCEPT ![r] = Answered(r, <<0, "404">>)]
    /\ UNCHANGED <<page, wire, latest, faults>>

AnswerFails(r) ==
    /\ request[r].at = "sent"
    /\ Fault
    /\ request' = [request EXCEPT ![r] = Answered(r, <<0, "failed">>)]
    /\ UNCHANGED <<page, wire, latest>>

Socket == Open \/ Receive \/ Close

Timer == FirePoll \/ FireStale \/ FireReconnect \/ FireHiddenClose

Browser == Hide \/ Show \/ Online

Server ==
    \/ Publish \/ Push \/ GoSilent
    \/ \E r \in Requests : Answer(r) \/ AnswerNotFound(r) \/ AnswerFails(r)

Next == Socket \/ Timer \/ Browser \/ Server \/ \E r \in Requests : Settle(r)

SafeSpec == Init /\ [][Next]_vars

\* Timers fire, frames arrive, a socket that connects opens or fails and
\* requests are answered; updates, faults and the user owe nothing.
Fairness ==
    /\ WF_vars(Open) /\ WF_vars(Blocked /\ Close)
    /\ WF_vars(Receive) /\ WF_vars(Push)
    /\ WF_vars(FirePoll) /\ WF_vars(FireStale)
    /\ WF_vars(FireReconnect) /\ WF_vars(FireHiddenClose)
    /\ \A r \in Requests : WF_vars(Answer(r)) /\ WF_vars(Settle(r))

Spec == SafeSpec /\ Fairness

(* Properties *)
\* A visible tab has something ahead of it that will bring news: an open
\* socket watched by the stale timer, a poll, or a request that will be
\* followed by a poll; and a tab without a socket will try to get one.
NeverStranded ==
    visibility = "visible" /\ ~client.unavailable =>
        /\ \/ client.socket = "open" /\ "stale" \in client.timers
           \/ "poll" \in client.timers
           \/ \E r \in Requests : request[r] # Idle /\ request[r].resume
        /\ client.socket = "none" => "reconnect" \in client.timers

\* After a 404 nothing is left that could call the server again, whatever
\* timers, sockets and requests were under way.
DisabledForGood ==
    client.unavailable => client.socket = "none" /\ client.timers \subseteq {"hiddenClose"}

\* A tab that stays visible comes to show the canonical state, through lost
\* and silent sockets, failed and overtaken requests, or with WebSockets blocked.
Converges ==
    <>[](visibility = "visible") => <>[](client.unavailable \/ Shows[current] = Shows[latest])

\* A tab that stays hidden gives its socket back and stops asking.
HiddenReleases ==
    <>[](visibility = "hidden") =>
        <>[](client.socket = "none" /\ client.timers = {} /\ \A r \in Requests : request[r] = Idle)
=============================================================================
