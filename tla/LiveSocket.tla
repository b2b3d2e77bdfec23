----------------------------- MODULE LiveSocket -----------------------------
(***************************************************************************)
(* One WebSocket of /api/live/ws: the handler StreamWebSocket, which sends *)
(* the frames of its channel and heartbeats; DrainAsync, which keeps a     *)
(* receive pending beside it; and CloseAsync, which ends the socket when   *)
(* the client leaves, the lifetime is over or the host stops.  What is in  *)
(* the frames, and who puts them in the channel, is LiveStatusReplica; the *)
(* other end is LiveClient, which never sends a message.                   *)
(*                                                                         *)
(* The framework is external: cancelling a receive aborts the socket, as   *)
(* the code notes, and cancelling a send does as well.  A client that      *)
(* does not answer within the five seconds of a closing is "silent".       *)
(***************************************************************************)
EXTENDS Naturals, Sequences

CONSTANTS
    Capacity, \* of the channel: 8
    MaxFrames \* bound: frames published while the socket lasts

ASSUME SocketBoundsAssumption == Capacity \in Nat \ {0} /\ MaxFrames \in Nat \ {0}

VARIABLES
    handler,                 \* where StreamWebSocket is
    frame,                   \* the frame under way
    queue,                   \* the channel of the subscription
    published,               \* the newest frame
    heartbeat,               \* the PeriodicTimer: waited for, or ticked
    receive,                 \* DrainAsync
    socket,                  \* WebSocketState
    gone, expired, stopping, \* the three tokens
    socketClient,            \* the other end
    arriving,                \* its close frame is on the way
    delivered,               \* the newest frame it was sent
    closeFrame,              \* and the reason it is closed for
    cut                      \* a send was cancelled

cancellations == <<gone, expired, stopping>>

other == <<socketClient, arriving>>

socketVars == <<handler, frame, queue, published, heartbeat, receive, socket, cancellations, other,
                delivered, closeFrame, cut>>

\* pending
Cancelled == gone \/ expired \/ stopping

PeerAnswers == socketClient \in {"listening", "closed"}

\* Subscribe put the current frame in the channel.
SocketInit ==
    /\ handler = "wait" /\ frame = 0 /\ queue = <<1>> /\ published = 1
    /\ heartbeat = "waiting" /\ receive = "pending" /\ socket = "Open"
    /\ gone = FALSE /\ expired = FALSE /\ stopping \in BOOLEAN
    /\ socketClient = "listening" /\ arriving = FALSE
    /\ delivered = 0 /\ closeFrame = "none" /\ cut = FALSE

\* Abort: the pending receive throws.
Abort == socket' = "Aborted" /\ receive' = "ended"

\* Flush writes to a channel that drops its oldest.
SocketPublish ==
    /\ published < MaxFrames /\ handler # "done"
    /\ published' = published + 1
    /\ queue' = Append(IF Len(queue) < Capacity THEN queue ELSE Tail(queue), published + 1)
    /\ UNCHANGED <<handler, frame, heartbeat, receive, socket, cancellations, other, delivered, closeFrame, cut>>

Tick ==
    /\ heartbeat = "waiting" /\ handler # "done"
    /\ heartbeat' = "ticked"
    /\ UNCHANGED <<handler, frame, queue, published, receive, socket, cancellations, other, delivered, closeFrame, cut>>

Expire ==
    /\ ~expired /\ handler # "done"
    /\ expired' = TRUE
    /\ UNCHANGED <<handler, frame, queue, published, heartbeat, receive, socket, gone, stopping,
                   other, delivered, closeFrame, cut>>

Stop ==
    /\ ~stopping /\ handler # "done"
    /\ stopping' = TRUE
    /\ UNCHANGED <<handler, frame, queue, published, heartbeat, receive, socket, gone, expired,
                   other, delivered, closeFrame, cut>>

(* The client and its connection *)
SendsClose == socketClient' = "closed" /\ arriving' = TRUE

ClientLeaves ==
    /\ socketClient = "listening" /\ socket # "CloseSent" /\ SendsClose
    /\ UNCHANGED <<handler, frame, queue, published, heartbeat, receive, socket, cancellations, delivered, closeFrame, cut>>

ClientAnswers ==
    /\ socketClient = "listening" /\ socket = "CloseSent" /\ SendsClose
    /\ UNCHANGED <<handler, frame, queue, published, heartbeat, receive, socket, cancellations, delivered, closeFrame, cut>>

\* The connection breaks, which is noticed, or nothing comes through any more.
ConnectionLost ==
    /\ PeerAnswers
    /\ socketClient' \in {"dropped", "silent"} /\ arriving' = FALSE
    /\ UNCHANGED <<handler, frame, queue, published, heartbeat, receive, socket, cancellations, delivered, closeFrame, cut>>

\* RequestAborted: the one token that cancels the receive.
Gone ==
    /\ socketClient = "dropped" /\ ~gone /\ handler # "done"
    /\ gone' = TRUE /\ Abort
    /\ UNCHANGED <<handler, frame, queue, published, heartbeat, expired, stopping, other,
                   delivered, closeFrame, cut>>

(* DrainAsync *)
ReceiveClose ==
    /\ receive = "pending" /\ arriving
    /\ receive' = "ended" /\ arriving' = FALSE
    /\ socket' = IF socket = "Open" THEN "CloseReceived" ELSE "Closed"
    /\ UNCHANGED <<handler, frame, queue, published, heartbeat, cancellations, socketClient, delivered, closeFrame, cut>>

ReceiveFails ==
    /\ receive = "pending" /\ socketClient = "dropped"
    /\ Abort
    /\ UNCHANGED <<handler, frame, queue, published, heartbeat, cancellations, other, delivered, closeFrame, cut>>

(* StreamWebSocket *)
Sending == handler \in {"data", "beat"}

\* The receive ended, or the waits were cancelled.
LoopEnds ==
    /\ handler = "wait" /\ (receive = "ended" \/ Cancelled)
    /\ handler' = "ending"
    /\ UNCHANGED <<frame, queue, published, heartbeat, receive, socket, cancellations, other, delivered, closeFrame, cut>>

\* dataReady: from here to the end of SendAsync the token cuts what is sent.
StartData ==
    /\ handler = "wait" /\ receive = "pending" /\ ~Cancelled /\ queue # <<>>
    /\ handler' = "data" /\ frame' = Head(queue) /\ queue' = Tail(queue)
    /\ UNCHANGED <<published, heartbeat, receive, socket, cancellations, other, delivered, closeFrame, cut>>

StartBeat ==
    /\ handler = "wait" /\ receive = "pending" /\ ~Cancelled /\ queue = <<>> /\ heartbeat = "ticked"
    /\ handler' = "beat"
    /\ UNCHANGED <<frame, queue, published, heartbeat, receive, socket, cancellations, other, delivered, closeFrame, cut>>

\* TryRead goes on until the channel is empty.
DataSent ==
    /\ handler = "data" /\ ~Cancelled /\ socket # "Aborted"
    /\ delivered' = frame
    /\ \/ queue # <<>> /\ frame' = Head(queue) /\ queue' = Tail(queue) /\ UNCHANGED handler
       \/ queue = <<>> /\ handler' = "wait" /\ UNCHANGED <<frame, queue>>
    /\ UNCHANGED <<published, heartbeat, receive, socket, cancellations, other, closeFrame, cut>>

BeatSent ==
    /\ handler = "beat" /\ ~Cancelled /\ socket # "Aborted"
    /\ handler' = "wait" /\ heartbeat' = "waiting"
    /\ UNCHANGED <<frame, queue, published, receive, socket, cancellations, other, delivered, closeFrame, cut>>

SendCut ==
    /\ Sending /\ Cancelled
    /\ handler' = "ending" /\ cut' = TRUE /\ Abort
    /\ UNCHANGED <<frame, queue, published, heartbeat, cancellations, other, delivered, closeFrame>>

SendFails ==
    /\ Sending /\ socket = "Aborted"
    /\ handler' = "ending"
    /\ UNCHANGED <<frame, queue, published, heartbeat, receive, socket, cancellations, other, delivered, closeFrame, cut>>

(* CloseAsync *)
\* Broken: a socket the client closes is left to it.
ClosableIfOpen == socket = "Open"

Closable == socket \in {"Open", "CloseReceived"}

Why ==
    CASE stopping -> "server shutting down"
      [] ~stopping /\ socket = "CloseReceived" -> "closing"
      [] ~stopping /\ socket = "Open" -> "connection lifetime reached"

\* Nobody is left to close for.
NothingToClose ==
    /\ handler = "ending" /\ (gone \/ ~Closable)
    /\ handler' = "done"
    /\ IF gone THEN Abort ELSE UNCHANGED <<socket, receive>>
    /\ UNCHANGED <<frame, queue, published, heartbeat, cancellations, other, delivered, closeFrame, cut>>

StartClose ==
    /\ handler = "ending" /\ ~gone /\ Closable
    /\ handler' = "closing" /\ closeFrame' = Why
    /\ UNCHANGED <<frame, queue, published, heartbeat, receive, socket, cancellations, other, delivered, cut>>

\* CloseOutputAsync
CloseSent ==
    /\ handler = "closing" /\ Closable
    /\ socket' = IF socket = "Open" THEN "CloseSent" ELSE "Closed"
    /\ handler' = "acknowledging"
    /\ UNCHANGED <<frame, queue, published, heartbeat, receive, cancellations, other, delivered, closeFrame, cut>>

Acknowledged ==
    /\ handler = "acknowledging" /\ receive = "ended"
    /\ handler' = "done"
    /\ UNCHANGED <<frame, queue, published, heartbeat, receive, socket, cancellations, other, delivered, closeFrame, cut>>

\* The socket was aborted under it.
CloseFails ==
    /\ handler = "closing" /\ socket = "Aborted"
    /\ handler' = "done"
    /\ UNCHANGED <<frame, queue, published, heartbeat, receive, socket, cancellations, other, delivered, closeFrame, cut>>

CloseTimesOut ==
    /\ handler \in {"closing", "acknowledging"} /\ ~PeerAnswers
    /\ handler' = "done" /\ Abort
    /\ UNCHANGED <<frame, queue, published, heartbeat, cancellations, other, delivered, closeFrame, cut>>

Sent == DataSent \/ BeatSent

Handler ==
    \/ LoopEnds \/ StartData \/ StartBeat \/ SendCut \/ SendFails
    \/ NothingToClose \/ StartClose \/ Acknowledged \/ CloseFails \/ CloseTimesOut

Drain == ReceiveClose \/ ReceiveFails

Environment == SocketPublish \/ Expire \/ Stop \/ ClientLeaves \/ ConnectionLost \/ Gone

SocketNext == Environment \/ Tick \/ ClientAnswers \/ Drain \/ Handler \/ Sent \/ CloseSent

\* Sends end while the client reads, the timers run, a broken connection is
\* reported, and a listening client answers a close frame.  The lifetime need
\* not end here, so that what is promised before it does can be said.
SocketFairness ==
    /\ WF_socketVars(Handler) /\ WF_socketVars(Drain) /\ WF_socketVars(Tick) /\ WF_socketVars(Gone) /\ WF_socketVars(ClientAnswers)
    /\ WF_socketVars(PeerAnswers /\ (Sent \/ CloseSent))

SocketSpec == SocketInit /\ [][SocketNext]_socketVars /\ SocketFairness

Over == handler \in {"ending", "closing", "acknowledging", "done"}

SocketTypeOK ==
    /\ handler \in {"wait", "data", "beat"} \/ Over
    /\ Len(queue) <= Capacity /\ frame <= published /\ delivered <= published
    /\ \A i \in 1 .. Len(queue) : delivered < queue[i] /\ queue[i] <= published
    /\ heartbeat \in {"waiting", "ticked"} /\ receive \in {"pending", "ended"}
    /\ socket \in {"Open", "CloseReceived", "CloseSent", "Closed", "Aborted"}
    /\ receive = "pending" => socket \in {"Open", "CloseSent"}

\* "Max lifetime and host shutdown end the loop and then close gracefully"
\* (LiveEndpoints.cs:137): a client that is still there when the handler is
\* done got a close frame, unless a send to it was under way at that moment.
ClosedGracefully ==
    handler = "done" /\ PeerAnswers /\ ~cut => closeFrame # "none" /\ socket = "Closed"

\* The close frame does not lie: it blames the lifetime only when that is over.
ReasonIsTrue ==
    /\ closeFrame = "connection lifetime reached" => expired
    /\ closeFrame = "server shutting down" => stopping
    /\ closeFrame = "closing" => socketClient # "listening"

\* Whatever ends it, the handler and its receive are not left behind: each
\* wait has a token or a limit.  Only a send to a client that went silent after
\* its close frame lasts until a token is cancelled, the lifetime at the latest.
HandlerEnds ==
    LET Done == handler = "done" /\ receive = "ended"
    IN  <>[](/\ Cancelled => Done
             /\ receive = "ended" => Done \/ socketClient = "silent")

\* A client that keeps reading gets the newest frame, however full the channel
\* was; older ones may be dropped.
NewestDelivered == <>[](delivered = published \/ Over \/ ~PeerAnswers)

\* "a small text message also lets the client detect a silently dead socket"
\* (LiveEndpoints.cs:95): a client that listens hears something again and again.
KeepsTalking == []<>(handler \in {"data", "beat"} \/ Over \/ socketClient # "listening")

\* Whatever ends a stream, at whichever step, the close frame is sent to a client
\* that can read it and says why (LiveEndpoints.cs:137).
SocketSafe ==
    /\ SocketTypeOK
    /\ ClosedGracefully
    /\ ReasonIsTrue
=============================================================================
