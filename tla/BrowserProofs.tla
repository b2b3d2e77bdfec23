--------------------------- MODULE BrowserProofs ---------------------------
(***************************************************************************)
(* The safety of the live status in the browser: of the connection         *)
(* (LiveClient), of the page it feeds (LiveNotice), and of the server's    *)
(* handler at the other end of the socket (LiveSocket).                    *)
(***************************************************************************)
EXTENDS LiveClient, LiveNotice, LiveSocket, TLAPS

-----------------------------------------------------------------------------
(***************************************************************************)

Watched == client.socket = "open" => "stale" \in client.timers

ClientInv == TypeOK /\ Watched /\ NeverStranded /\ DisabledForGood

-----------------------------------------------------------------------------
(* What the functions of live-status.ts do to a client.                    *)

(* closeSocket: no socket, and no timer that watches it.                   *)
LEMMA Closing ==
    ASSUME NEW c \in Client
    PROVE  /\ CloseSocket(c) \in Client
           /\ CloseSocket(c).unavailable = c.unavailable
           /\ CloseSocket(c).socket = "none"
           /\ CloseSocket(c).timers = c.timers \ {"stale"}
BY DEF Client, CloseSocket

(* Timers that are cleared are gone; the rest stays.                       *)
LEMMA Clearing ==
    ASSUME NEW c \in Client, NEW ts
    PROVE  /\ ClearTimers(c, ts) \in Client
           /\ ClearTimers(c, ts).unavailable = c.unavailable
           /\ ClearTimers(c, ts).socket = c.socket
           /\ ClearTimers(c, ts).timers = c.timers \ ts
BY DEF Client, ClearTimers

(* schedulePoll: armed unless switched off or served by a socket.          *)
LEMMA Polling ==
    ASSUME NEW c \in Client
    PROVE  /\ SchedulePoll(c) \in Client
           /\ SchedulePoll(c).unavailable = c.unavailable
           /\ SchedulePoll(c).socket = c.socket
           /\ SchedulePoll(c).timers = IF c.unavailable \/ c.socket = "open"
                                       THEN c.timers ELSE c.timers \cup {"poll"}
BY DEF Client, SchedulePoll, Timers

(* scheduleReconnect: armed unless switched off.                           *)
LEMMA Reconnecting ==
    ASSUME NEW c \in Client
    PROVE  /\ ScheduleReconnect(c) \in Client
           /\ ScheduleReconnect(c).unavailable = c.unavailable
           /\ ScheduleReconnect(c).socket = c.socket
           /\ ScheduleReconnect(c).timers = IF c.unavailable THEN c.timers
                                            ELSE c.timers \cup {"reconnect"}
BY DEF Client, ScheduleReconnect, Timers

(* handleSocketLost: neither socket nor stale timer; a client that is not  *)
(* switched off polls and reconnects.                                      *)
LEMMA Losing ==
    ASSUME NEW c \in Client
    PROVE  /\ HandleSocketLost(c) \in Client
           /\ HandleSocketLost(c).unavailable = c.unavailable
           /\ HandleSocketLost(c).socket = "none"
           /\ HandleSocketLost(c).timers =
                 IF c.unavailable THEN c.timers \ {"stale"}
                 ELSE (c.timers \ {"stale"}) \cup {"reconnect", "poll"}
<1> DEFINE closed == CloseSocket(c)
           again == ScheduleReconnect(closed)
<1>1. closed \in Client /\ closed.unavailable = c.unavailable /\ closed.socket = "none"
      /\ closed.timers = c.timers \ {"stale"}
  BY Closing
<1>2. again \in Client /\ again.unavailable = c.unavailable /\ again.socket = "none"
      /\ again.timers = IF c.unavailable THEN closed.timers ELSE closed.timers \cup {"reconnect"}
  <2> HIDE DEF closed
  <2> QED  BY <1>1, Reconnecting
<1>3. HandleSocketLost(c) = SchedulePoll(again)
  BY DEF HandleSocketLost
<1> HIDE DEF closed, again
<1> QED  BY <1>1, <1>2, <1>3, Polling

(* connect: a socket that connects, or one that could not be made, with a  *)
(* poll and, in that case, another attempt to come.                        *)
LEMMA Connecting ==
    ASSUME NEW c \in Client, NEW refused \in BOOLEAN, c.unavailable => c.socket = "none"
    PROVE  /\ Connect(c, refused) \in Client
           /\ Connect(c, refused).unavailable = c.unavailable
           /\ Connect(c, refused).socket \in {"none", "connecting"}
           /\ c.unavailable => Connect(c, refused) = c
           /\ ~c.unavailable =>
                 /\ "poll" \in Connect(c, refused).timers
                 /\ "stale" \notin Connect(c, refused).timers
                 /\ Connect(c, refused).socket = "none" => "reconnect" \in Connect(c, refused).timers
<1>1. CASE c.unavailable
  BY <1>1 DEF Connect
<1>2. CASE ~c.unavailable /\ refused
  <2>1. Connect(c, refused) = HandleSocketLost(c)
    BY <1>2 DEF Connect, HandleSocketLost
  <2>2. /\ HandleSocketLost(c) \in Client
        /\ HandleSocketLost(c).unavailable = c.unavailable
        /\ HandleSocketLost(c).socket = "none"
        /\ HandleSocketLost(c).timers = (c.timers \ {"stale"}) \cup {"reconnect", "poll"}
    BY <1>2, Losing
  <2>3. "stale" \notin HandleSocketLost(c).timers /\ {"reconnect", "poll"} \subseteq HandleSocketLost(c).timers
    BY <2>2
  <2> QED  BY <1>2, <2>1, <2>2, <2>3, Zenon
<1>3. CASE ~c.unavailable /\ ~refused
  <2> DEFINE fresh == [CloseSocket(c) EXCEPT !.socket = "connecting"]
  <2>1. fresh \in Client /\ fresh.unavailable = c.unavailable /\ fresh.socket = "connecting"
        /\ fresh.timers = c.timers \ {"stale"}
    BY Closing DEF Client
  <2>2. Connect(c, refused) = SchedulePoll(fresh)
    BY <1>3 DEF Connect
  <2> HIDE DEF fresh
  <2>3. /\ SchedulePoll(fresh) \in Client
        /\ SchedulePoll(fresh).unavailable = c.unavailable
        /\ SchedulePoll(fresh).socket = "connecting"
        /\ SchedulePoll(fresh).timers = (c.timers \ {"stale"}) \cup {"poll"}
    BY <1>3, <2>1, Polling
  <2> QED  BY <1>3, <2>2, <2>3
<1> QED  BY <1>1, <1>2, <1>3

LEMMA RefusalsType == \A refused \in Refusals : refused \in BOOLEAN
BY BooleansAssumption DEF Refusals

(* What a request may be.                                                  *)
RequestStates == {Idle} \cup [at : {"sent"}, resume : BOOLEAN]
                        \cup [at : {"answered"}, resume : BOOLEAN, reply : Replies]

LEMMA RequestTypes == TypeOK => request \in [Requests -> RequestStates]
BY DEF TypeOK, RequestStates

LEMMA PendingType ==
    ASSUME NEW resume \in BOOLEAN
    PROVE  Pending(resume) \in RequestStates /\ Pending(resume) # Idle
                                             /\ Pending(resume).resume = resume
<1>1. Pending(resume).at = "sent" /\ Idle.at = "idle"
  BY DEF Pending, Idle
<1>2. Pending(resume) # Idle
  BY <1>1
<1> QED  BY <1>2 DEF Pending, RequestStates

(* seed: one more request under way, none lost.                            *)
LEMMA Seeding ==
    ASSUME TypeOK, NEW resume \in BOOLEAN, Seed(resume)
    PROVE  /\ request' \in [Requests -> RequestStates]
           /\ \A r \in Requests : request[r] # Idle => request'[r] = request[r]
           /\ \E r \in Requests : request'[r] # Idle /\ request'[r].resume = resume
<1>1. PICK r \in Requests : request[r] = Idle /\ request' = [request EXCEPT ![r] = Pending(resume)]
  BY DEF Seed
<1>2. request \in [Requests -> RequestStates]
  BY RequestTypes
<1>3. request'[r] = Pending(resume)
  BY <1>1, <1>2
<1> QED  BY <1>1, <1>2, <1>3, PendingType

LEMMA FreshType ==
    Fresh \in [frames : Seq(Versions), sent : Versions \cup {0}, up : BOOLEAN] /\ Len(Fresh.frames) <= WireLength
<1>1. Fresh.frames = <<>> /\ <<>> \in Seq(Versions) /\ Len(<<>>) = 0
  BY DEF Fresh
<1> QED  BY <1>1, BoundsAssumption DEF Fresh

(* An answered request keeps whether a poll follows it.                    *)
LEMMA AnsweredType ==
    ASSUME TypeOK, NEW r \in Requests, request[r].at = "sent", NEW reply \in Replies
    PROVE  /\ Answered(r, reply) \in RequestStates
           /\ Answered(r, reply) # Idle
           /\ Answered(r, reply).resume = request[r].resume
<1>1. request[r] \in RequestStates
  BY RequestTypes
<1>2. request[r] \in [at : {"sent"}, resume : BOOLEAN]
  BY <1>1 DEF RequestStates, Idle
<1>3. Answered(r, reply).at = "answered" /\ Idle.at = "idle"
  BY DEF Answered, Idle
<1> QED  BY <1>2, <1>3 DEF Answered, RequestStates

(* reconnect now: unless switched off, a new socket or a poll, and a fetch *)
(* of the snapshot.                                                        *)
LEMMA Reconnected ==
    ASSUME TypeOK, NEW c \in Client, c.unavailable => c.socket = "none", ReconnectNow(c)
    PROVE  /\ client' \in Client
           /\ client'.unavailable = c.unavailable
           /\ client'.socket \in {"none", "connecting"}
           /\ wire' \in {wire, Fresh}
           /\ request' \in [Requests -> RequestStates]
           /\ \A r \in Requests : request[r] # Idle => request'[r] = request[r]
           /\ c.unavailable => client' = c
           /\ ~c.unavailable =>
                 /\ "poll" \in client'.timers
                 /\ "stale" \notin client'.timers
                 /\ client'.socket = "none" => "reconnect" \in client'.timers
<1>1. CASE c.unavailable
  BY <1>1, RequestTypes DEF ReconnectNow
<1>2. CASE ~c.unavailable
  <2> DEFINE clear == ClearTimers(c, {"reconnect"})
  <2>1. PICK refused \in Refusals : client' = Connect(clear, refused)
    BY <1>2 DEF ReconnectNow
  <2>2. wire' = Fresh /\ Seed(FALSE)
    BY <1>2 DEF ReconnectNow
  <2>3. clear \in Client /\ clear.unavailable = FALSE
    BY <1>2, Clearing DEF Client
  <2>4. refused \in BOOLEAN
    BY RefusalsType
  <2> HIDE DEF clear
  <2>5. /\ client' \in Client
        /\ client'.unavailable = FALSE
        /\ client'.socket \in {"none", "connecting"}
        /\ "poll" \in client'.timers
        /\ "stale" \notin client'.timers
        /\ client'.socket = "none" => "reconnect" \in client'.timers
    BY <2>1, <2>3, <2>4, Connecting
  <2>6. c.unavailable = FALSE
    BY <1>2 DEF Client
  <2> QED  BY <1>2, <2>2, <2>5, <2>6, Seeding
<1> QED  BY <1>1, <1>2

-----------------------------------------------------------------------------
(* The invariant.                                                          *)

LEMMA ClientInitInv == Init => ClientInv
<1> SUFFICES ASSUME Init PROVE ClientInv
  OBVIOUS
<1> DEFINE none == [unavailable |-> FALSE, socket |-> "none", timers |-> {}]
<1>1. none \in Client /\ ~none.unavailable /\ none.socket = "none"
  BY DEF Client
<1>2. PICK refused \in Refusals :
        client = IF visibility = "hidden"
                 THEN [Connect(none, refused) EXCEPT !.timers = @ \cup {"hiddenClose"}]
                 ELSE Connect(none, refused)
  BY DEF Init
<1>3. refused \in BOOLEAN
  BY RefusalsType
<1> HIDE DEF none
<1> DEFINE first == Connect(none, refused)
<1>4. /\ first \in Client /\ first.unavailable = none.unavailable
      /\ first.socket \in {"none", "connecting"}
      /\ "poll" \in first.timers /\ "stale" \notin first.timers
      /\ first.socket = "none" => "reconnect" \in first.timers
  BY <1>1, <1>3, Connecting
<1>5. ~first.unavailable
  BY <1>1, <1>4
<1> HIDE DEF first
<1>6. client = IF visibility = "hidden" THEN [first EXCEPT !.timers = @ \cup {"hiddenClose"}] ELSE first
  BY <1>2 DEF first
<1>7. /\ client \in Client /\ ~client.unavailable /\ client.socket = first.socket
      /\ "poll" \in client.timers /\ "stale" \notin client.timers
      /\ client.socket = "none" => "reconnect" \in client.timers
  BY <1>4, <1>5, <1>6 DEF Client, Timers
<1>8. request \in [Requests -> RequestStates]
  <2>1. PICK r \in Requests : request = [q \in Requests |-> IF q = r THEN Pending(FALSE) ELSE Idle]
    BY DEF Init
  <2> QED  BY <2>1, PendingType DEF RequestStates
<1>9. TypeOK
  <2>1. wire \in [frames : Seq(Versions), sent : Versions \cup {0}, up : BOOLEAN]
        /\ Len(wire.frames) <= WireLength
    BY FreshType DEF Init
  <2>2. current \in Versions \cup {0} /\ latest \in Versions /\ faults \in 0 .. MaxFaults
    BY VersionsAssumption, BoundsAssumption DEF Init, Versions
  <2>3. visibility \in {"visible", "hidden"}
    BY DEF Init
  <2> QED  BY <1>4, <1>7, <1>8, <2>1, <2>2, <2>3 DEF TypeOK, RequestStates
<1> QED  BY <1>4, <1>7, <1>9 DEF ClientInv, Watched, NeverStranded, DisabledForGood

(* A client the page can have: what the invariant says of it, but for its  *)
(* requests.                                                               *)
Sound(c) ==
    /\ c \in Client
    /\ c.socket = "open" <=> "stale" \in c.timers
    /\ c.unavailable => c.socket = "none" /\ c.timers \subseteq {"hiddenClose"}

LEMMA SoundNow == ClientInv => Sound(client)
BY DEF ClientInv, TypeOK, Watched, DisabledForGood, Sound

LEMMA LosingIsSound ==
    ASSUME NEW c \in Client, c.unavailable => c.timers \subseteq {"hiddenClose"}
    PROVE  Sound(HandleSocketLost(c))
<1>1. HandleSocketLost(c) \in Client /\ HandleSocketLost(c).socket = "none"
      /\ HandleSocketLost(c).unavailable = c.unavailable
  BY Losing
<1>2. CASE c.unavailable
  <2>1. HandleSocketLost(c).timers = c.timers \ {"stale"}
    BY <1>2, Losing
  <2> QED  BY <1>1, <1>2, <2>1 DEF Sound
<1>3. CASE ~c.unavailable
  <2>1. HandleSocketLost(c).timers = (c.timers \ {"stale"}) \cup {"reconnect", "poll"}
    BY <1>3, Losing
  <2> QED  BY <1>1, <1>3, <2>1 DEF Sound
<1> QED  BY <1>2, <1>3

LEMMA PollingIsSound ==
    ASSUME NEW c, Sound(c)
    PROVE  Sound(SchedulePoll(c))
<1>1. c \in Client
  BY DEF Sound
<1>2. CASE c.unavailable \/ c.socket = "open"
  BY <1>2 DEF SchedulePoll
<1>3. CASE ~c.unavailable /\ c.socket # "open"
  <2> DEFINE d == SchedulePoll(c)
  <2>1. d \in Client /\ d.unavailable = c.unavailable /\ d.socket = c.socket
        /\ d.timers = c.timers \cup {"poll"}
    BY <1>1, <1>3, Polling
  <2> HIDE DEF d
  <2>2. Sound(d)
    BY <1>3, <2>1 DEF Sound
  <2> QED  BY <2>2 DEF d
<1> QED  BY <1>2, <1>3

LEMMA ClientStep == ClientInv /\ [Next]_vars => Sound(client)'
<1> SUFFICES ASSUME ClientInv, [Next]_vars PROVE Sound(client')
  BY DEF Sound
<1>1. Sound(client)
  BY SoundNow
<1>t. TypeOK
  BY DEF ClientInv
<1>2. CASE Open
  BY <1>1, <1>2 DEF Open, Sound, Client, Timers
<1>3. CASE Receive
  BY <1>1, <1>3 DEF Receive, Sound, Client, Timers
<1>4. CASE Close
  BY <1>1, <1>4, LosingIsSound DEF Close, Sound
<1>5. CASE FirePoll
  BY <1>1, <1>5, Clearing DEF FirePoll, Sound
<1>6. CASE FireStale
  <2> DEFINE c == ClearTimers(client, {"stale"})
  <2>1. c \in Client /\ c.unavailable = client.unavailable /\ c.timers \subseteq client.timers
    BY <1>1, Clearing DEF Sound
  <2>2. client' = HandleSocketLost(c)
    BY <1>6 DEF FireStale
  <2> HIDE DEF c
  <2>3. c.unavailable => c.timers \subseteq {"hiddenClose"}
    BY <1>1, <2>1 DEF Sound
  <2> QED  BY <2>1, <2>2, <2>3, LosingIsSound
<1>7. CASE FireReconnect
  <2> DEFINE c == ClearTimers(client, {"reconnect"})
  <2>1. PICK refused \in Refusals : client' = Connect(c, refused)
    BY <1>7 DEF FireReconnect
  <2>2. ~client.unavailable
    BY <1>1, <1>7 DEF FireReconnect, Sound
  <2>3. c \in Client /\ ~c.unavailable
    BY <1>1, <2>2, Clearing DEF Sound
  <2>4. refused \in BOOLEAN
    BY RefusalsType
  <2> HIDE DEF c
  <2>5. client' \in Client /\ client'.unavailable = c.unavailable
        /\ client'.socket \in {"none", "connecting"} /\ "stale" \notin client'.timers
    BY <2>1, <2>3, <2>4, Connecting
  <2> QED  BY <2>3, <2>5 DEF Sound
<1>8. CASE FireHiddenClose
  <2> DEFINE c == ClearTimers(client, {"hiddenClose"})
             d == ClearTimers(c, {"reconnect", "poll"})
  <2>1. c \in Client /\ c.unavailable = client.unavailable /\ c.socket = client.socket
        /\ c.timers = client.timers \ {"hiddenClose"}
    BY <1>1, Clearing DEF Sound
  <2>2. client' = c \/ client' = CloseSocket(d)
    BY <1>8 DEF FireHiddenClose
  <2> HIDE DEF c
  <2>3. d \in Client /\ d.unavailable = client.unavailable /\ d.timers \subseteq client.timers
    BY <2>1, Clearing
  <2> HIDE DEF d
  <2> QED  BY <1>1, <2>1, <2>2, <2>3, Closing DEF Sound
<1>9. CASE Hide
  BY <1>1, <1>9 DEF Hide, Sound, Client, Timers
<1>10. CASE Show
  <2> DEFINE c == ClearTimers(client, {"hiddenClose"})
  <2>1. c \in Client /\ c.unavailable = client.unavailable /\ c.socket = client.socket
        /\ c.timers = client.timers \ {"hiddenClose"}
    BY <1>1, Clearing DEF Sound
  <2>2. IF c.socket = "none" THEN ReconnectNow(c) ELSE client' = SchedulePoll(c)
    BY <1>10 DEF Show
  <2> HIDE DEF c
  <2>3. CASE c.socket = "none"
    BY <1>1, <1>t, <2>1, <2>2, <2>3, Reconnected DEF Sound
  <2>4. CASE c.socket # "none"
    BY <1>1, <2>1, <2>2, <2>4, Polling, ZenonT(60) DEF Sound
  <2> QED  BY <2>3, <2>4
<1>11. CASE Online
  BY <1>1, <1>t, <1>11, Reconnected DEF Online, Sound
<1>12. ASSUME NEW r \in Requests, Settle(r) PROVE Sound(client')
  <2> DEFINE off == [client EXCEPT !.unavailable = TRUE]
             c == IF request[r].reply[2] = "404"
                  THEN ClearTimers(CloseSocket(off), {"reconnect", "poll"}) ELSE client
  <2>1. off \in Client /\ off.unavailable /\ off.timers = client.timers
    BY <1>1 DEF Sound, Client
  <2>2. client' = IF request[r].resume THEN SchedulePoll(c) ELSE c
    BY <1>12 DEF Settle
  <2>3. Sound(c)
    <3> DEFINE closed == CloseSocket(off)
    <3>0. closed \in Client /\ closed.unavailable = off.unavailable /\ closed.socket = "none"
          /\ closed.timers = client.timers \ {"stale"}
      BY <2>1, Closing
    <3> DEFINE d == ClearTimers(closed, {"reconnect", "poll"})
    <3>1. d \in Client /\ d.unavailable = off.unavailable /\ d.socket = "none"
          /\ d.timers = closed.timers \ {"reconnect", "poll"}
      <4> HIDE DEF closed
      <4> QED  BY <3>0, Clearing
    <3>2. client.timers \subseteq Timers
      BY <1>1 DEF Sound, Client
    <3> HIDE DEF d, closed
    <3>3. Sound(d)
      BY <2>1, <3>0, <3>1, <3>2 DEF Sound, Timers
    <3> QED  BY <1>1, <3>3 DEF d, closed
  <2> HIDE DEF c
  <2> QED  BY <2>2, <2>3, PollingIsSound
<1>13. CASE UNCHANGED client
  BY <1>1, <1>13 DEF Sound
<1>14. CASE Server
  BY <1>13, <1>14 DEF Server, Publish, Push, GoSilent, Answer, AnswerNotFound, AnswerFails, page
<1> QED
  BY <1>2, <1>3, <1>4, <1>5, <1>6, <1>7, <1>8, <1>9, <1>10, <1>11, <1>12, <1>13, <1>14
     DEF Next, Socket, Timer, Browser, vars

WireStates == [frames : Seq(Versions), sent : Versions \cup {0}, up : BOOLEAN]

LEMMA RequestStep == ClientInv /\ [Next]_vars => request' \in [Requests -> RequestStates]
<1> SUFFICES ASSUME ClientInv, [Next]_vars PROVE request' \in [Requests -> RequestStates]
  OBVIOUS
<1>t. TypeOK /\ request \in [Requests -> RequestStates]
  BY RequestTypes DEF ClientInv
<1>1. CASE UNCHANGED request
  BY <1>t, <1>1
<1>2. CASE \E resume \in BOOLEAN : Seed(resume)
  BY <1>t, <1>2, Seeding
<1>3. ASSUME NEW c \in Client, ReconnectNow(c) PROVE request' \in [Requests -> RequestStates]
  BY <1>1, <1>2, <1>3 DEF ReconnectNow
<1>4. CASE Show
  <2>1. ClearTimers(client, {"hiddenClose"}) \in Client
    BY SoundNow, Clearing DEF Sound
  <2> QED  BY <1>1, <1>3, <1>4, <2>1 DEF Show
<1>5. CASE Online
  BY <1>3, <1>5, SoundNow DEF Online, Sound
<1>6. ASSUME NEW r \in Requests, Settle(r) PROVE request' \in [Requests -> RequestStates]
  BY <1>t, <1>6 DEF Settle, RequestStates
<1>7. ASSUME NEW r \in Requests, Answer(r) \/ AnswerNotFound(r) \/ AnswerFails(r)
      PROVE  request' \in [Requests -> RequestStates]
  <2>1. /\ <<latest, "ok">> \in Replies /\ <<0, "404">> \in Replies /\ <<0, "failed">> \in Replies
    BY <1>t DEF TypeOK, Replies
  <2>2. request[r].at = "sent"
        /\ \E reply \in Replies : request' = [request EXCEPT ![r] = Answered(r, reply)]
    BY <1>7, <2>1 DEF Answer, AnswerNotFound, AnswerFails
  <2> QED  BY <1>t, <2>2, AnsweredType
<1> QED
  BY <1>1, <1>2, <1>4, <1>5, <1>6, <1>7
     DEF Next, Socket, Open, Receive, Close, Timer, FirePoll, FireStale, FireReconnect,
         FireHiddenClose, Browser, Hide, Server, Publish, Push, GoSilent, vars

LEMMA WireStep == ClientInv /\ [Next]_vars => wire' \in WireStates /\ Len(wire'.frames) <= WireLength
<1> SUFFICES ASSUME ClientInv, [Next]_vars
             PROVE  wire' \in WireStates /\ Len(wire'.frames) <= WireLength
  OBVIOUS
<1>t. TypeOK /\ wire \in WireStates /\ Len(wire.frames) <= WireLength
  BY DEF ClientInv, TypeOK, WireStates
<1>1. CASE wire' \in {wire, Fresh}
  BY <1>t, <1>1, FreshType DEF WireStates
<1>2. CASE Receive
  <2>1. wire.frames \in Seq(Versions) /\ wire.frames # <<>>
    BY <1>t, <1>2 DEF Receive, WireStates
  <2>2. Tail(wire.frames) \in Seq(Versions) /\ Len(Tail(wire.frames)) = Len(wire.frames) - 1
    BY <2>1
  <2>3. wire' = [wire EXCEPT !.frames = Tail(wire.frames)]
    BY <1>2 DEF Receive
  <2>4. wire' \in WireStates /\ wire'.frames = Tail(wire.frames)
    BY <1>t, <2>2, <2>3 DEF WireStates
  <2>5. Len(wire.frames) \in Nat /\ WireLength \in Nat
    BY <2>1, BoundsAssumption
  <2> QED  BY <1>t, <2>2, <2>4, <2>5
<1>3. CASE Push
  <2>1. PICK v \in wire.sent + 1 .. latest :
          wire' = [wire EXCEPT !.frames = Append(@, v), !.sent = v]
    BY <1>3 DEF Push
  <2>2. v \in Versions
    BY <1>t, <2>1, VersionsAssumption DEF TypeOK, WireStates, Versions
  <2>3. wire.frames \in Seq(Versions) /\ Len(wire.frames) < WireLength
    BY <1>t, <1>3 DEF Push, WireStates
  <2>4. Append(wire.frames, v) \in Seq(Versions) /\ Len(Append(wire.frames, v)) = Len(wire.frames) + 1
    BY <2>2, <2>3
  <2>5. wire' \in WireStates /\ wire'.frames = Append(wire.frames, v)
    BY <1>t, <2>1, <2>2, <2>4 DEF WireStates
  <2>6. Len(wire.frames) \in Nat /\ WireLength \in Nat
    BY <2>3, BoundsAssumption
  <2> QED  BY <2>3, <2>4, <2>5, <2>6
<1>4. CASE GoSilent
  BY <1>t, <1>4 DEF GoSilent, WireStates
<1>5. ASSUME NEW c, ReconnectNow(c) PROVE wire' \in {wire, Fresh}
  BY <1>5 DEF ReconnectNow
<1> QED
  BY <1>1, <1>2, <1>3, <1>4, <1>5
     DEF Next, Socket, Open, Close, Timer, FirePoll, FireStale, FireReconnect, FireHiddenClose,
         Browser, Hide, Show, Online, Server, Publish, Answer, AnswerNotFound, AnswerFails,
         Settle, vars

LEMMA TypeStep == ClientInv /\ [Next]_vars => TypeOK'
<1> SUFFICES ASSUME ClientInv, [Next]_vars PROVE TypeOK'
  OBVIOUS
<1>t. TypeOK
  BY DEF ClientInv
<1>1. Sound(client)' /\ request' \in [Requests -> RequestStates]
      /\ wire' \in WireStates /\ Len(wire'.frames) <= WireLength
  BY ClientStep, RequestStep, WireStep
<1>2. visibility' \in {"visible", "hidden"} /\ latest' \in Versions
  BY <1>t, VersionsAssumption
     DEF Next, Socket, Open, Receive, Close, Timer, FirePoll, FireStale, FireReconnect,
         FireHiddenClose, Browser, Hide, Show, Online, Server, Publish, Push, GoSilent, Answer,
         AnswerNotFound, AnswerFails, Settle, page, vars, TypeOK
<1>3. faults' \in 0 .. MaxFaults
  <2>1. Fault \/ UNCHANGED faults
    BY DEF Next, Socket, Open, Receive, Close, Timer, FirePoll, FireStale, FireReconnect,
           FireHiddenClose, Browser, Hide, Show, Online, Server, Publish, Push, GoSilent, Answer,
           AnswerNotFound, AnswerFails, Settle, vars
  <2>2. CASE Fault
    BY <1>t, <2>2, BoundsAssumption DEF Fault, TypeOK
  <2>3. CASE UNCHANGED faults
    BY <1>t, <2>3 DEF TypeOK
  <2> QED  BY <2>1, <2>2, <2>3
<1>4. current' \in Versions \cup {0}
  <2>1. CASE Receive
    BY <1>t, <2>1 DEF Receive, TypeOK
  <2>2. ASSUME NEW r \in Requests, Settle(r) PROVE current' \in Versions \cup {0}
    <3>1. request[r] \in [at : {"answered"}, resume : BOOLEAN, reply : Replies]
      BY <1>t, <2>2, RequestTypes DEF Settle, RequestStates, Idle
    <3>2. request[r].reply \in Replies
      BY <3>1
    <3>3. request[r].reply[2] = "ok" => request[r].reply[1] \in Versions
      BY <3>2 DEF Replies
    <3> QED  BY <1>t, <2>2, <3>3 DEF Settle, TypeOK
  <2> QED
    BY <1>t, <2>1, <2>2
       DEF Next, Socket, Open, Close, Timer, FirePoll, FireStale, FireReconnect,
           FireHiddenClose, Browser, Hide, Show, Online, Server, Publish, Push, GoSilent, Answer,
           AnswerNotFound, AnswerFails, page, vars, TypeOK
<1> QED  BY <1>1, <1>2, <1>3, <1>4 DEF TypeOK, Sound, RequestStates, WireStates

(* Something that will bring news.                                         *)
Served(c) == c.socket = "open" /\ "stale" \in c.timers
Asked == \E r \in Requests : request[r] # Idle /\ request[r].resume
Watchful(c) == c.socket = "none" => "reconnect" \in c.timers

LEMMA StrandedStep == ClientInv /\ [Next]_vars => NeverStranded'
<1> SUFFICES ASSUME ClientInv, [Next]_vars, visibility' = "visible", ~client'.unavailable
             PROVE  /\ Served(client') \/ "poll" \in client'.timers \/ Asked'
                    /\ Watchful(client')
  BY DEF NeverStranded, Served, Asked, Watchful
<1>t. TypeOK /\ Sound(client) /\ client \in Client /\ request \in [Requests -> RequestStates]
  BY SoundNow, RequestTypes DEF ClientInv, Sound
<1>n. visibility = "visible" /\ ~client.unavailable =>
        /\ Served(client) \/ "poll" \in client.timers \/ Asked
        /\ Watchful(client)
  BY DEF ClientInv, NeverStranded, Served, Asked, Watchful
<1>k. (\A r \in Requests : request[r] # Idle => request'[r] = request[r]) => (Asked => Asked')
  BY DEF Asked
<1>1. CASE Open
  BY <1>t, <1>1 DEF Open, Served, Watchful, Client
<1>2. CASE Receive
  BY <1>t, <1>n, <1>k, <1>2 DEF Receive, Served, Watchful, Client
<1>3. ASSUME NEW c \in Client, client' = HandleSocketLost(c)
      PROVE  "poll" \in client'.timers /\ Watchful(client')
  <2>1. ~c.unavailable
    BY <1>3, Losing
  <2> QED  BY <1>3, <2>1, Losing DEF Watchful
<1>4. CASE Close
  BY <1>t, <1>3, <1>4 DEF Close
<1>5. CASE FirePoll
  <2>1. /\ client'.unavailable = client.unavailable /\ client'.socket = client.socket
        /\ client'.timers = client.timers \ {"poll"}
    BY <1>t, <1>5, Clearing DEF FirePoll
  <2>2. visibility = "visible" /\ Watchful(client')
    BY <1>n, <1>5, <2>1 DEF FirePoll, Watchful
  <2>3. CASE client.socket = "open"
    BY <1>t, <2>1, <2>2, <2>3 DEF Sound, Served
  <2>4. CASE client.socket # "open"
    <3>1. Seed(TRUE)
      BY <1>5, <2>1, <2>2, <2>4, Clearing, <1>t DEF FirePoll
    <3> QED  BY <1>t, <2>2, <3>1, Seeding DEF Asked
  <2> QED  BY <2>2, <2>3, <2>4
<1>6. CASE FireStale
  BY <1>t, <1>3, <1>6, Clearing DEF FireStale
<1>7. CASE FireReconnect
  <2>1. PICK refused \in Refusals : client' = Connect(ClearTimers(client, {"reconnect"}), refused)
    BY <1>7 DEF FireReconnect
  <2> DEFINE c == ClearTimers(client, {"reconnect"})
  <2>2. c \in Client /\ c.unavailable = client.unavailable /\ c.socket = client.socket
    BY <1>t, Clearing
  <2>3. refused \in BOOLEAN /\ (c.unavailable => c.socket = "none")
    BY <1>t, <2>2, RefusalsType DEF Sound
  <2>4. client' = Connect(c, refused)
    BY <2>1
  <2> HIDE DEF c
  <2>5. client'.unavailable = c.unavailable
    BY <2>2, <2>3, <2>4, Connecting
  <2> QED  BY <2>2, <2>3, <2>4, <2>5, Connecting DEF Watchful
<1>8. CASE FireHiddenClose
  <2>1. visibility = "visible"
    BY <1>8 DEF FireHiddenClose
  <2>2. client' = ClearTimers(client, {"hiddenClose"}) /\ UNCHANGED request
    BY <1>8, <2>1 DEF FireHiddenClose
  <2>3. /\ client'.unavailable = client.unavailable /\ client'.socket = client.socket
        /\ client'.timers = client.timers \ {"hiddenClose"}
    BY <1>t, <2>2, Clearing
  <2> QED  BY <1>n, <1>k, <2>1, <2>2, <2>3 DEF Served, Watchful
<1>9. CASE Hide
  BY <1>9 DEF Hide
<1>10. ASSUME NEW c \in Client, c.unavailable => c.socket = "none", ReconnectNow(c)
       PROVE  "poll" \in client'.timers /\ Watchful(client')
  <2>1. ~c.unavailable
    BY <1>t, <1>10, Reconnected
  <2> QED  BY <1>t, <1>10, <2>1, Reconnected DEF Watchful
<1>11. CASE Show
  <2> DEFINE c == ClearTimers(client, {"hiddenClose"})
  <2>1. c \in Client /\ c.unavailable = client.unavailable /\ c.socket = client.socket
        /\ c.timers = client.timers \ {"hiddenClose"}
    BY <1>t, Clearing
  <2>2. IF c.socket = "none" THEN ReconnectNow(c) ELSE client' = SchedulePoll(c)
    BY <1>11 DEF Show
  <2> HIDE DEF c
  <2>3. CASE c.socket = "none"
    BY <1>10, <2>1, <2>2, <2>3
  <2>4. CASE c.socket # "none"
    <3>1. client' = SchedulePoll(c)
      BY <2>2, <2>4
    <3>2. ~c.unavailable /\ client'.socket = c.socket
      BY <2>1, <3>1, Polling
    <3>3. CASE c.socket = "open"
      <4>1. client'.timers = c.timers /\ "stale" \in c.timers
        BY <1>t, <2>1, <3>1, <3>3, Polling DEF Sound
      <4> QED  BY <2>4, <3>2, <3>3, <4>1 DEF Served, Watchful
    <3>4. CASE c.socket # "open"
      <4>1. client'.timers = c.timers \cup {"poll"}
        BY <2>1, <3>1, <3>2, <3>4, Polling
      <4> QED  BY <2>4, <3>2, <4>1 DEF Watchful
    <3> QED  BY <3>3, <3>4
  <2> QED  BY <2>3, <2>4
<1>12. CASE Online
  BY <1>t, <1>10, <1>12 DEF Online, Sound
<1>13. ASSUME NEW r \in Requests, Settle(r)
       PROVE  /\ Served(client') \/ "poll" \in client'.timers \/ Asked'
              /\ Watchful(client')
  <2> DEFINE off == [client EXCEPT !.unavailable = TRUE]
             away == ClearTimers(CloseSocket(off), {"reconnect", "poll"})
  <2>1. request[r] # Idle /\ \A q \in Requests \ {r} : request'[q] = request[q]
    <3>1. request[r].at = "answered" /\ Idle.at = "idle"
      BY <1>13 DEF Settle, Idle
    <3> QED  BY <1>t, <1>13, <3>1 DEF Settle
  <2>2. request[r].reply[2] # "404"
    <3>1. off \in Client /\ off.unavailable
      BY <1>t DEF Client
    <3>2. CloseSocket(off) \in Client /\ CloseSocket(off).unavailable
      <4> HIDE DEF off
      <4> QED  BY <3>1, Closing
    <3>3. away \in Client /\ away.unavailable
      <4> DEFINE closed == CloseSocket(off)
      <4> HIDE DEF closed
      <4> QED  BY <3>2, Clearing DEF closed
    <3>4. request[r].reply[2] = "404" => client' = IF request[r].resume THEN SchedulePoll(away) ELSE away
      BY <1>13 DEF Settle
    <3> HIDE DEF away
    <3> QED  BY <3>3, <3>4, Polling
  <2>3. client' = IF request[r].resume THEN SchedulePoll(client) ELSE client
    BY <1>13, <2>2 DEF Settle
  <2>4. client'.unavailable = client.unavailable /\ client'.socket = client.socket
        /\ client.timers \subseteq client'.timers
    BY <1>t, <2>3, Polling
  <2>5. visibility = "visible" /\ ~client.unavailable /\ Watchful(client')
    BY <1>n, <1>13, <2>4 DEF Settle, Watchful
  <2>6. CASE request[r].resume
    <3>1. CASE client.socket = "open"
      BY <1>t, <2>4, <2>5, <3>1 DEF Sound, Served
    <3>2. CASE client.socket # "open"
      <4>1. client'.timers = client.timers \cup {"poll"}
        BY <1>t, <2>3, <2>5, <2>6, <3>2, Polling
      <4> QED  BY <2>5, <4>1
    <3> QED  BY <3>1, <3>2
  <2>7. CASE ~request[r].resume
    <3>1. Asked => Asked'
      BY <2>1, <2>7 DEF Asked
    <3> QED  BY <1>n, <2>4, <2>5, <3>1 DEF Served
  <2> QED  BY <2>6, <2>7
<1>14. ASSUME NEW r \in Requests, Answer(r) \/ AnswerNotFound(r) \/ AnswerFails(r)
       PROVE  (Asked => Asked') /\ UNCHANGED <<visibility, client>>
  <2>1. UNCHANGED <<visibility, client>>
    BY <1>14 DEF Answer, AnswerNotFound, AnswerFails, page
  <2>2. /\ <<latest, "ok">> \in Replies /\ <<0, "404">> \in Replies /\ <<0, "failed">> \in Replies
    BY <1>t DEF TypeOK, Replies
  <2>3. request[r].at = "sent"
        /\ \E reply \in Replies : request' = [request EXCEPT ![r] = Answered(r, reply)]
    BY <1>14, <2>2 DEF Answer, AnswerNotFound, AnswerFails
  <2>4. PICK reply \in Replies : request' = [request EXCEPT ![r] = Answered(r, reply)]
    BY <2>3
  <2>5. request'[r] # Idle /\ request'[r].resume = request[r].resume
        /\ \A q \in Requests \ {r} : request'[q] = request[q]
    BY <1>t, <2>3, <2>4, AnsweredType
  <2> QED  BY <2>1, <2>5 DEF Asked
<1>15. CASE UNCHANGED <<visibility, client, request>>
  BY <1>n, <1>k, <1>15
<1>16. CASE Server
  BY <1>n, <1>14, <1>15, <1>16 DEF Server, Publish, Push, GoSilent, page
<1> QED
  BY <1>1, <1>2, <1>4, <1>5, <1>6, <1>7, <1>8, <1>9, <1>11, <1>12, <1>13, <1>15, <1>16
     DEF Next, Socket, Timer, Browser, vars

LEMMA Invariant == Spec => []ClientInv
<1>1. Init => ClientInv
  BY ClientInitInv
<1>2. ClientInv /\ [Next]_vars => ClientInv'
  BY ClientStep, TypeStep, StrandedStep DEF ClientInv, Watched, DisabledForGood, Sound
<1> QED  BY <1>1, <1>2, PTL DEF Spec, SafeSpec

(* Every value keeps its type; the stale timer is armed only while a       *)
(* socket is open.                                                         *)
THEOREM ClientTypes == Spec => []TypeOK
BY Invariant, PTL DEF ClientInv

(* A visible tab that is not switched off always has an open socket that   *)
(* is watched, a poll, or a request a poll follows, and one without a      *)
(* socket will try to get one.                                             *)
THEOREM ClientNeverStranded == Spec => []NeverStranded
BY Invariant, PTL DEF ClientInv

(* After the 404 neither a socket nor a timer is left that calls the       *)
(* server.                                                                 *)
THEOREM ClientDisabledForGood == Spec => []DisabledForGood
BY Invariant, PTL DEF ClientInv

-----------------------------------------------------------------------------
(***************************************************************************)

Pips == [window : Windows \cup {Null}, embed : Sources \cup {Null},
         open : BOOLEAN, selected : Sources \cup {Null}]

Players == [pip : Pips, native : Windows \cup {Null}, plays : [Windows -> Sources \cup {Null}],
            leaving : SUBSET Windows]

\* A player whose state knows the native window, and what it plays, or neither.
Knows(p) ==
    /\ p \in Players
    /\ p.native \notin p.leaving
    /\ p.pip.window \in {Null, p.native}
    /\ p.pip.window = Null => p.pip.embed = Null
    /\ p.pip.embed # Null => p.plays[p.native] = p.pip.embed

\* It plays a source of the snapshot.
Follows(p, s) == p.native # Null => p.plays[p.native] \in s.sources

\* What is dismissed is a session that the user dismissed.
DismissedByUser == dismissed # Null => \E x \in silenced : dismissed = <<"session", x>>

PageTypes ==
    /\ noticeCurrent \in Snapshots
    /\ dismissed \in Keys \cup {Null}
    /\ videos \in BOOLEAN
    /\ pipOpening \in 0 .. MaxWindows

NoticeInv ==
    /\ PageTypes
    /\ Knows(Player) /\ Follows(Player, noticeCurrent)
    /\ HeaderAgrees
    /\ DismissedByUser

USE NullAssumption

(* getPipWindow leaves the native window known. *)
LEMMA PicksUp ==
  ASSUME NEW p, Knows(p)
  PROVE  LET q == GetPipWindow(p)
         IN  /\ Knows(q) /\ q.pip.window = p.native
             /\ q.native = p.native /\ q.plays = p.plays /\ q.leaving = p.leaving
<1> DEFINE q == GetPipWindow(p)
<1> SUFFICES Knows(q) /\ q.pip.window = p.native
             /\ q.native = p.native /\ q.plays = p.plays /\ q.leaving = p.leaving
  OBVIOUS
<1>1. CASE p.native # Null /\ p.pip.window # p.native
  <2>1. q = [p EXCEPT !.pip.window = p.native]
    BY <1>1 DEF GetPipWindow
  <2>2. p.pip.window = Null /\ p.pip.embed = Null /\ p.native \in Windows
    BY <1>1 DEF Knows, Players, Pips
  <2>3. /\ q \in Players /\ q.pip.window = p.native /\ q.pip.embed = p.pip.embed
        /\ q.native = p.native /\ q.plays = p.plays /\ q.leaving = p.leaving
    BY <2>1, <2>2 DEF Knows, Players, Pips
  <2> HIDE DEF q
  <2> QED BY <2>2, <2>3 DEF Knows
<1>2. CASE ~(p.native # Null /\ p.pip.window # p.native)
  <2>1. q = p /\ p.pip.window = p.native
    BY <1>2 DEF GetPipWindow, Knows
  <2> HIDE DEF q
  <2> QED BY <2>1
<1> QED BY <1>1, <1>2

(* A player the page has forgotten is in order, whatever still plays. *)
LEMMA Forgets ==
  ASSUME NEW p \in Players, p.native \notin p.leaving
  PROVE  /\ Knows(ClearPipState(p))
         /\ ClearPipState(p).native = p.native /\ ClearPipState(p).plays = p.plays
<1> DEFINE none == [window |-> Null, embed |-> Null, open |-> FALSE, selected |-> Null]
<1>1. none \in Pips /\ none.window = Null /\ none.embed = Null
  BY DEF Pips
<1>2. ClearPipState(p) = [p EXCEPT !.pip = none]
  BY DEF ClearPipState
<1> HIDE DEF none
<1>3. /\ ClearPipState(p) \in Players /\ ClearPipState(p).pip = none
      /\ ClearPipState(p).native = p.native /\ ClearPipState(p).plays = p.plays
      /\ ClearPipState(p).leaving = p.leaving
  BY <1>1, <1>2 DEF Players
<1> QED BY <1>1, <1>3 DEF Knows

(* A live snapshot has a source to choose. *)
LEMMA ChoosesLive ==
  ASSUME NEW s \in Snapshots, IsLive(s), NEW requested
  PROVE  ChooseSource(s, requested) \in s.sources /\ ChooseSource(s, requested) \in Sources
BY SnapshotsAssumption DEF ChooseSource, IsLive

(* What renderPip makes of any player plays a source of the snapshot. *)
LEMMA Renders ==
  ASSUME NEW p, Knows(p), NEW s \in Snapshots
  PROVE  Knows(RenderPip(p, s)) /\ Follows(RenderPip(p, s), s)
<1> DEFINE q == GetPipWindow(p)
           source == ChooseSource(s, q.pip.selected)
           r == RenderPip(p, s)
<1>1. Knows(q) /\ q.pip.window = q.native
  BY PicksUp
<1>2. r = IF q.pip.window = Null THEN [q EXCEPT !.pip.open = FALSE]
          ELSE IF ~IsLive(s) THEN ClearPipState([q EXCEPT !.native = Null,
                                                          !.leaving = @ \cup {q.pip.window}])
          ELSE [q EXCEPT !.pip.embed = source, !.pip.selected = source, !.pip.open = TRUE,
                         !.plays[q.pip.window] = IF q.pip.embed = source THEN @ ELSE source]
  BY DEF RenderPip
<1>3. IsLive(s) => source \in s.sources /\ source \in Sources
  BY ChoosesLive
<1> HIDE DEF q, source, r
<1>4. CASE q.pip.window = Null
  <2>1. r = [q EXCEPT !.pip.open = FALSE]
    BY <1>2, <1>4
  <2>2. /\ r \in Players /\ r.pip.window = q.pip.window /\ r.pip.embed = q.pip.embed
        /\ r.native = q.native /\ r.plays = q.plays /\ r.leaving = q.leaving
    BY <1>1, <2>1 DEF Knows, Players, Pips
  <2> QED BY <1>1, <1>4, <2>2 DEF Knows, Follows, r
<1>5. CASE q.pip.window # Null /\ ~IsLive(s)
  <2> DEFINE closed == [q EXCEPT !.native = Null, !.leaving = @ \cup {q.pip.window}]
  <2>1. closed \in Players /\ closed.native = Null /\ Null \notin closed.leaving
    BY <1>1, <1>5 DEF Knows, Players, Pips
  <2>2. r = ClearPipState(closed)
    BY <1>2, <1>5
  <2> HIDE DEF closed
  <2> QED BY <2>1, <2>2, Forgets DEF Follows, r
<1>6. CASE q.pip.window # Null /\ IsLive(s)
  <2> DEFINE w == q.native
             shows == [q.plays EXCEPT ![w] = source]
  <2>1. w \in Windows /\ source \in Sources /\ source \in s.sources /\ source # Null
    BY <1>1, <1>3, <1>6 DEF Knows, Players
  <2>2. q.plays[w] = source \/ q.pip.embed # source
    BY <1>1, <2>1 DEF Knows
  <2>3. q.plays \in [Windows -> Sources \cup {Null}]
    BY <1>1 DEF Knows, Players
  <2>4. [q.plays EXCEPT ![w] = IF q.pip.embed = source THEN @ ELSE source] = shows
    BY <2>1, <2>2, <2>3
  <2>5. r = [q EXCEPT !.pip.embed = source, !.pip.selected = source, !.pip.open = TRUE, !.plays = shows]
    BY <1>1, <1>2, <1>6, <2>4 DEF Knows, Players
  <2>6. shows \in [Windows -> Sources \cup {Null}] /\ shows[w] = source
    BY <2>1, <2>3
  <2> HIDE DEF w, shows
  <2>7. /\ r \in Players /\ r.pip.window = w /\ r.pip.embed = source
        /\ r.native = w /\ r.plays = shows /\ r.leaving = q.leaving
    BY <1>1, <2>1, <2>5, <2>6 DEF Knows, Players, Pips, w
  <2> QED BY <1>1, <2>1, <2>6, <2>7 DEF Knows, Follows, r, w
<1> QED BY <1>4, <1>5, <1>6 DEF r

(* The variables of the player are what a function of it returned. *)
LEMMA PlayerNow ==
  ASSUME NEW p \in Players,
         pip' = p.pip, native' = p.native, plays' = p.plays, leaving' = p.leaving
  PROVE  Player' = p
BY DEF Player, Players

(* Publishing a change of the player leaves the header right. *)
LEMMA PublishesHeader ==
  ASSUME NEW p, HeaderAgrees, Becomes(p), UNCHANGED <<noticeCurrent, dismissed, videos>>
  PROVE  HeaderAgrees'
BY DEF HeaderAgrees, Becomes, Synced

(* Only sessions are dismissed: a live snapshot has one. *)
LEMMA KeyIsSession ==
  ASSUME NEW s \in Snapshots, LiveNotificationKey(s) # Null
  PROVE  IsLive(s) /\ LiveNotificationKey(s) = <<"session", s.session>> /\ s.session # Null
BY SnapshotsAssumption DEF LiveNotificationKey, IsLive

(* The initial states satisfy the inductive invariant. *)
LEMMA NoticeInitInv == NoticeInit => NoticeInv
<1> SUFFICES ASSUME NoticeInit PROVE NoticeInv
  OBVIOUS
<1>1. NoticeIdle \in Snapshots
  BY SnapshotsAssumption DEF NoticeIdle, IsLive
<1>2. PageTypes
  BY <1>1, WindowsAssumption DEF NoticeInit, PageTypes
<1>3. Player \in Players
  BY DEF NoticeInit, Player, Players, Pips
<1>4. Knows(Player) /\ Follows(Player, noticeCurrent)
  BY <1>3 DEF NoticeInit, Knows, Follows, Player
<1> QED BY <1>2, <1>4 DEF NoticeInit, NoticeInv, HeaderAgrees, DismissedByUser

(* Every step keeps the inductive invariant. *)
LEMMA NoticeInvStep == NoticeInv /\ [NoticeNext]_noticeVars => NoticeInv'
<1> SUFFICES ASSUME NoticeInv, [NoticeNext]_noticeVars PROVE NoticeInv'
  OBVIOUS
<1>0. PageTypes /\ Knows(Player) /\ Follows(Player, noticeCurrent) /\ HeaderAgrees /\ DismissedByUser
  BY DEF NoticeInv
<1>a. /\ Player.pip = pip /\ Player.native = native /\ Player.plays = plays /\ Player.leaving = leaving
      /\ Player \in Players
  BY <1>0 DEF Player, Knows
<1>1. ASSUME NEW s \in Snapshots, ApplySnapshot(s) PROVE NoticeInv'
  <2> DEFINE p == RenderPip(Player, s)
  <2>1. /\ noticeCurrent' = s /\ dismissed' = (IF IsLive(s) THEN dismissed ELSE Null)
        /\ pip' = p.pip /\ native' = p.native /\ plays' = p.plays /\ leaving' = p.leaving
        /\ header' = Synced(s, dismissed', videos, p.pip.open)
        /\ UNCHANGED <<videos, pipOpening, silenced>>
    BY <1>1 DEF ApplySnapshot
  <2>2. Knows(p) /\ Follows(p, s)
    BY <1>0, Renders
  <2> HIDE DEF p
  <2>3. Player' = p
    BY <2>1, <2>2, PlayerNow DEF Knows
  <2>4. PageTypes' /\ DismissedByUser'
    BY <1>0, <2>1 DEF PageTypes, DismissedByUser
  <2> QED BY <2>1, <2>2, <2>3, <2>4 DEF NoticeInv, HeaderAgrees, Knows, Follows
<1>2. CASE DismissLiveNotification
  <2>1. /\ LiveNotificationKey(noticeCurrent) # Null
        /\ dismissed' = LiveNotificationKey(noticeCurrent)
        /\ header' = Synced(noticeCurrent, dismissed', videos, pip.open)
        /\ silenced' = silenced \cup {noticeCurrent.session}
        /\ UNCHANGED <<noticeCurrent, videos, pip, native, plays, pipOpening, leaving>>
    BY <1>2 DEF DismissLiveNotification
  <2>2. dismissed' = <<"session", noticeCurrent.session>> /\ dismissed' \in Keys
    BY <1>0, <2>1, KeyIsSession DEF PageTypes, Keys
  <2>3. Player' = Player
    BY <2>1 DEF Player
  <2>4. PageTypes' /\ DismissedByUser' /\ HeaderAgrees'
    BY <1>0, <2>1, <2>2 DEF PageTypes, DismissedByUser, HeaderAgrees
  <2> QED BY <1>0, <2>1, <2>3, <2>4 DEF NoticeInv, Knows, Follows
<1>3. CASE Navigate
  <2> DEFINE p == GetPipWindow(Player)
             now == [p EXCEPT !.pip.open = p.pip.window # Null]
  <2>1. /\ videos' \in BOOLEAN /\ pip' = [p.pip EXCEPT !.open = p.pip.window # Null]
        /\ header' = Synced(noticeCurrent, dismissed, videos', pip'.open)
        /\ UNCHANGED <<noticeCurrent, dismissed, native, plays, pipOpening, leaving, silenced>>
    BY <1>3 DEF Navigate
  <2>2. Knows(p) /\ p.native = native /\ p.plays = plays /\ p.leaving = leaving
    BY <1>0, <1>a, PicksUp
  <2> HIDE DEF p
  <2>3. /\ now \in Players /\ now.pip = [p.pip EXCEPT !.open = p.pip.window # Null]
        /\ now.pip.window = p.pip.window /\ now.pip.embed = p.pip.embed
        /\ now.native = native /\ now.plays = plays /\ now.leaving = leaving
    BY <2>2 DEF Knows, Players, Pips
  <2> HIDE DEF now
  <2>4. Player' = now
    BY <2>1, <2>3, PlayerNow
  <2>5. Knows(now) /\ Follows(now, noticeCurrent)
    BY <1>0, <1>a, <2>2, <2>3 DEF Knows, Follows
  <2>6. PageTypes' /\ DismissedByUser' /\ HeaderAgrees'
    BY <1>0, <2>1 DEF PageTypes, DismissedByUser, HeaderAgrees
  <2> QED BY <2>1, <2>4, <2>5, <2>6 DEF NoticeInv, Knows, Follows
<1>4. ASSUME NEW p, Knows(p), Follows(p, noticeCurrent), Becomes(p),
             UNCHANGED <<noticeCurrent, dismissed, videos, silenced>>, pipOpening' \in 0 .. MaxWindows
      PROVE  NoticeInv'
  <2>1. Player' = p
    BY <1>4, PlayerNow DEF Becomes, Knows
  <2>2. HeaderAgrees'
    BY <1>0, <1>4, PublishesHeader
  <2>3. PageTypes' /\ DismissedByUser'
    BY <1>0, <1>4 DEF PageTypes, DismissedByUser
  <2> QED BY <1>4, <2>1, <2>2, <2>3 DEF NoticeInv, Knows, Follows
<1>5. ASSUME NEW source \in Sources, OpenExisting(source) PROVE NoticeInv'
  <2> DEFINE wanted == [Player EXCEPT !.pip.selected = source]
  <2>1. /\ wanted \in Players /\ wanted.pip.window = pip.window /\ wanted.pip.embed = pip.embed
        /\ wanted.native = native /\ wanted.plays = plays /\ wanted.leaving = leaving
    BY <1>a DEF Players, Pips
  <2>2. Becomes(RenderPip(wanted, noticeCurrent))
        /\ UNCHANGED <<noticeCurrent, dismissed, videos, pipOpening, silenced>>
    BY <1>5 DEF OpenExisting
  <2> HIDE DEF wanted
  <2>3. Knows(wanted)
    BY <1>0, <1>a, <2>1 DEF Knows
  <2> QED BY <1>0, <1>4, <2>2, <2>3, Renders DEF PageTypes
<1>6. ASSUME NEW source \in Sources, RequestWindow(source) PROVE NoticeInv'
  <2> DEFINE wanted == [Player EXCEPT !.pip.selected = source]
  <2>1. /\ wanted \in Players /\ wanted.pip = [pip EXCEPT !.selected = source]
        /\ wanted.pip.window = pip.window /\ wanted.pip.embed = pip.embed /\ wanted.pip.open = pip.open
        /\ wanted.native = native /\ wanted.plays = plays /\ wanted.leaving = leaving
    BY <1>a DEF Players, Pips
  <2>2. /\ pip' = [pip EXCEPT !.selected = source] /\ pipOpening < MaxWindows /\ pipOpening' = pipOpening + 1
        /\ UNCHANGED <<noticeCurrent, dismissed, videos, header, native, plays, leaving, silenced>>
    BY <1>6 DEF RequestWindow
  <2> HIDE DEF wanted
  <2>3. pipOpening' \in 0 .. MaxWindows
    BY <1>0, <2>2, WindowsAssumption DEF PageTypes
  <2>4. Becomes(wanted)
    BY <2>1, <2>2 DEF Becomes
  <2>5. Knows(wanted) /\ Follows(wanted, noticeCurrent)
    BY <1>0, <1>a, <2>1 DEF Knows, Follows
  <2> QED BY <1>4, <2>2, <2>3, <2>4, <2>5
<1>7. CASE WindowOpens
  <2>1. pipOpening > 0 /\ pipOpening' = pipOpening - 1 /\ UNCHANGED <<noticeCurrent, dismissed, videos, silenced>>
    BY <1>7 DEF WindowOpens
  <2>2. PICK w \in Windows :
          /\ w # native /\ w \notin leaving
          /\ LET old == IF native = Null THEN {} ELSE {native}
             IN  Becomes(RenderPip([pip |-> [pip EXCEPT !.window = w, !.embed = Null],
                                    native |-> w,
                                    plays |-> [plays EXCEPT ![w] = Null],
                                    leaving |-> leaving \cup old],
                                   noticeCurrent))
    BY <1>7 DEF WindowOpens
  <2> DEFINE old == IF native = Null THEN {} ELSE {native}
             fresh == [pip |-> [pip EXCEPT !.window = w, !.embed = Null],
                       native |-> w, plays |-> [plays EXCEPT ![w] = Null],
                       leaving |-> leaving \cup old]
  <2>3. Becomes(RenderPip(fresh, noticeCurrent))
    BY <2>2
  <2>4. old \subseteq Windows /\ w \notin old
    BY <1>a, <2>2 DEF Players
  <2>5. [pip EXCEPT !.window = w, !.embed = Null] \in Pips
        /\ [pip EXCEPT !.window = w, !.embed = Null].window = w
        /\ [pip EXCEPT !.window = w, !.embed = Null].embed = Null
    BY <1>a DEF Players, Pips
  <2> HIDE DEF old
  <2>6. fresh \in Players /\ fresh.native = w /\ fresh.leaving = leaving \cup old
        /\ fresh.pip.window = w /\ fresh.pip.embed = Null
    BY <1>a, <2>4, <2>5 DEF Players
  <2> HIDE DEF fresh
  <2>7. Knows(fresh)
    BY <2>2, <2>4, <2>6 DEF Knows
  <2>8. pipOpening' \in 0 .. MaxWindows
    BY <1>0, <2>1, WindowsAssumption DEF PageTypes
  <2> QED BY <1>0, <1>4, <2>1, <2>3, <2>7, <2>8, Renders DEF PageTypes
<1>8. CASE WindowRefused
  <2>1. pipOpening > 0 /\ pipOpening' = pipOpening - 1
        /\ UNCHANGED <<noticeCurrent, dismissed, videos, header, pip, native, plays, leaving, silenced>>
    BY <1>8 DEF WindowRefused
  <2>2. pipOpening' \in 0 .. MaxWindows
    BY <1>0, <2>1, WindowsAssumption DEF PageTypes
  <2>3. Becomes(Player)
    BY <1>a, <2>1 DEF Becomes
  <2> QED BY <1>0, <1>4, <2>1, <2>2, <2>3
<1>9. CASE UserCloses
  <2> DEFINE closed == [Player EXCEPT !.native = Null]
  <2>1. closed \in Players /\ closed.native = Null /\ Null \notin closed.leaving
    BY <1>a DEF Players
  <2>2. Becomes(ClearPipState(closed)) /\ UNCHANGED <<noticeCurrent, dismissed, videos, pipOpening, silenced>>
    BY <1>9 DEF UserCloses
  <2> HIDE DEF closed
  <2> QED BY <1>0, <1>4, <2>1, <2>2, Forgets DEF PageTypes, Follows
<1>10. ASSUME NEW w \in Windows, PageHide(w) PROVE NoticeInv'
  <2> DEFINE rest == [Player EXCEPT !.leaving = @ \ {w}]
  <2>1. /\ rest \in Players /\ rest.native = native /\ rest.plays = plays
        /\ rest.native \notin rest.leaving
    BY <1>0, <1>a DEF Players, Knows
  <2>2. Becomes(ClearPipState(rest)) /\ UNCHANGED <<noticeCurrent, dismissed, videos, pipOpening, silenced>>
    BY <1>10 DEF PageHide
  <2> HIDE DEF rest
  <2>3. Follows(ClearPipState(rest), noticeCurrent)
    BY <1>0, <1>a, <2>1, Forgets DEF Follows
  <2> QED BY <1>0, <1>4, <2>1, <2>2, <2>3, Forgets DEF PageTypes
<1>11. CASE UNCHANGED noticeVars
  <2>1. Becomes(Player)
    BY <1>a, <1>11 DEF Becomes, noticeVars
  <2> QED BY <1>0, <1>4, <1>11, <2>1 DEF noticeVars, PageTypes
<1> QED BY <1>1, <1>2, <1>3, <1>5, <1>6, <1>7, <1>8, <1>9, <1>10, <1>11 DEF NoticeNext, NoticeOpen

(* The inductive invariant holds in every behaviour. *)
LEMMA NoticeInvariant == NoticeSpec => []NoticeInv
BY NoticeInitInv, NoticeInvStep, PTL DEF NoticeSpec

(* What the header calls dismissed is the session of the snapshot. *)
LEMMA DismissedSession ==
  ASSUME NoticeInv, header.dismissed
  PROVE  /\ noticeCurrent.session # Null
         /\ dismissed = <<"session", noticeCurrent.session>> /\ dismissed # Null
<1>1. IsDismissed(noticeCurrent, dismissed) /\ noticeCurrent \in Snapshots
  BY DEF NoticeInv, HeaderAgrees, Synced, PageTypes
<1> QED BY <1>1, KeyIsSession DEF IsDismissed

(* After any order of snapshots, dismissals, navigations and windows the    *)
(* header shows the current state, only a dismissed session is silent, and  *)
(* the player plays a source that is live.                                  *)
THEOREM NoticeIsSafe == NoticeSpec => []NoticeSafe
<1>1. ASSUME NoticeInv PROVE NoticeTypeOK
  <2>1. header \in [live : BOOLEAN, pipOpen : BOOLEAN, dismissed : BOOLEAN]
    BY <1>1 DEF NoticeInv, HeaderAgrees, Synced, IsLive, IsDismissed, Knows, Players, Pips, Player
  <2>2. /\ pip \in Pips /\ native \in Windows \cup {Null} /\ plays \in [Windows -> Sources \cup {Null}]
        /\ leaving \subseteq Windows /\ native \notin leaving /\ (pip.window = Null => pip.embed = Null)
    BY <1>1 DEF NoticeInv, Knows, Players, Player
  <2> QED BY <1>1, <2>1, <2>2 DEF NoticeInv, PageTypes, NoticeTypeOK, Pips
<1>2. ASSUME NoticeInv PROVE HeaderAgrees /\ PlayerFollows
  BY <1>2 DEF NoticeInv, Follows, Player, PlayerFollows
<1>3. ASSUME NoticeInv PROVE OnlyDismissedIsSilent
  <2> SUFFICES ASSUME header.dismissed PROVE noticeCurrent.session \in silenced
    BY DEF OnlyDismissedIsSilent
  <2>1. PICK x \in silenced : dismissed = <<"session", x>>
    BY <1>3, DismissedSession DEF NoticeInv, DismissedByUser
  <2> QED BY <1>3, <2>1, DismissedSession
<1> QED BY <1>1, <1>2, <1>3, NoticeInvariant, PTL DEF NoticeSafe

(* A dismissal lasts for the session, whichever providers join or leave it. *)
THEOREM DismissalIsKept == NoticeSpec => DismissalLasts
<1>1. NoticeInv /\ NoticeInv' /\ [NoticeNext]_noticeVars =>
        [header.dismissed /\ noticeCurrent'.session = noticeCurrent.session => header'.dismissed]_noticeVars
  <2> SUFFICES ASSUME NoticeInv, NoticeInv', [NoticeNext]_noticeVars, header.dismissed,
                      noticeCurrent'.session = noticeCurrent.session
               PROVE  header'.dismissed
    OBVIOUS
  <2>1. noticeCurrent.session # Null /\ dismissed = <<"session", noticeCurrent.session>> /\ dismissed # Null
    BY DismissedSession
  <2>2. noticeCurrent' \in Snapshots /\ IsLive(noticeCurrent')
    BY <2>1, SnapshotsAssumption DEF NoticeInv, PageTypes, IsLive
  <2>3. LiveNotificationKey(noticeCurrent') = <<"session", noticeCurrent.session>>
    BY <2>1, <2>2 DEF LiveNotificationKey
  <2>4. CASE dismissed' = dismissed
    BY <2>1, <2>3, <2>4 DEF NoticeInv, HeaderAgrees, Synced, IsDismissed
  <2>5. CASE DismissLiveNotification
    BY <2>3, <2>5 DEF NoticeInv, HeaderAgrees, Synced, IsDismissed, DismissLiveNotification
  <2>6. ASSUME NEW s \in Snapshots, ApplySnapshot(s) PROVE dismissed' = dismissed
    BY <2>2, <2>6 DEF ApplySnapshot
  <2> QED BY <2>4, <2>5, <2>6
          DEF NoticeNext, NoticeOpen, Navigate, OpenExisting, RequestWindow, WindowOpens, WindowRefused,
              UserCloses, PageHide, noticeVars
<1> QED BY <1>1, NoticeInvariant, PTL DEF NoticeSpec, DismissalLasts

-----------------------------------------------------------------------------
(***************************************************************************)

(* A channel: frames in the order they were published, newer than low.     *)
Rising(q, low, high) ==
    /\ q \in Seq(Nat)
    /\ \A i \in 1 .. Len(q) : low < q[i] /\ q[i] <= high
    /\ \A i, j \in 1 .. Len(q) : i < j => q[i] < q[j]

\* Types, and the order of what was, is and will be sent.
Channel ==
    /\ published \in Nat /\ frame \in Nat /\ delivered \in Nat
    /\ delivered <= frame /\ frame <= published
    /\ Rising(queue, frame, published)
    /\ Len(queue) <= Capacity

Kinds ==
    /\ handler \in {"wait", "data", "beat", "ending", "closing", "acknowledging", "done"}
    /\ heartbeat \in {"waiting", "ticked"}
    /\ receive \in {"pending", "ended"}
    /\ socket \in {"Open", "CloseReceived", "CloseSent", "Closed", "Aborted"}
    /\ socketClient \in {"listening", "closed", "dropped", "silent"}

\* What the other end did, as the server can tell.
ClientTold ==
    /\ gone => socketClient = "dropped"
    /\ arriving => socketClient = "closed"
    /\ socket \in {"CloseReceived", "Closed"} => socketClient # "listening"

\* The state of the socket at each place of the handler.
SocketAt ==
    /\ receive = "pending" <=> socket \in {"Open", "CloseSent"}
    /\ handler \in {"wait", "data", "beat", "ending", "closing"}
         => socket \in {"Open", "CloseReceived", "Aborted"}
    /\ handler = "acknowledging" => socket \in {"CloseSent", "Closed", "Aborted"}
    /\ socket = "Aborted" => ~PeerAnswers \/ cut
    /\ handler = "ending" /\ socket = "Open" => Cancelled
    /\ handler \in {"closing", "acknowledging"} => closeFrame # "none"

SocketInv == Channel /\ Kinds /\ ClientTold /\ SocketAt /\ ClosedGracefully /\ ReasonIsTrue

USE SocketBoundsAssumption

(* What is left of a channel after its first frame. *)
LEMMA RisingTail ==
  ASSUME NEW q, NEW low \in Nat, NEW high \in Nat, Rising(q, low, high), q # <<>>
  PROVE  /\ Head(q) \in Nat /\ low < Head(q) /\ Head(q) <= high
         /\ Rising(Tail(q), Head(q), high) /\ Rising(Tail(q), low, high)
         /\ Len(Tail(q)) = Len(q) - 1
<1>1. Len(q) \in Nat /\ Len(q) > 0 /\ Head(q) = q[1]
  BY DEF Rising
<1>2. Tail(q) \in Seq(Nat) /\ Len(Tail(q)) = Len(q) - 1
  BY <1>1 DEF Rising
<1>3. \A i \in 1 .. Len(Tail(q)) : Tail(q)[i] = q[i + 1] /\ i + 1 \in 1 .. Len(q)
  BY <1>1, <1>2 DEF Rising
<1>4. \A i \in 1 .. Len(q) : q[i] \in Nat
  BY DEF Rising
<1> QED
  BY <1>1, <1>2, <1>3, <1>4 DEF Rising

(* A newer frame at the end of a channel. *)
LEMMA RisingAppend ==
  ASSUME NEW q, NEW low \in Nat, NEW high \in Nat, Rising(q, low, high), low <= high
  PROVE  Rising(Append(q, high + 1), low, high + 1) /\ Len(Append(q, high + 1)) = Len(q) + 1
<1>1. Append(q, high + 1) \in Seq(Nat) /\ Len(Append(q, high + 1)) = Len(q) + 1 /\ Len(q) \in Nat
  BY DEF Rising
<1>2. \A i \in 1 .. Len(q) : Append(q, high + 1)[i] = q[i] /\ q[i] \in Nat
  BY DEF Rising
<1>3. Append(q, high + 1)[Len(q) + 1] = high + 1
  BY DEF Rising
<1> QED
  BY <1>1, <1>2, <1>3 DEF Rising

(* The initial states satisfy the inductive invariant. *)
LEMMA SocketInitInv == SocketInit => SocketInv
<1> SUFFICES ASSUME SocketInit PROVE SocketInv
  OBVIOUS
<1>1. <<1>> \in Seq(Nat) /\ Len(<<1>>) = 1 /\ <<1>>[1] = 1
  OBVIOUS
<1>2. Channel
  BY <1>1 DEF SocketInit, Channel, Rising
<1> QED
  BY <1>2 DEF SocketInit, SocketInv, Kinds, ClientTold, SocketAt, ClosedGracefully, ReasonIsTrue, Cancelled

(* Every step keeps the channel and what was sent from it in order. *)
LEMMA ChannelStep == SocketInv /\ [SocketNext]_socketVars => Channel'
<1> SUFFICES ASSUME Channel, [SocketNext]_socketVars PROVE Channel'
  BY DEF SocketInv
<1>1. CASE SocketPublish
  <2> DEFINE kept == IF Len(queue) < Capacity THEN queue ELSE Tail(queue)
  <2>1. Rising(kept, frame, published) /\ Len(kept) < Capacity /\ Len(kept) \in Nat
    <3>1. CASE Len(queue) < Capacity
      BY <3>1 DEF Channel, Rising
    <3>2. CASE ~(Len(queue) < Capacity)
      <4>1. Len(queue) = Capacity /\ queue # <<>>
        BY <3>2 DEF Channel, Rising
      <4> QED
        BY <4>1, RisingTail DEF Channel, Rising
    <3> QED
      BY <3>1, <3>2
  <2>2. /\ Rising(Append(kept, published + 1), frame, published + 1)
        /\ Len(Append(kept, published + 1)) = Len(kept) + 1
    BY <2>1, RisingAppend DEF Channel
  <2> QED
    BY <1>1, <2>1, <2>2 DEF Channel, SocketPublish
<1>2. CASE StartData
  BY <1>2, RisingTail DEF Channel, StartData
<1>3. CASE DataSent
  <2>1. CASE queue # <<>> /\ frame' = Head(queue) /\ queue' = Tail(queue)
    BY <1>3, <2>1, RisingTail DEF Channel, DataSent
  <2>2. CASE queue = <<>> /\ UNCHANGED <<frame, queue>>
    BY <1>3, <2>2 DEF Channel, DataSent
  <2> QED
    BY <1>3, <2>1, <2>2 DEF DataSent
<1>4. CASE UNCHANGED <<published, frame, delivered, queue>>
  BY <1>4 DEF Channel
<1> QED
  BY <1>1, <1>2, <1>3, <1>4 DEF SocketNext, Environment, Drain, Handler, Sent, Tick, ClientAnswers,
     Expire, Stop, ClientLeaves, ConnectionLost, Gone, ReceiveClose, ReceiveFails, LoopEnds, StartBeat,
     SendCut, SendFails, NothingToClose, StartClose, Acknowledged, CloseFails, CloseTimesOut, BeatSent,
     CloseSent, socketVars

(* Every step keeps the kinds of the variables. *)
LEMMA KindsStep == SocketInv /\ [SocketNext]_socketVars => Kinds'
<1> SUFFICES ASSUME Kinds, [SocketNext]_socketVars PROVE Kinds'
  BY DEF SocketInv
<1> USE DEF Kinds, other
<1>1. CASE SocketPublish
  BY <1>1 DEF SocketPublish
<1>2. CASE Tick
  BY <1>2 DEF Tick
<1>3. CASE Expire
  BY <1>3 DEF Expire
<1>4. CASE Stop
  BY <1>4 DEF Stop
<1>5. CASE ClientLeaves
  BY <1>5 DEF ClientLeaves, SendsClose
<1>6. CASE ClientAnswers
  BY <1>6 DEF ClientAnswers, SendsClose
<1>7. CASE ConnectionLost
  BY <1>7 DEF ConnectionLost
<1>8. CASE Gone
  BY <1>8 DEF Gone, Abort
<1>9. CASE ReceiveClose
  BY <1>9 DEF ReceiveClose
<1>10. CASE ReceiveFails
  BY <1>10 DEF ReceiveFails, Abort
<1>11. CASE LoopEnds
  BY <1>11 DEF LoopEnds
<1>12. CASE StartData
  BY <1>12 DEF StartData
<1>13. CASE StartBeat
  BY <1>13 DEF StartBeat
<1>14. CASE DataSent
  BY <1>14 DEF DataSent
<1>15. CASE BeatSent
  BY <1>15 DEF BeatSent
<1>16. CASE SendCut
  BY <1>16 DEF SendCut, Abort
<1>17. CASE SendFails
  BY <1>17 DEF SendFails
<1>18. CASE NothingToClose
  BY <1>18 DEF NothingToClose, Abort
<1>19. CASE StartClose
  BY <1>19 DEF StartClose
<1>20. CASE CloseSent
  BY <1>20 DEF CloseSent
<1>21. CASE Acknowledged
  BY <1>21 DEF Acknowledged
<1>22. CASE CloseFails
  BY <1>22 DEF CloseFails
<1>23. CASE CloseTimesOut
  BY <1>23 DEF CloseTimesOut, Abort
<1>24. CASE UNCHANGED socketVars
  BY <1>24 DEF socketVars
<1> QED
  BY <1>1, <1>2, <1>3, <1>4, <1>5, <1>6, <1>7, <1>8, <1>9, <1>10, <1>11, <1>12, <1>13, <1>14, <1>15,
     <1>16, <1>17, <1>18, <1>19, <1>20, <1>21, <1>22, <1>23, <1>24
     DEF SocketNext, Environment, Drain, Handler, Sent

(* Every step keeps what the server can tell of the other end. *)
LEMMA FarEndStep == SocketInv /\ [SocketNext]_socketVars => ClientTold'
<1> SUFFICES ASSUME ClientTold, [SocketNext]_socketVars PROVE ClientTold'
  BY DEF SocketInv
<1> USE DEF ClientTold, cancellations, other
<1>1. CASE SocketPublish
  BY <1>1 DEF SocketPublish
<1>2. CASE Tick
  BY <1>2 DEF Tick
<1>3. CASE Expire
  BY <1>3 DEF Expire
<1>4. CASE Stop
  BY <1>4 DEF Stop
<1>5. CASE ClientLeaves
  BY <1>5 DEF ClientLeaves, SendsClose
<1>6. CASE ClientAnswers
  BY <1>6 DEF ClientAnswers, SendsClose
<1>7. CASE ConnectionLost
  BY <1>7 DEF ConnectionLost, PeerAnswers
<1>8. CASE Gone
  BY <1>8 DEF Gone, Abort
<1>9. CASE ReceiveClose
  BY <1>9 DEF ReceiveClose
<1>10. CASE ReceiveFails
  BY <1>10 DEF ReceiveFails, Abort
<1>11. CASE LoopEnds
  BY <1>11 DEF LoopEnds
<1>12. CASE StartData
  BY <1>12 DEF StartData
<1>13. CASE StartBeat
  BY <1>13 DEF StartBeat
<1>14. CASE DataSent
  BY <1>14 DEF DataSent
<1>15. CASE BeatSent
  BY <1>15 DEF BeatSent
<1>16. CASE SendCut
  BY <1>16 DEF SendCut, Abort
<1>17. CASE SendFails
  BY <1>17 DEF SendFails
<1>18. CASE NothingToClose
  BY <1>18 DEF NothingToClose, Abort
<1>19. CASE StartClose
  BY <1>19 DEF StartClose
<1>20. CASE CloseSent
  BY <1>20 DEF CloseSent, Closable
<1>21. CASE Acknowledged
  BY <1>21 DEF Acknowledged
<1>22. CASE CloseFails
  BY <1>22 DEF CloseFails
<1>23. CASE CloseTimesOut
  BY <1>23 DEF CloseTimesOut, Abort
<1>24. CASE UNCHANGED socketVars
  BY <1>24 DEF socketVars
<1> QED
  BY <1>1, <1>2, <1>3, <1>4, <1>5, <1>6, <1>7, <1>8, <1>9, <1>10, <1>11, <1>12, <1>13, <1>14, <1>15,
     <1>16, <1>17, <1>18, <1>19, <1>20, <1>21, <1>22, <1>23, <1>24
     DEF SocketNext, Environment, Drain, Handler, Sent

(* Every step keeps what is known of the socket and the reason. *)
LEMMA CloseStep ==
  SocketInv /\ [SocketNext]_socketVars
    => SocketAt' /\ ClosedGracefully' /\ ReasonIsTrue'
<1> SUFFICES ASSUME Kinds, ClientTold, SocketAt, ClosedGracefully, ReasonIsTrue, [SocketNext]_socketVars
             PROVE  SocketAt' /\ ClosedGracefully' /\ ReasonIsTrue'
  BY DEF SocketInv
<1> USE DEF Kinds, ClientTold, SocketAt, ClosedGracefully, ReasonIsTrue, Cancelled, PeerAnswers, cancellations, other
<1>1. CASE SocketPublish \/ Tick \/ Expire \/ Stop
  <2>1. SocketAt'
    BY <1>1 DEF SocketPublish, Tick, Expire, Stop
  <2>2. ClosedGracefully'
    BY <1>1 DEF SocketPublish, Tick, Expire, Stop
  <2>3. ReasonIsTrue'
    BY <1>1 DEF SocketPublish, Tick, Expire, Stop
  <2> QED
    BY <2>1, <2>2, <2>3
<1>2. CASE ClientLeaves \/ ClientAnswers \/ ConnectionLost
  <2>1. SocketAt'
    BY <1>2 DEF ClientLeaves, ClientAnswers, ConnectionLost, SendsClose
  <2>2. ClosedGracefully'
    BY <1>2 DEF ClientLeaves, ClientAnswers, ConnectionLost, SendsClose
  <2>3. ReasonIsTrue'
    BY <1>2 DEF ClientLeaves, ClientAnswers, ConnectionLost, SendsClose
  <2> QED
    BY <2>1, <2>2, <2>3
<1>3. CASE Gone
  <2>1. SocketAt'
    BY <1>3 DEF Gone, Abort
  <2>2. ClosedGracefully'
    BY <1>3 DEF Gone, Abort
  <2>3. ReasonIsTrue'
    BY <1>3 DEF Gone, Abort
  <2> QED
    BY <2>1, <2>2, <2>3
<1>4. CASE Drain
  <2>1. SocketAt'
    BY <1>4 DEF Drain, ReceiveClose, ReceiveFails, Abort
  <2>2. ClosedGracefully'
    BY <1>4 DEF Drain, ReceiveClose, ReceiveFails, Abort
  <2>3. ReasonIsTrue'
    BY <1>4 DEF Drain, ReceiveClose, ReceiveFails, Abort
  <2> QED
    BY <2>1, <2>2, <2>3
<1>5. CASE LoopEnds \/ StartData \/ StartBeat
  <2>1. SocketAt'
    BY <1>5 DEF LoopEnds, StartData, StartBeat
  <2>2. ClosedGracefully'
    BY <1>5 DEF LoopEnds, StartData, StartBeat
  <2>3. ReasonIsTrue'
    BY <1>5 DEF LoopEnds, StartData, StartBeat
  <2> QED
    BY <2>1, <2>2, <2>3
<1>6. CASE SendCut \/ SendFails
  <2>1. SocketAt'
    BY <1>6 DEF SendCut, SendFails, Abort, Sending
  <2>2. ClosedGracefully'
    BY <1>6 DEF SendCut, SendFails, Abort, Sending
  <2>3. ReasonIsTrue'
    BY <1>6 DEF SendCut, SendFails, Abort, Sending
  <2> QED
    BY <2>1, <2>2, <2>3
<1>7. CASE NothingToClose
  <2>1. SocketAt'
    BY <1>7 DEF NothingToClose, Abort, Closable
  <2>2. ClosedGracefully'
    BY <1>7 DEF NothingToClose, Abort, Closable
  <2>3. ReasonIsTrue'
    BY <1>7 DEF NothingToClose, Abort, Closable
  <2> QED
    BY <2>1, <2>2, <2>3
<1>8. CASE StartClose
  <2>1. /\ Why = "server shutting down" => stopping
        /\ Why = "closing" => socket = "CloseReceived"
        /\ Why = "connection lifetime reached" => expired
        /\ Why # "none"
    BY <1>8 DEF StartClose, Why, Closable
  <2>2. SocketAt'
    BY <1>8, <2>1 DEF StartClose, Closable
  <2>3. ClosedGracefully'
    BY <1>8, <2>1 DEF StartClose, Closable
  <2>4. ReasonIsTrue'
    BY <1>8, <2>1 DEF StartClose, Closable
  <2> QED
    BY <2>2, <2>3, <2>4
<1>9. CASE Acknowledged \/ CloseFails \/ CloseTimesOut
  <2>1. SocketAt'
    BY <1>9 DEF Acknowledged, CloseFails, CloseTimesOut, Abort
  <2>2. ClosedGracefully'
    BY <1>9 DEF Acknowledged, CloseFails, CloseTimesOut, Abort
  <2>3. ReasonIsTrue'
    BY <1>9 DEF Acknowledged, CloseFails, CloseTimesOut, Abort
  <2> QED
    BY <2>1, <2>2, <2>3
<1>10. CASE Sent
  <2>1. SocketAt'
    BY <1>10 DEF Sent, DataSent, BeatSent
  <2>2. ClosedGracefully'
    BY <1>10 DEF Sent, DataSent, BeatSent
  <2>3. ReasonIsTrue'
    BY <1>10 DEF Sent, DataSent, BeatSent
  <2> QED
    BY <2>1, <2>2, <2>3
<1>11. CASE CloseSent
  <2>1. SocketAt'
    BY <1>11 DEF CloseSent, Closable
  <2>2. ClosedGracefully'
    BY <1>11 DEF CloseSent, Closable
  <2>3. ReasonIsTrue'
    BY <1>11 DEF CloseSent, Closable
  <2> QED
    BY <2>1, <2>2, <2>3
<1>12. CASE UNCHANGED socketVars
  <2>1. SocketAt'
    BY <1>12 DEF socketVars
  <2>2. ClosedGracefully'
    BY <1>12 DEF socketVars
  <2>3. ReasonIsTrue'
    BY <1>12 DEF socketVars
  <2> QED
    BY <2>1, <2>2, <2>3
<1> QED
  BY <1>1, <1>2, <1>3, <1>4, <1>5, <1>6, <1>7, <1>8, <1>9, <1>10, <1>11, <1>12
     DEF SocketNext, Environment, Handler

(* The inductive invariant says all that is claimed. *)
LEMMA InvImpliesSafe == SocketInv => SocketSafe
  BY DEF SocketInv, SocketSafe, SocketTypeOK, Channel, Kinds, SocketAt, Rising, Over

(* However a stream ends (the client leaves or is lost, the lifetime is over,  *)
(* the host stops), at whichever step of StreamWebSocket and DrainAsync, a     *)
(* client that can still read gets a close frame, and it says why; and the     *)
(* frames it got were the newest ones in order, from a bounded channel.        *)
THEOREM StreamEndsWell == SocketSpec => []SocketSafe
<1>1. SocketInv /\ [SocketNext]_socketVars => SocketInv'
  BY ChannelStep, KindsStep, FarEndStep, CloseStep DEF SocketInv
<1> QED
  BY SocketInitInv, InvImpliesSafe, <1>1, PTL DEF SocketSpec
=============================================================================
