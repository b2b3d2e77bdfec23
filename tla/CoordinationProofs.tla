------------------------- MODULE CoordinationProofs -------------------------
(***************************************************************************)
(* What the workers rely on when they coordinate through Redis.  Of the    *)
(* replica (LiveStatusReplica): its types, that no subscriber is stuck on  *)
(* a stale frame and that nothing goes backwards, for any number of        *)
(* sockets and writers and any channel capacity.  Of the leadership        *)
(* (ProviderLeadership): its types, and that at most one provider loop     *)
(* runs when every step is timely enough and Redis keeps the lease key,    *)
(* for any number of workers and other faults.                             *)
(***************************************************************************)
EXTENDS LiveStatusReplica, ProviderLeadership, TLAPS

-----------------------------------------------------------------------------
(* The replica of a worker, its channels and its browsers.                 *)

\* TryWrite keeps the channel within its capacity and ends it with the event.
LEMMA TryWriteLast ==
    ASSUME NEW channel \in Seq(Replica), Len(channel) <= QueueCapacity,
           NEW event \in Replica
    PROVE  /\ TryWrite(channel, event) \in Seq(Replica)
           /\ Len(TryWrite(channel, event)) <= QueueCapacity
           /\ TryWrite(channel, event) # <<>>
           /\ Last(TryWrite(channel, event)) = event
<1> DEFINE kept == IF Len(channel) < QueueCapacity THEN channel ELSE Tail(channel)
<1>1. kept \in Seq(Replica) /\ Len(kept) + 1 <= QueueCapacity
  <2>1. CASE Len(channel) < QueueCapacity
    BY <2>1, QueueCapacityAssumption
  <2>2. CASE ~(Len(channel) < QueueCapacity)
    <3>1. Len(channel) = QueueCapacity /\ channel # <<>>
      BY <2>2, QueueCapacityAssumption
    <3>2. QED BY <2>2, <3>1, QueueCapacityAssumption
  <2>3. QED BY <2>1, <2>2
<1>2. TryWrite(channel, event) = Append(kept, event)
  BY DEF TryWrite
<1> HIDE DEF kept
<1>3. QED BY <1>1, <1>2 DEF Last

\* Taking the head of a channel leaves its last event last.
LEMMA TailLast ==
    ASSUME NEW channel \in Seq(Replica), channel # <<>>
    PROVE  /\ Tail(channel) \in Seq(Replica)
           /\ Len(Tail(channel)) <= Len(channel)
           /\ Head(channel) \in Replica
           /\ IF Tail(channel) = <<>> THEN Head(channel) = Last(channel)
              ELSE Last(Tail(channel)) = Last(channel)
<1>1. /\ Len(channel) \in Nat \ {0}
      /\ Tail(channel) \in Seq(Replica)
      /\ Len(Tail(channel)) = Len(channel) - 1
      /\ Head(channel) = channel[1] /\ channel[1] \in Replica
  OBVIOUS
<1>2. \A i \in 1..Len(Tail(channel)) : Tail(channel)[i] = channel[i + 1]
  BY <1>1
<1>3. CASE Tail(channel) = <<>>
  <2>1. Len(channel) = 1
    BY <1>1, <1>3
  <2>2. QED BY <1>1, <1>3, <2>1 DEF Last
<1>4. CASE Tail(channel) # <<>>
  <2>1. Len(Tail(channel)) \in 1..Len(Tail(channel))
    BY <1>1, <1>4
  <2>2. Tail(channel)[Len(Tail(channel))] = channel[Len(channel)]
    BY <1>1, <1>2, <2>1
  <2>3. QED BY <1>1, <1>4, <2>2 DEF Last
<1>5. QED BY <1>3, <1>4

-----------------------------------------------------------------------------
\* The canonical state keeps its type, and what was read of it has it.
CanonicalOK ==
    /\ stored \in State \cup {Null}
    /\ nextEpoch \in Nat
    /\ messages \subseteq State

BroadcasterOK ==
    /\ current \in Replica
    /\ pending \in State \cup {Null}
    /\ timer \in BOOLEAN
    /\ queue \in [Sockets -> Seq(Replica)]
    /\ \A s \in Sockets : Len(queue[s]) <= QueueCapacity

LEMMA StatesAreReplicas == State \subseteq Replica
BY DEF State, Replica

LEMMA BaseType ==
    ASSUME CanonicalOK
    PROVE  Initial \in State /\ Base \in State
BY IdleAssumption DEF CanonicalOK, Initial, Base, State

LEMMA GetType ==
    ASSUME CanonicalOK, Get
    PROVE  stored' \in State /\ stored' # Null /\ nextEpoch' \in Nat
BY BaseType, NullAssumption DEF CanonicalOK, Get

LEMMA WriteType ==
    ASSUME CanonicalOK, Write
    PROVE  CanonicalOK' /\ stored' \in State
<1>1. PICK shown \in Shown, updatedAt \in Times :
          stored' = [epoch |-> Base.epoch, version |-> Base.version + 1,
                     snapshot |-> IF shown = Base.snapshot.shown THEN Base.snapshot
                                  ELSE [shown |-> shown, updatedAt |-> updatedAt]]
  BY DEF Write
<1>2. stored' \in State
  BY <1>1, BaseType DEF State, Snapshot
<1>3. nextEpoch' \in Nat
  BY DEF Write, CanonicalOK
<1>4. messages' \in {messages, messages \cup {stored'}}
  BY DEF Write
<1>5. QED BY <1>2, <1>3, <1>4 DEF CanonicalOK

LEMMA FlushType ==
    ASSUME BroadcasterOK, NEW next \in State, FlushLocked(next)
    PROVE  /\ current' \in Replica
           /\ pending' = Null
           /\ queue' \in [Sockets -> Seq(Replica)]
           /\ \A s \in Sockets : Len(queue'[s]) <= QueueCapacity
<1>1. next \in Replica
  BY StatesAreReplicas
<1>2. CASE next.snapshot.shown = current.snapshot.shown
  BY <1>1, <1>2 DEF FlushLocked, BroadcasterOK
<1>3. CASE next.snapshot.shown # current.snapshot.shown
  <2>1. queue' = [s \in Sockets |-> IF Subscribed(s) THEN TryWrite(queue[s], next)
                                    ELSE queue[s]]
    BY <1>3 DEF FlushLocked
  <2>2. \A s \in Sockets : /\ TryWrite(queue[s], next) \in Seq(Replica)
                           /\ Len(TryWrite(queue[s], next)) <= QueueCapacity
    BY <1>1, TryWriteLast DEF BroadcasterOK
  <2>3. QED BY <1>1, <2>1, <2>2 DEF FlushLocked, BroadcasterOK
<1>4. QED BY <1>2, <1>3

LEMMA ApplyType ==
    ASSUME BroadcasterOK, NEW state \in State,
           NEW flushImmediately \in BOOLEAN, NEW allowEpochChange \in BOOLEAN,
           ApplyState(state, flushImmediately, allowEpochChange)
    PROVE  BroadcasterOK'
<1>1. CASE UNCHANGED broadcaster
  BY <1>1 DEF BroadcasterOK, broadcaster
<1>2. CASE FlushLocked(state) /\ UNCHANGED timer
  BY <1>2, FlushType DEF BroadcasterOK
<1>3. CASE pending' = state /\ timer' = TRUE /\ UNCHANGED <<current, queue>>
  BY <1>3 DEF BroadcasterOK
<1>4. QED BY <1>1, <1>2, <1>3 DEF ApplyState

\* Where the synchronizer, the writers and the requests are.
CallersOK ==
    /\ sync \in {"subscribe", "refresh", "apply", "loop"}
    /\ syncRead \in State \cup {Null}
    /\ sync = "apply" => syncRead # Null
    /\ held \in [Writers -> State \cup {Null}]
    /\ socket \in [Sockets -> {"closed", "refresh", "apply", "accept", "open"}]
    /\ read \in [Sockets -> State \cup {Null}]
    /\ \A s \in Sockets : socket[s] = "apply" => read[s] # Null
    /\ view \in [Sockets -> Replica \cup {Null}]

TypeInv == CanonicalOK /\ BroadcasterOK /\ CallersOK

LEMMA InitTypeInv == Init => TypeInv
<1> SUFFICES ASSUME Init PROVE TypeInv
  OBVIOUS
<1>1. CanonicalOK
  BY DEF Init, CanonicalOK
<1>2. BroadcasterOK
  <2>1. <<>> \in Seq(Replica) /\ Len(<<>>) <= QueueCapacity
    BY QueueCapacityAssumption
  <2>2. current \in Replica
    BY IdleAssumption DEF Init, Replica
  <2>3. queue = [s \in Sockets |-> <<>>]
    BY DEF Init
  <2>4. \A s \in Sockets : Len(queue[s]) <= QueueCapacity
    BY <2>1, <2>3
  <2>5. QED BY <2>1, <2>2, <2>3, <2>4 DEF Init, BroadcasterOK
<1>3. CallersOK
  BY DEF Init, CallersOK
<1>4. QED BY <1>1, <1>2, <1>3 DEF TypeInv

LEMMA SynchronizeType ==
    ASSUME TypeInv, Synchronize
    PROVE  TypeInv'
<1> USE DEF TypeInv
<1>1. CASE SubscribeToRedis \/ RefreshFails \/ ResyncTick
  BY <1>1 DEF SubscribeToRedis, RefreshFails, ResyncTick, CanonicalOK, BroadcasterOK,
              CallersOK, canonical, broadcaster, sockets
<1>2. CASE RefreshRead
  <2>1. stored' \in State /\ stored' # Null /\ nextEpoch' \in Nat
    BY <1>2, GetType DEF RefreshRead
  <2>2. QED
    BY <1>2, <2>1 DEF RefreshRead, CanonicalOK, BroadcasterOK, CallersOK, broadcaster, sockets
<1>3. CASE RefreshApply
  <2>1. syncRead \in State
    BY <1>3 DEF RefreshApply, CallersOK
  <2>2. BroadcasterOK'
    BY <1>3, <2>1, ApplyType DEF RefreshApply
  <2>3. QED BY <1>3, <2>2 DEF RefreshApply, CanonicalOK, CallersOK, canonical, sockets
<1>4. CASE ApplyMessage
  <2>1. PICK message \in messages :
            /\ messages' = messages \ {message}
            /\ ApplyState(message, FALSE, FALSE)
            /\ sync' \in {"refresh", "loop"}
    BY <1>4 DEF ApplyMessage
  <2>2. BroadcasterOK'
    BY <2>1, ApplyType DEF CanonicalOK
  <2>3. QED BY <1>4, <2>1, <2>2 DEF ApplyMessage, CanonicalOK, CallersOK, sockets
<1>5. QED BY <1>1, <1>2, <1>3, <1>4 DEF Synchronize

LEMMA StreamType ==
    ASSUME TypeInv, NEW s \in Sockets, Stream(s)
    PROVE  TypeInv'
<1> USE DEF TypeInv
<1>1. CASE Connect(s)
  BY <1>1 DEF Connect, CanonicalOK, BroadcasterOK, CallersOK, canonical, broadcaster,
              synchronizer
<1>2. CASE SocketRead(s)
  <2>1. stored' \in State /\ stored' # Null /\ nextEpoch' \in Nat
    BY <1>2, GetType DEF SocketRead
  <2>2. QED
    BY <1>2, <2>1
       DEF SocketRead, CanonicalOK, BroadcasterOK, CallersOK, broadcaster, synchronizer
<1>3. CASE SocketApply(s)
  <2>1. read[s] \in State
    BY <1>3 DEF SocketApply, CallersOK
  <2>2. BroadcasterOK'
    BY <1>3, <2>1, ApplyType DEF SocketApply
  <2>3. QED BY <1>3, <2>2 DEF SocketApply, CanonicalOK, CallersOK, canonical, synchronizer
<1>4. CASE Subscribe(s)
  <2>1. <<current>> \in Seq(Replica) /\ Len(<<current>>) <= QueueCapacity
    BY QueueCapacityAssumption DEF BroadcasterOK
  <2>2. BroadcasterOK'
    BY <1>4, <2>1 DEF Subscribe, BroadcasterOK
  <2>3. QED BY <1>4, <2>2 DEF Subscribe, CanonicalOK, CallersOK, canonical, synchronizer
<1>5. CASE Send(s)
  <2>1. /\ Tail(queue[s]) \in Seq(Replica)
        /\ Len(Tail(queue[s])) <= Len(queue[s])
        /\ Head(queue[s]) \in Replica
    BY <1>5, TailLast DEF Send, BroadcasterOK
  <2>2. Len(Tail(queue[s])) <= QueueCapacity
    BY <2>1, QueueCapacityAssumption DEF BroadcasterOK
  <2>3. BroadcasterOK'
    BY <1>5, <2>1, <2>2 DEF Send, BroadcasterOK
  <2>4. QED BY <1>5, <2>1, <2>3 DEF Send, CanonicalOK, CallersOK, canonical, synchronizer
<1>6. CASE Close(s)
  <2>1. Len(<<>>) <= QueueCapacity
    BY QueueCapacityAssumption
  <2>2. BroadcasterOK'
    BY <1>6, <2>1 DEF Close, BroadcasterOK
  <2>3. QED BY <1>6, <2>2 DEF Close, CanonicalOK, CallersOK, canonical, synchronizer
<1>7. QED BY <1>1, <1>2, <1>3, <1>4, <1>5, <1>6 DEF Stream

LEMMA NextTypeInv ==
    ASSUME TypeInv, [Next]_vars
    PROVE  TypeInv'
<1> USE DEF TypeInv
<1>1. CASE WriteElsewhere
  BY <1>1, WriteType
     DEF WriteElsewhere, BroadcasterOK, CallersOK, broadcaster, synchronizer, sockets
<1>2. CASE LoseMessage \/ LoseKey
  BY <1>2 DEF LoseMessage, LoseKey, CanonicalOK, BroadcasterOK, CallersOK, broadcaster,
              synchronizer, sockets
<1>3. CASE Flush
  <2>1. CASE pending = Null
    BY <1>3, <2>1, NullAssumption DEF Flush, FlushLocked, CanonicalOK, BroadcasterOK, CallersOK,
                      canonical, synchronizer, sockets
  <2>2. CASE pending # Null
    <3>1. pending \in State /\ FlushLocked(pending)
      BY <1>3, <2>2 DEF Flush, BroadcasterOK
    <3>2. BroadcasterOK'
      BY <1>3, <3>1, FlushType DEF Flush, BroadcasterOK
    <3>3. QED
      BY <1>3, <3>2 DEF Flush, CanonicalOK, CallersOK, canonical, synchronizer, sockets
  <2>3. QED BY <2>1, <2>2
<1>4. ASSUME NEW w \in Writers, Update(w)
      PROVE  TypeInv'
  <2>1. CanonicalOK' /\ stored' \in State
    BY <1>4, WriteType DEF Update, CanonicalOK, canonical
  <2>2. QED
    BY <1>4, <2>1 DEF Update, BroadcasterOK, CallersOK, broadcaster, synchronizer, sockets
<1>5. ASSUME NEW w \in Writers, ApplyUpdate(w)
      PROVE  TypeInv'
  <2>1. held[w] \in State
    BY <1>5 DEF ApplyUpdate, CallersOK
  <2>2. BroadcasterOK'
    BY <1>5, <2>1, ApplyType DEF ApplyUpdate
  <2>3. QED
    BY <1>5, <2>2 DEF ApplyUpdate, CanonicalOK, CallersOK, canonical, synchronizer, sockets
<1>6. CASE UNCHANGED vars
  BY <1>6 DEF vars, CanonicalOK, BroadcasterOK, CallersOK, canonical, broadcaster,
              synchronizer, sockets
<1>7. QED
  BY <1>1, <1>2, <1>3, <1>4, <1>5, <1>6, SynchronizeType, StreamType
     DEF Next, Environment

\* Every variable of a worker keeps its type, and its channels their capacity.
THEOREM ReplicaTypes == SafeSpec => []TypeOK
<1>1. TypeInv => TypeOK
  BY DEF TypeInv, CanonicalOK, BroadcasterOK, CallersOK, TypeOK
<1>2. QED BY <1>1, InitTypeInv, NextTypeInv, PTL DEF SafeSpec

-----------------------------------------------------------------------------
(* Subscribers are not stuck. *)

\* A subscriber's channel, its last frame and its registration do not change
\* while the replica shows the same, or the channel ends with what it shows now.
FollowsReplica(s) ==
    \/ /\ queue'[s] = queue[s] /\ view'[s] = view[s]
       /\ Subscribed(s)' => Subscribed(s)
       /\ Subscribed(s) => current'.snapshot.shown = current.snapshot.shown
    \/ /\ queue'[s] # <<>>
       /\ Last(queue'[s]).snapshot.shown = current'.snapshot.shown
    \/ ~Subscribed(s)'

LEMMA FollowingIsEnough ==
    ASSUME SubscribersCurrent, NEW s \in Sockets, FollowsReplica(s)
    PROVE  Subscribed(s)' => Outlook(s)'.snapshot.shown = current'.snapshot.shown
BY DEF SubscribersCurrent, FollowsReplica, Outlook

LEMMA FlushFollows ==
    ASSUME TypeInv, NEW next \in State, FlushLocked(next), UNCHANGED <<socket, view>>,
           NEW s \in Sockets
    PROVE  FollowsReplica(s)
<1>1. next \in Replica /\ current' = next
  BY StatesAreReplicas DEF FlushLocked
<1>2. CASE next.snapshot.shown = current.snapshot.shown
  BY <1>1, <1>2 DEF FlushLocked, FollowsReplica, Subscribed
<1>3. CASE next.snapshot.shown # current.snapshot.shown /\ Subscribed(s)
  <2>1. queue'[s] = TryWrite(queue[s], next)
    BY <1>3 DEF FlushLocked
  <2>2. queue'[s] # <<>> /\ Last(queue'[s]) = next
    BY <1>1, <2>1, TryWriteLast DEF TypeInv, BroadcasterOK
  <2>3. QED BY <1>1, <2>2 DEF FollowsReplica
<1>4. CASE ~Subscribed(s)
  BY <1>4 DEF FollowsReplica, Subscribed
<1>5. QED BY <1>2, <1>3, <1>4

LEMMA ApplyFollows ==
    ASSUME TypeInv, NEW state \in State,
           NEW flushImmediately \in BOOLEAN, NEW allowEpochChange \in BOOLEAN,
           ApplyState(state, flushImmediately, allowEpochChange),
           UNCHANGED <<socket, view>>, NEW s \in Sockets
    PROVE  FollowsReplica(s)
<1>1. CASE UNCHANGED <<current, queue>>
  BY <1>1 DEF FollowsReplica, Subscribed
<1>2. CASE FlushLocked(state)
  BY <1>2, FlushFollows
<1>3. QED BY <1>1, <1>2 DEF ApplyState, broadcaster

LEMMA NextFollows ==
    ASSUME TypeInv, SubscribersCurrent, [Next]_vars
    PROVE  SubscribersCurrent'
<1> SUFFICES ASSUME NEW s \in Sockets
             PROVE  Subscribed(s)' => Outlook(s)'.snapshot.shown = current'.snapshot.shown
  BY DEF SubscribersCurrent
<1>1. CASE UNCHANGED <<current, queue, socket, view>>
  <2>1. FollowsReplica(s)
    BY <1>1 DEF FollowsReplica, Subscribed
  <2>2. QED BY <2>1, FollowingIsEnough
<1>2. CASE Flush
  <2>1. pending # Null => pending \in State
    BY DEF TypeInv, BroadcasterOK
  <2>2. FollowsReplica(s)
    <3>1. CASE pending # Null /\ FlushLocked(pending)
      BY <1>2, <2>1, <3>1, FlushFollows DEF Flush, sockets
    <3>2. CASE UNCHANGED <<current, queue>>
      BY <1>2, <3>2 DEF Flush, sockets, FollowsReplica, Subscribed
    <3>3. QED BY <1>2, <3>1, <3>2 DEF Flush
  <2>3. QED BY <2>2, FollowingIsEnough
<1>3. CASE RefreshApply \/ ApplyMessage \/ \E w \in Writers : ApplyUpdate(w)
  <2>1. PICK state \in State, flushImmediately \in BOOLEAN, allowEpochChange \in BOOLEAN :
            ApplyState(state, flushImmediately, allowEpochChange)
    BY <1>3 DEF RefreshApply, ApplyMessage, ApplyUpdate, TypeInv, CanonicalOK, CallersOK
  <2>2. UNCHANGED <<socket, view>>
    BY <1>3 DEF RefreshApply, ApplyMessage, ApplyUpdate, sockets
  <2>3. QED BY <2>1, <2>2, ApplyFollows, FollowingIsEnough
<1>4. ASSUME NEW t \in Sockets, Stream(t)
      PROVE  Subscribed(s)' => Outlook(s)'.snapshot.shown = current'.snapshot.shown
  <2>1. CASE SocketApply(t)
    <3>1. read[t] \in State /\ UNCHANGED view /\ ApplyState(read[t], TRUE, TRUE)
      BY <2>1 DEF SocketApply, TypeInv, CallersOK
    <3>2. \/ UNCHANGED <<current, queue>>
          \/ FlushLocked(read[t])
      BY <3>1 DEF ApplyState, broadcaster
    <3>3. Subscribed(s)' <=> Subscribed(s)
      BY <2>1 DEF SocketApply, Subscribed, TypeInv, CallersOK
    <3>4. FollowsReplica(s)
      <4>1. CASE UNCHANGED <<current, queue>>
        BY <3>1, <3>3, <4>1 DEF FollowsReplica
      <4>2. CASE FlushLocked(read[t]) /\ Subscribed(s)
        <5>1. current' = read[t] /\ read[t] \in Replica
          BY <3>1, <4>2, StatesAreReplicas DEF FlushLocked
        <5>2. CASE read[t].snapshot.shown = current.snapshot.shown
          BY <3>1, <3>3, <4>2, <5>1, <5>2 DEF FlushLocked, FollowsReplica
        <5>3. CASE read[t].snapshot.shown # current.snapshot.shown
          <6>1. queue'[s] = TryWrite(queue[s], read[t])
            BY <4>2, <5>3 DEF FlushLocked
          <6>2. queue'[s] # <<>> /\ Last(queue'[s]) = read[t]
            BY <5>1, <6>1, TryWriteLast DEF TypeInv, BroadcasterOK
          <6>3. QED BY <5>1, <6>2 DEF FollowsReplica
        <5>4. QED BY <5>2, <5>3
      <4>3. CASE ~Subscribed(s)
        BY <3>3, <4>3 DEF FollowsReplica
      <4>4. QED BY <3>2, <4>1, <4>2, <4>3
    <3>5. QED BY <3>4, FollowingIsEnough
  <2>2. CASE Connect(t) \/ SocketRead(t)
    <3>1. /\ UNCHANGED <<current, queue, view>>
          /\ Subscribed(s)' => Subscribed(s)
      BY <2>2 DEF Connect, SocketRead, broadcaster, Subscribed, TypeInv, CallersOK
    <3>2. FollowsReplica(s)
      BY <3>1 DEF FollowsReplica
    <3>3. QED BY <3>2, FollowingIsEnough
  <2>3. CASE t # s /\ (Subscribe(t) \/ Send(t) \/ Close(t))
    <3>1. /\ queue'[s] = queue[s] /\ view'[s] = view[s] /\ current' = current
          /\ socket'[s] = socket[s]
      BY <2>3 DEF Subscribe, Send, Close, TypeInv, BroadcasterOK, CallersOK
    <3>2. FollowsReplica(s)
      BY <3>1 DEF FollowsReplica, Subscribed
    <3>3. QED BY <3>2, FollowingIsEnough
  <2>4. CASE t = s /\ Subscribe(s)
    <3>1. queue'[s] = <<current>> /\ current' = current
      BY <2>4 DEF Subscribe, TypeInv, BroadcasterOK
    <3>2. FollowsReplica(s)
      BY <3>1 DEF FollowsReplica, Last
    <3>3. QED BY <3>2, FollowingIsEnough
  <2>5. CASE t = s /\ Send(s)
    <3>1. /\ queue'[s] = Tail(queue[s]) /\ view'[s] = Head(queue[s])
          /\ current' = current /\ Subscribed(s) /\ queue[s] # <<>>
          /\ queue[s] \in Seq(Replica)
      BY <2>5 DEF Send, TypeInv, BroadcasterOK, CallersOK
    <3>2. Outlook(s)' = Last(queue[s])
      BY <3>1, TailLast DEF Outlook
    <3>3. Outlook(s) = Last(queue[s])
      BY <3>1 DEF Outlook
    <3>4. QED BY <3>1, <3>2, <3>3 DEF SubscribersCurrent
  <2>6. CASE t = s /\ Close(s)
    BY <2>6 DEF Close, Subscribed, TypeInv, CallersOK
  <2>7. QED BY <1>4, <2>1, <2>2, <2>3, <2>4, <2>5, <2>6 DEF Stream
<1>5. QED
  BY <1>1, <1>2, <1>3, <1>4
     DEF Next, Environment, Synchronize, WriteElsewhere, LoseMessage, LoseKey,
         SubscribeToRedis, RefreshRead, RefreshFails, ResyncTick, Update, vars,
         broadcaster, sockets

\* The last frame a subscriber has been given always shows what the replica shows.
THEOREM SubscribersFollow == SafeSpec => []SubscribersCurrent
<1>1. Init => SubscribersCurrent
  BY DEF Init, SubscribersCurrent, Subscribed
<1>2. TypeInv /\ SubscribersCurrent /\ [Next]_vars => SubscribersCurrent'
  BY NextFollows
<1>3. QED BY <1>1, <1>2, InitTypeInv, NextTypeInv, PTL DEF SafeSpec

-----------------------------------------------------------------------------
(* Coalesced updates are not forgotten. *)

\* Every state a worker has, wherever it has it, is of an epoch that was created.
Born(state) == state # Null => state.epoch < nextEpoch
Epochs ==
    /\ Born(stored) /\ Born(pending) /\ Born(syncRead)
    /\ \A message \in messages : message.epoch < nextEpoch
    /\ current.epoch # Null => current.epoch < nextEpoch
    /\ \A w \in Writers : Born(held[w])
    /\ \A s \in Sockets : Born(read[s])

\* Epochs are only added.
LEMMA Older ==
    ASSUME TypeInv, nextEpoch' \in Nat, nextEpoch' >= nextEpoch,
           NEW state \in State \cup {Null}, Born(state)
    PROVE  state # Null => state.epoch < nextEpoch'
BY DEF TypeInv, CanonicalOK, Born, State

LEMMA GetBorn ==
    ASSUME TypeInv, Epochs, Get
    PROVE  stored' \in State /\ stored'.epoch < nextEpoch' /\ nextEpoch' \in Nat
                             /\ nextEpoch' >= nextEpoch
<1>1. CASE stored # Null
  BY <1>1 DEF Get, TypeInv, CanonicalOK, Epochs, Born
<1>2. CASE stored = Null
  BY <1>2, IdleAssumption DEF Get, TypeInv, CanonicalOK, Initial, State
<1>3. QED BY <1>1, <1>2

LEMMA WriteBorn ==
    ASSUME TypeInv, Epochs, Write
    PROVE  /\ stored' \in State /\ stored'.epoch < nextEpoch'
           /\ nextEpoch' \in Nat /\ nextEpoch' >= nextEpoch
           /\ messages' \in {messages, messages \cup {stored'}}
<1>1. CanonicalOK' /\ stored' \in State
  BY WriteType DEF TypeInv
<1>2. stored'.epoch = Base.epoch
  BY DEF Write
<1>3. Base.epoch < nextEpoch' /\ nextEpoch' >= nextEpoch
  <2>1. CASE stored = Null
    BY <2>1 DEF Write, Base, Initial, TypeInv, CanonicalOK
  <2>2. CASE stored # Null
    BY <2>2 DEF Write, Base, Epochs, Born, TypeInv, CanonicalOK, State
  <2>3. QED BY <2>1, <2>2
<1>4. QED BY <1>1, <1>2, <1>3 DEF Write, CanonicalOK

\* What ApplyState keeps was applied, was pending, or was there.
LEMMA ApplyKeeps ==
    ASSUME NEW state, NEW flushImmediately, NEW allowEpochChange,
           ApplyState(state, flushImmediately, allowEpochChange)
    PROVE  /\ current' \in {current, state}
           /\ pending' \in {pending, state, Null}
BY DEF ApplyState, FlushLocked, broadcaster

LEMMA EpochsStep ==
    ASSUME TypeInv, Epochs, [Next]_vars
    PROVE  Epochs' /\ nextEpoch' \in Nat /\ nextEpoch' >= nextEpoch
<1>t. /\ nextEpoch \in Nat /\ messages \subseteq State /\ current \in Replica
      /\ stored \in State \cup {Null} /\ pending \in State \cup {Null}
      /\ syncRead \in State \cup {Null} /\ held \in [Writers -> State \cup {Null}]
      /\ read \in [Sockets -> State \cup {Null}]
  BY DEF TypeInv, CanonicalOK, BroadcasterOK, CallersOK
\* A state that was there, with no more than one taken from a new place.
<1>1. ASSUME nextEpoch' \in Nat, nextEpoch' >= nextEpoch,
             NEW fresh \in State \cup {Null}, fresh # Null => fresh.epoch < nextEpoch',
             stored' \in {stored, fresh, Null}, messages' \subseteq messages \cup ({fresh} \ {Null}),
             current' = current \/ (fresh # Null /\ current' = fresh) \/
                (pending # Null /\ current' = pending),
             pending' \in {pending, fresh, Null}, syncRead' \in {syncRead, fresh, Null},
             \A w \in Writers : held'[w] \in {held[w], fresh, Null},
             \A s \in Sockets : read'[s] \in {read[s], fresh, Null}
      PROVE  Epochs'
  <2> DEFINE New(state) == state # Null => state.epoch < nextEpoch'
  <2>1. \A state \in State \cup {Null} : Born(state) => New(state)
    BY <1>1, Older
  <2>2. New(stored) /\ New(pending) /\ New(syncRead) /\ New(fresh) /\ New(Null)
        /\ (\A w \in Writers : New(held[w])) /\ (\A s \in Sockets : New(read[s]))
    BY <1>t, <1>1, <2>1 DEF Epochs
  <2>3. \A message \in messages : New(message)
    BY <1>t, <2>1 DEF Epochs, Born
  <2>4. \A message \in messages' : message.epoch < nextEpoch'
    BY <1>t, <1>1, <2>2, <2>3, NullAssumption
  <2>5. current'.epoch # Null => current'.epoch < nextEpoch'
    BY <1>t, <1>1, <2>2 DEF Epochs, Replica
  <2>6. New(stored') /\ New(pending') /\ New(syncRead')
        /\ (\A w \in Writers : New(held'[w])) /\ (\A s \in Sockets : New(read'[s]))
    <3> HIDE DEF New
    <3> QED BY <1>1, <2>2
  <2>7. QED BY <2>4, <2>5, <2>6 DEF Epochs, Born
<1>2. CASE WriteElsewhere
  <2>1. /\ stored' \in State /\ stored'.epoch < nextEpoch' /\ nextEpoch' \in Nat
        /\ nextEpoch' >= nextEpoch /\ messages' \in {messages, messages \cup {stored'}}
    BY <1>2, WriteBorn DEF WriteElsewhere
  <2>2. UNCHANGED <<current, pending, syncRead, held, read>> /\ stored' # Null
    BY <1>2, <2>1, NullAssumption DEF WriteElsewhere, broadcaster, synchronizer, sockets
  <2>3. QED BY <1>1, <2>1, <2>2
<1>3. CASE LoseMessage \/ LoseKey
  <2>1. /\ stored' \in {stored, Null} /\ messages' \subseteq messages /\ nextEpoch' = nextEpoch
        /\ UNCHANGED <<current, pending, syncRead, held, read>>
    BY <1>3 DEF LoseMessage, LoseKey, broadcaster, synchronizer, sockets
  <2>2. QED BY <1>t, <1>1, <2>1
<1>4. CASE Flush
  <2>1. /\ current' \in {current, pending} /\ pending' \in {pending, Null}
        /\ (pending = Null => current' = current)
        /\ UNCHANGED <<stored, nextEpoch, messages, syncRead, held, read>>
    BY <1>4 DEF Flush, FlushLocked, canonical, synchronizer, sockets
  <2>2. QED BY <1>t, <1>1, <2>1
<1>5. CASE RefreshRead \/ \E s \in Sockets : SocketRead(s)
  <2>1. /\ stored' \in State /\ stored'.epoch < nextEpoch' /\ nextEpoch' \in Nat
        /\ nextEpoch' >= nextEpoch
    BY <1>5, GetBorn DEF RefreshRead, SocketRead
  <2>2. /\ UNCHANGED <<messages, current, pending, held>>
        /\ syncRead' \in {syncRead, stored'}
        /\ \A s \in Sockets : read'[s] \in {read[s], stored'}
    BY <1>5, <1>t DEF RefreshRead, SocketRead, broadcaster, synchronizer, sockets
  <2>3. stored' # Null
    BY <2>1, NullAssumption
  <2>4. QED BY <1>1, <2>1, <2>2, <2>3
<1>6. ASSUME NEW w \in Writers, Update(w)
      PROVE  Epochs' /\ nextEpoch' \in Nat /\ nextEpoch' >= nextEpoch
  <2>1. /\ stored' \in State /\ stored'.epoch < nextEpoch' /\ nextEpoch' \in Nat
        /\ nextEpoch' >= nextEpoch /\ messages' \in {messages, messages \cup {stored'}}
    <3>1. CASE Write
      BY <3>1, WriteBorn
    <3>2. CASE stored # Null /\ UNCHANGED canonical
      BY <1>t, <3>2 DEF canonical, Epochs, Born
    <3>3. QED BY <1>6, <3>1, <3>2 DEF Update
  <2>2. /\ UNCHANGED <<current, pending, syncRead, read>>
        /\ \A v \in Writers : held'[v] \in {held[v], stored'}
    BY <1>6, <1>t DEF Update, broadcaster, synchronizer, sockets
  <2>3. stored' # Null
    BY <2>1, NullAssumption
  <2>4. QED BY <1>1, <2>1, <2>2, <2>3
<1>7. ASSUME NEW state \in State, state.epoch < nextEpoch,
             current' \in {current, state}, pending' \in {pending, state, Null},
             UNCHANGED <<stored, nextEpoch>>, messages' \subseteq messages,
             syncRead' \in {syncRead, Null}, \A w \in Writers : held'[w] \in {held[w], Null},
             \A s \in Sockets : read'[s] \in {read[s], Null}
      PROVE  Epochs' /\ nextEpoch' \in Nat /\ nextEpoch' >= nextEpoch
  <2>1. state # Null /\ nextEpoch' \in Nat /\ nextEpoch' >= nextEpoch
    BY <1>t, <1>7, NullAssumption
  <2>2. QED BY <1>1, <1>7, <2>1
<1>8. CASE RefreshApply
  <2>1. syncRead \in State /\ syncRead.epoch < nextEpoch
    BY <1>8, NullAssumption DEF RefreshApply, TypeInv, CallersOK, Epochs, Born
  <2>2. current' \in {current, syncRead} /\ pending' \in {pending, syncRead, Null}
    BY <1>8, ApplyKeeps DEF RefreshApply
  <2>3. UNCHANGED <<stored, nextEpoch, messages, held, read>> /\ syncRead' = Null
    BY <1>8 DEF RefreshApply, canonical, sockets
  <2>4. QED BY <1>7, <2>1, <2>2, <2>3
<1>9. CASE ApplyMessage
  <2>1. PICK message \in messages : messages' = messages \ {message} /\ ApplyState(message, FALSE, FALSE)
    BY <1>9 DEF ApplyMessage
  <2>2. message \in State /\ message.epoch < nextEpoch
    BY <1>t, <2>1 DEF Epochs
  <2>3. current' \in {current, message} /\ pending' \in {pending, message, Null}
    BY <2>1, ApplyKeeps
  <2>4. UNCHANGED <<stored, nextEpoch, syncRead, held, read>>
    BY <1>9 DEF ApplyMessage, sockets
  <2>5. QED BY <1>7, <2>1, <2>2, <2>3, <2>4
<1>10. ASSUME NEW w \in Writers, ApplyUpdate(w)
       PROVE  Epochs' /\ nextEpoch' \in Nat /\ nextEpoch' >= nextEpoch
  <2>1. held[w] \in State /\ held[w].epoch < nextEpoch
    BY <1>t, <1>10 DEF ApplyUpdate, Epochs, Born
  <2>2. current' \in {current, held[w]} /\ pending' \in {pending, held[w], Null}
    BY <1>10, ApplyKeeps DEF ApplyUpdate
  <2>3. UNCHANGED <<stored, nextEpoch, messages, syncRead, read>>
        /\ \A v \in Writers : held'[v] \in {held[v], Null}
    BY <1>t, <1>10 DEF ApplyUpdate, canonical, synchronizer, sockets
  <2>4. QED BY <1>7, <2>1, <2>2, <2>3
<1>11. ASSUME NEW s \in Sockets, SocketApply(s)
       PROVE  Epochs' /\ nextEpoch' \in Nat /\ nextEpoch' >= nextEpoch
  <2>1. read[s] \in State /\ read[s].epoch < nextEpoch
    BY <1>11, NullAssumption DEF SocketApply, TypeInv, CallersOK, Epochs, Born
  <2>2. current' \in {current, read[s]} /\ pending' \in {pending, read[s], Null}
    BY <1>11, ApplyKeeps DEF SocketApply
  <2>3. UNCHANGED <<stored, nextEpoch, messages, syncRead, held, read>>
    BY <1>11 DEF SocketApply, canonical, synchronizer
  <2>4. QED BY <1>7, <2>1, <2>2, <2>3
<1>12. ASSUME UNCHANGED <<stored, nextEpoch, messages, current, pending, syncRead, held>>,
              \A s \in Sockets : read'[s] \in {read[s], Null}
       PROVE  Epochs' /\ nextEpoch' \in Nat /\ nextEpoch' >= nextEpoch
  <2>1. nextEpoch' \in Nat /\ nextEpoch' >= nextEpoch
    BY <1>t, <1>12
  <2>2. QED BY <1>1, <1>12, <2>1
<1>13. CASE SubscribeToRedis \/ RefreshFails \/ ResyncTick \/ UNCHANGED vars
  BY <1>12, <1>13 DEF SubscribeToRedis, RefreshFails, ResyncTick, vars, canonical, broadcaster,
                      synchronizer, sockets
<1>14. ASSUME NEW s \in Sockets, Connect(s) \/ Subscribe(s) \/ Send(s) \/ Close(s)
       PROVE  Epochs' /\ nextEpoch' \in Nat /\ nextEpoch' >= nextEpoch
  BY <1>t, <1>12, <1>14 DEF Connect, Subscribe, Send, Close, canonical, broadcaster, synchronizer
<1>15. nextEpoch' \in Nat /\ nextEpoch' >= nextEpoch
  <2>1. Get \/ Write \/ UNCHANGED nextEpoch
    BY DEF Next, Environment, WriteElsewhere, LoseMessage, LoseKey, Flush, Synchronize,
           SubscribeToRedis, RefreshRead, RefreshFails, RefreshApply, ApplyMessage, ResyncTick,
           Update, ApplyUpdate, Stream, Connect, SocketRead, SocketApply, Subscribe, Send, Close,
           canonical, vars
  <2>2. QED BY <1>t, <2>1, GetBorn, WriteBorn
<1>16. QED
  BY <1>2, <1>3, <1>4, <1>5, <1>6, <1>8, <1>9, <1>10, <1>11, <1>13, <1>14, <1>15
     DEF Next, Environment, Synchronize, Stream

\* ApplyState keeps a state for later only with a timer and ahead of what is shown.
LEMMA ApplyArms ==
    ASSUME TypeInv, Epochs, PendingArmed, UNCHANGED nextEpoch,
           NEW state \in State, state.epoch < nextEpoch,
           NEW flushImmediately \in BOOLEAN, NEW allowEpochChange \in BOOLEAN,
           ApplyState(state, flushImmediately, allowEpochChange)
    PROVE  PendingArmed'
<1>1. CASE UNCHANGED broadcaster
  BY <1>1 DEF PendingArmed, broadcaster
<1>2. CASE FlushLocked(state)
  BY <1>2 DEF PendingArmed, FlushLocked
<1>3. CASE /\ ~Duplicate(state) /\ pending' = state /\ timer' = TRUE
           /\ UNCHANGED <<current, queue>>
  <2>1. /\ current \in Replica /\ pending \in State \cup {Null} /\ nextEpoch \in Nat
    BY DEF TypeInv, BroadcasterOK, CanonicalOK
  <2>2. SUFFICES ASSUME nextEpoch <= 1, current.epoch # Null
                 PROVE  state.version > current.version
    BY <1>3 DEF PendingArmed
  <2>3. state.epoch = 0 /\ current.epoch = 0
    BY <2>1, <2>2 DEF Epochs, State, Replica
  <2>4. state.version \in Nat /\ current.version \in Nat
    BY <2>1 DEF State, Replica
  <2>5. CASE pending = Null
    BY <1>3, <2>3, <2>4, <2>5 DEF Duplicate, Latest
  <2>6. CASE pending # Null
    <3>1. pending.epoch = 0 /\ pending.version \in Nat
      BY <2>1, <2>2, <2>6 DEF Epochs, Born, State
    <3>2. pending.version > current.version
      BY <2>2, <2>6 DEF PendingArmed
    <3>3. state.version > pending.version
      BY <1>3, <2>3, <2>4, <2>6, <3>1 DEF Duplicate, Latest
    <3>4. QED BY <2>4, <3>1, <3>2, <3>3
  <2>7. QED BY <2>5, <2>6
<1>4. QED BY <1>1, <1>2, <1>3 DEF ApplyState

LEMMA NextArmed ==
    ASSUME TypeInv, Epochs, PendingArmed, [Next]_vars
    PROVE  PendingArmed'
<1>1. CASE UNCHANGED <<current, pending, timer>>
  <2>1. nextEpoch' \in Nat /\ nextEpoch' >= nextEpoch /\ nextEpoch \in Nat
    BY EpochsStep DEF TypeInv, CanonicalOK
  <2>2. QED BY <1>1, <2>1 DEF PendingArmed
<1>2. CASE Flush
  BY <1>2 DEF Flush, FlushLocked, PendingArmed
<1>3. CASE RefreshApply
  BY <1>3, ApplyArms, NullAssumption
     DEF RefreshApply, canonical, TypeInv, CallersOK, Epochs, Born
<1>4. CASE ApplyMessage
  BY <1>4, ApplyArms DEF ApplyMessage, TypeInv, CanonicalOK, Epochs
<1>5. ASSUME NEW w \in Writers, ApplyUpdate(w) PROVE PendingArmed'
  BY <1>5, ApplyArms DEF ApplyUpdate, canonical, TypeInv, CallersOK, Epochs, Born
<1>6. ASSUME NEW s \in Sockets, SocketApply(s) PROVE PendingArmed'
  BY <1>6, ApplyArms DEF SocketApply, canonical, TypeInv, CallersOK, Epochs, Born
<1>7. QED
  BY <1>1, <1>2, <1>3, <1>4, <1>5, <1>6
     DEF Next, Environment, WriteElsewhere, LoseMessage, LoseKey, Synchronize,
         SubscribeToRedis, RefreshRead, RefreshFails, ResyncTick, Update, Stream, Connect,
         SocketRead, Subscribe, Send, Close, vars, broadcaster

\* An update that was put off always has a timer that will show it, and while the
\* key is not lost it is newer than what is shown.
THEOREM CoalescedNotForgotten == SafeSpec => []PendingArmed
<1>1. Init => Epochs /\ PendingArmed
  BY DEF Init, Epochs, Born, PendingArmed
<1>2. TypeInv /\ Epochs /\ PendingArmed /\ [Next]_vars => Epochs' /\ PendingArmed'
  BY EpochsStep, NextArmed
<1>3. QED BY <1>1, <1>2, InitTypeInv, NextTypeInv, PTL DEF SafeSpec

-----------------------------------------------------------------------------
(* Nothing moves backwards. *)

\* A channel whose frames do not go back, from low to high.
Forward(channel, low, high) ==
    /\ \A i \in 1..Len(channel) : low <= channel[i].version /\ channel[i].version <= high
    /\ \A i, j \in 1..Len(channel) : i <= j => channel[i].version <= channel[j].version

\* The version browser s has seen.
Seen(s) == IF view[s] = Null THEN 0 ELSE view[s].version

\* While the key is not lost: the browser is behind its channel, whose frames are
\* in order, and the channel is behind the replica.
Frames ==
    /\ current.epoch = Null => current.version = 0
    /\ nextEpoch <= 1 =>
           \A s \in Sockets : /\ Seen(s) <= current.version
                              /\ Forward(queue[s], Seen(s), current.version)

LEMMA VersionTypes ==
    ASSUME TypeInv
    PROVE  /\ current.version \in Nat
           /\ \A s \in Sockets : Seen(s) \in Nat
           /\ \A s \in Sockets : \A i \in 1..Len(queue[s]) : queue[s][i].version \in Nat
<1>1. \A replica \in Replica : replica.version \in Nat
  BY DEF Replica
<1>2. \A s \in Sockets : queue[s] \in Seq(Replica) /\ view[s] \in Replica \cup {Null}
  BY DEF TypeInv, BroadcasterOK, CallersOK
<1>3. \A s \in Sockets : \A i \in 1..Len(queue[s]) : queue[s][i] \in Replica
  BY <1>2
<1>4. QED BY <1>1, <1>2, <1>3 DEF Seen, TypeInv, BroadcasterOK

\* A frame that is not older keeps a channel in order, also when the oldest is dropped.
LEMMA TryWriteForward ==
    ASSUME NEW channel \in Seq(Replica), NEW event \in Replica, NEW low \in Nat, NEW high \in Nat,
           Forward(channel, low, high), low <= high, high <= event.version
    PROVE  Forward(TryWrite(channel, event), low, event.version)
<1> DEFINE kept == IF Len(channel) < QueueCapacity THEN channel ELSE Tail(channel)
<1>0. event.version \in Nat /\ \A i \in 1..Len(channel) : channel[i].version \in Nat
  <2>1. \A i \in 1..Len(channel) : channel[i] \in Replica
    OBVIOUS
  <2>2. QED BY <2>1 DEF Replica
<1>1. /\ kept \in Seq(Replica) /\ Forward(kept, low, high)
      /\ \A i \in 1..Len(kept) : kept[i].version \in Nat
  <2>1. CASE Len(channel) < QueueCapacity
    BY <1>0, <2>1
  <2>2. CASE ~(Len(channel) < QueueCapacity)
    <3>1. Len(channel) \in Nat /\ channel # <<>>
      BY <2>2, QueueCapacityAssumption
    <3>2. /\ Tail(channel) \in Seq(Replica) /\ Len(Tail(channel)) = Len(channel) - 1
          /\ \A i \in 1..Len(Tail(channel)) : Tail(channel)[i] = channel[i + 1] /\ i + 1 \in 1..Len(channel)
      BY <3>1
    <3>3. \A i \in 1..Len(Tail(channel)) :
              low <= Tail(channel)[i].version /\ Tail(channel)[i].version <= high
              /\ Tail(channel)[i].version \in Nat
      BY <1>0, <3>2 DEF Forward
    <3>4. \A i, j \in 1..Len(Tail(channel)) : i <= j => i + 1 <= j + 1
      OBVIOUS
    <3>5. \A i, j \in 1..Len(Tail(channel)) :
              i <= j => Tail(channel)[i].version <= Tail(channel)[j].version
      BY <3>2, <3>4 DEF Forward
    <3>6. QED BY <2>2, <3>2, <3>3, <3>5 DEF Forward
  <2>3. QED BY <2>1, <2>2
<1>2. TryWrite(channel, event) = Append(kept, event)
  BY DEF TryWrite
<1> HIDE DEF kept
<1>3. /\ Len(Append(kept, event)) = Len(kept) + 1 /\ Len(kept) \in Nat
      /\ Append(kept, event)[Len(kept) + 1] = event
      /\ \A i \in 1..Len(kept) : Append(kept, event)[i] = kept[i]
  BY <1>1
<1>4. \A i \in 1..Len(kept) : low <= kept[i].version /\ kept[i].version <= event.version
  BY <1>0, <1>1 DEF Forward
<1>5. \A i \in 1..(Len(kept) + 1) : i \in 1..Len(kept) \/ i = Len(kept) + 1
  BY <1>3
<1>6. \A i \in 1..Len(Append(kept, event)) :
          low <= Append(kept, event)[i].version /\ Append(kept, event)[i].version <= event.version
  BY <1>0, <1>3, <1>4, <1>5
<1>7. ASSUME NEW i \in 1..Len(Append(kept, event)), NEW j \in 1..Len(Append(kept, event)), i <= j
      PROVE  Append(kept, event)[i].version <= Append(kept, event)[j].version
  <2>1. CASE j = Len(kept) + 1
    BY <1>3, <1>6, <2>1
  <2>2. CASE j \in 1..Len(kept)
    <3>1. i \in 1..Len(kept)
      BY <1>3, <1>7, <2>2
    <3>2. QED BY <1>1, <1>3, <1>7, <2>2, <3>1 DEF Forward
  <2>3. QED BY <1>3, <1>5, <2>1, <2>2
<1>8. QED BY <1>2, <1>6, <1>7 DEF Forward

\* A browser that has seen less is behind the channel as well.
LEMMA ForwardFromBelow ==
    ASSUME NEW channel, NEW low \in Nat, NEW from \in Nat, NEW high, low <= from,
           Forward(channel, from, high), \A i \in 1..Len(channel) : channel[i].version \in Nat
    PROVE  Forward(channel, low, high)
<1>1. \A i \in 1..Len(channel) : low <= channel[i].version
  BY DEF Forward
<1>2. QED BY <1>1 DEF Forward

\* What is taken from a channel leaves a channel that starts there.
LEMMA TailForward ==
    ASSUME NEW channel \in Seq(Replica), channel # <<>>, NEW low \in Nat, NEW high \in Nat,
           Forward(channel, low, high)
    PROVE  /\ low <= Head(channel).version /\ Head(channel).version <= high
           /\ Forward(Tail(channel), Head(channel).version, high)
           /\ \A i \in 1..Len(Tail(channel)) : Tail(channel)[i].version \in Nat
<1>1. /\ Len(channel) \in Nat \ {0} /\ Head(channel) = channel[1]
      /\ Len(Tail(channel)) = Len(channel) - 1
      /\ \A i \in 1..Len(Tail(channel)) : Tail(channel)[i] = channel[i + 1] /\ i + 1 \in 1..Len(channel)
      /\ 1 \in 1..Len(channel)
  OBVIOUS
<1>2. \A i \in 1..Len(Tail(channel)) :
          /\ channel[1].version <= Tail(channel)[i].version
          /\ Tail(channel)[i].version <= high
  BY <1>1 DEF Forward
<1>3. \A i, j \in 1..Len(Tail(channel)) : i <= j => i + 1 <= j + 1
  OBVIOUS
<1>4. \A i, j \in 1..Len(Tail(channel)) : i <= j => Tail(channel)[i].version <= Tail(channel)[j].version
  BY <1>1, <1>3 DEF Forward
<1>5. \A j \in 1..Len(channel) : channel[j] \in Replica
  OBVIOUS
<1>6. \A i \in 1..Len(Tail(channel)) : Tail(channel)[i].version \in Nat
  BY <1>1, <1>5 DEF Replica
<1>7. QED BY <1>1, <1>2, <1>4, <1>6 DEF Forward

\* A frame that is not older than the replica keeps every channel in order.
LEMMA FlushForward ==
    ASSUME TypeInv, Frames, NEW next \in State, FlushLocked(next), UNCHANGED <<nextEpoch, view>>,
           nextEpoch <= 1 => current.version <= next.version
    PROVE  Frames'
<1>1. next \in Replica /\ current' = next /\ next.epoch # Null /\ next.version \in Nat
  BY StatesAreReplicas, NullAssumption DEF FlushLocked, State
<1>2. SUFFICES ASSUME nextEpoch <= 1, NEW s \in Sockets
               PROVE  Seen(s) <= next.version /\ Forward(queue'[s], Seen(s), next.version)
  BY <1>1 DEF Frames, Seen
<1>3. /\ Seen(s) \in Nat /\ current.version \in Nat /\ queue[s] \in Seq(Replica)
      /\ \A i \in 1..Len(queue[s]) : queue[s][i].version \in Nat
  BY VersionTypes DEF TypeInv, BroadcasterOK
<1>4. /\ Seen(s) <= current.version /\ current.version <= next.version
      /\ Forward(queue[s], Seen(s), current.version)
  BY <1>2 DEF Frames
<1>5. queue'[s] = queue[s] \/ queue'[s] = TryWrite(queue[s], next)
  BY DEF FlushLocked, TypeInv, BroadcasterOK
<1>6. Forward(queue[s], Seen(s), next.version)
  BY <1>1, <1>3, <1>4 DEF Forward
<1>7. Forward(TryWrite(queue[s], next), Seen(s), next.version)
  BY <1>1, <1>3, <1>4, TryWriteForward
<1>8. QED BY <1>1, <1>3, <1>4, <1>5, <1>6, <1>7

\* Within an epoch ApplyState does not replace the replica by something older.
LEMMA ApplyForward ==
    ASSUME TypeInv, Epochs, PendingArmed, Frames, UNCHANGED <<nextEpoch, view>>,
           NEW state \in State, state.epoch < nextEpoch,
           NEW flushImmediately \in BOOLEAN, NEW allowEpochChange \in BOOLEAN,
           ApplyState(state, flushImmediately, allowEpochChange)
    PROVE  Frames' /\ (nextEpoch <= 1 => current'.version >= current.version)
<1>1. /\ current \in Replica /\ pending \in State \cup {Null} /\ nextEpoch \in Nat
      /\ current.version \in Nat /\ state.version \in Nat
  BY VersionTypes DEF TypeInv, BroadcasterOK, CanonicalOK, State
<1>2. CASE UNCHANGED <<current, queue>>
  BY <1>1, <1>2 DEF Frames, Seen
<1>3. CASE FlushLocked(state) /\ ~Duplicate(state)
  <2>1. ASSUME nextEpoch <= 1 PROVE current.version <= state.version
    <3>1. state.epoch = 0 /\ (current.epoch # Null => current.epoch = 0)
      BY <1>1, <2>1 DEF Epochs, State, Replica
    <3>2. CASE current.epoch = Null
      BY <1>1, <3>2 DEF Frames
    <3>3. CASE current.epoch # Null /\ pending = Null
      BY <1>1, <1>3, <3>1, <3>3 DEF Duplicate, Latest
    <3>4. CASE current.epoch # Null /\ pending # Null
      <4>1. pending.epoch = 0 /\ pending.version \in Nat
        BY <1>1, <2>1, <3>4 DEF Epochs, Born, State
      <4>2. pending.version > current.version
        BY <2>1, <3>4 DEF PendingArmed
      <4>3. state.version > pending.version
        BY <1>1, <1>3, <3>1, <3>4, <4>1 DEF Duplicate, Latest
      <4>4. QED BY <1>1, <4>1, <4>2, <4>3
    <3>5. QED BY <3>2, <3>3, <3>4
  <2>2. current' = state
    BY <1>3 DEF FlushLocked
  <2>3. QED BY <1>1, <1>3, <2>1, <2>2, FlushForward
<1>4. QED BY <1>2, <1>3 DEF ApplyState, broadcaster

\* No step of a worker takes its replica or a browser back.
LEMMA NextForward ==
    ASSUME TypeInv, Epochs, PendingArmed, Frames, [Next]_vars
    PROVE  /\ Frames'
           /\ nextEpoch' <= 1 => /\ current'.version >= current.version
                                 /\ \A s \in Sockets : view[s] # Null => view'[s].version >= view[s].version
<1> DEFINE Goal == /\ Frames'
                   /\ nextEpoch' <= 1 =>
                          /\ current'.version >= current.version
                          /\ \A s \in Sockets : view[s] # Null => view'[s].version >= view[s].version
<1>1. /\ nextEpoch' \in Nat /\ nextEpoch' >= nextEpoch /\ nextEpoch \in Nat /\ current.version \in Nat
      /\ \A s \in Sockets : view[s] # Null => view[s].version \in Nat
  BY EpochsStep, VersionTypes DEF TypeInv, CanonicalOK, Seen
<1>2. ASSUME UNCHANGED view, Frames', nextEpoch <= 1 => current'.version >= current.version
      PROVE  Goal
  BY <1>1, <1>2
<1>3. CASE UNCHANGED <<current, queue, view>>
  BY <1>1, <1>2, <1>3 DEF Frames, Seen
<1>4. CASE Flush
  <2>1. CASE pending # Null /\ FlushLocked(pending)
    <3>1. pending \in State /\ pending.version \in Nat
      BY <2>1 DEF TypeInv, BroadcasterOK, State
    <3>2. nextEpoch <= 1 => current.version <= pending.version
      BY <1>1, <2>1, <3>1 DEF PendingArmed, Frames
    <3>3. UNCHANGED <<nextEpoch, view>> /\ current' = pending
      BY <1>4, <2>1 DEF Flush, FlushLocked, canonical, sockets
    <3>4. QED BY <1>1, <1>2, <2>1, <3>1, <3>2, <3>3, FlushForward
  <2>2. QED BY <1>3, <1>4, <2>1 DEF Flush, sockets
<1>5. CASE RefreshApply \/ ApplyMessage \/ (\E w \in Writers : ApplyUpdate(w)) \/ (\E s \in Sockets : SocketApply(s))
  <2>1. UNCHANGED <<nextEpoch, view>>
    BY <1>5 DEF RefreshApply, ApplyMessage, ApplyUpdate, SocketApply, canonical, sockets
  <2>2. Frames' /\ (nextEpoch <= 1 => current'.version >= current.version)
    <3>1. CASE RefreshApply
      BY <3>1, ApplyForward, NullAssumption
         DEF RefreshApply, canonical, sockets, TypeInv, CallersOK, Epochs, Born
    <3>2. CASE ApplyMessage
      BY <3>2, ApplyForward DEF ApplyMessage, sockets, TypeInv, CanonicalOK, Epochs
    <3>3. ASSUME NEW w \in Writers, ApplyUpdate(w)
          PROVE  Frames' /\ (nextEpoch <= 1 => current'.version >= current.version)
      BY <3>3, ApplyForward DEF ApplyUpdate, canonical, sockets, TypeInv, CallersOK, Epochs, Born
    <3>4. ASSUME NEW s \in Sockets, SocketApply(s)
          PROVE  Frames' /\ (nextEpoch <= 1 => current'.version >= current.version)
      BY <3>4, ApplyForward DEF SocketApply, canonical, TypeInv, CallersOK, Epochs, Born
    <3>5. QED BY <1>5, <3>1, <3>2, <3>3, <3>4
  <2>3. QED BY <1>2, <2>1, <2>2
<1>6. ASSUME NEW s \in Sockets, Subscribe(s) \/ Send(s) \/ Close(s)
      PROVE  Goal
  <2>1. UNCHANGED <<current, nextEpoch>>
    BY <1>6 DEF Subscribe, Send, Close, canonical
  <2>2. /\ queue \in [Sockets -> Seq(Replica)] /\ view \in [Sockets -> Replica \cup {Null}]
        /\ \A t \in Sockets : Seen(t) \in Nat
    BY VersionTypes DEF TypeInv, BroadcasterOK, CallersOK
  <2>3. /\ \A t \in Sockets \ {s} : queue'[t] = queue[t] /\ view'[t] = view[t]
    BY <1>6, <2>2 DEF Subscribe, Send, Close
  <2>4. ASSUME nextEpoch <= 1
        PROVE  /\ Seen(s)' <= current.version /\ Forward(queue'[s], Seen(s)', current.version)
               /\ view[s] # Null => view'[s].version >= view[s].version
    <3>1. Seen(s) <= current.version /\ Forward(queue[s], Seen(s), current.version)
      BY <2>4 DEF Frames
    <3>2. CASE Subscribe(s)
      <4>1. queue'[s] = <<current>> /\ view'[s] = view[s]
        BY <2>2, <3>2 DEF Subscribe
      <4>2. QED BY <1>1, <2>2, <3>1, <4>1 DEF Forward, Seen
    <3>3. CASE Close(s)
      <4>1. queue'[s] = <<>> /\ view'[s] = view[s]
        BY <2>2, <3>3 DEF Close
      <4>2. QED BY <1>1, <2>2, <3>1, <4>1 DEF Forward, Seen
    <3>4. CASE Send(s)
      <4>1. /\ queue[s] # <<>> /\ queue[s] \in Seq(Replica)
            /\ queue'[s] = Tail(queue[s]) /\ view'[s] = Head(queue[s])
        BY <2>2, <3>4 DEF Send
      <4>2. Head(queue[s]) \in Replica /\ Tail(queue[s]) \in Seq(Replica)
        BY <4>1, TailLast
      <4>3. /\ Seen(s) <= Head(queue[s]).version /\ Head(queue[s]).version <= current.version
            /\ Forward(Tail(queue[s]), Head(queue[s]).version, current.version)
        BY <1>1, <2>2, <3>1, <4>1, TailForward
      <4>4. Head(queue[s]).version \in Nat /\ Seen(s)' \in {0, Head(queue[s]).version}
        BY <4>1, <4>2 DEF Seen, Replica
      <4>5. Seen(s)' <= Head(queue[s]).version /\ Seen(s)' \in Nat
        BY <4>4
      <4>6. \A i \in 1..Len(Tail(queue[s])) : Tail(queue[s])[i].version \in Nat
        BY <1>1, <2>2, <3>1, <4>1, TailForward
      <4>7. Forward(Tail(queue[s]), Seen(s)', current.version)
        BY <4>3, <4>4, <4>5, <4>6, ForwardFromBelow
      <4>8. QED BY <1>1, <2>2, <4>1, <4>3, <4>4, <4>5, <4>7 DEF Seen
    <3>5. QED BY <1>6, <3>2, <3>3, <3>4
  <2>5. \A t \in Sockets \ {s} : Seen(t)' = Seen(t)
    BY <2>3 DEF Seen
  <2>6. Frames'
    BY <2>1, <2>3, <2>4, <2>5 DEF Frames
  <2>7. QED BY <1>1, <2>1, <2>3, <2>4, <2>6
<1>7. QED
  BY <1>3, <1>4, <1>5, <1>6
     DEF Next, Environment, WriteElsewhere, LoseMessage, LoseKey, Synchronize,
         SubscribeToRedis, RefreshRead, RefreshFails, ResyncTick, Update, Stream, Connect,
         SocketRead, vars, broadcaster, sockets

\* While the key is not lost, the replica and each browser only move forward:
\* ApplyState refuses what is late, and the channels keep the order they are given.
THEOREM OnlyForward == SafeSpec => NeverBackwards
<1>1. Init => Epochs /\ PendingArmed /\ Frames
  BY DEF Init, Epochs, Born, PendingArmed, Frames, Forward, Seen
<1>2. TypeInv /\ Epochs /\ PendingArmed /\ Frames /\ [Next]_vars => Epochs' /\ PendingArmed' /\ Frames'
  BY EpochsStep, NextArmed, NextForward
<1>3. TypeInv /\ Epochs /\ PendingArmed /\ Frames /\ [Next]_vars =>
        [nextEpoch' <= 1 =>
            /\ current'.version >= current.version
            /\ \A s \in Sockets : view[s] # Null => view'[s].version >= view[s].version]_vars
  BY NextForward
<1>4. QED BY <1>1, <1>2, <1>3, InitTypeInv, NextTypeInv, PTL DEF SafeSpec, NeverBackwards

-----------------------------------------------------------------------------
(* The leader's lease.                                                     *)

\* The variables keep their types.
LEMMA InitTypes == LeaderInit => LeaderTypeOK
<1> SUFFICES ASSUME LeaderInit PROVE LeaderTypeOK
  OBVIOUS
<1>1. keyLost \in BOOLEAN
  BY Zenon DEF LeaderInit
<1>2. QED BY <1>1, TimingAssumption DEF LeaderInit, LeaderTypeOK, Locations

LEMMA GotoTypes ==
    ASSUME LeaderTypeOK, NEW w \in Workers, NEW location \in Locations, NEW delay \in Nat,
           Goto(w, location, delay)
    PROVE  /\ pc' \in [Workers -> Locations]
           /\ delayLeft' \in [Workers -> Nat]
           /\ late' \in [Workers -> 0..MaxLate]
BY TimingAssumption DEF LeaderTypeOK, Goto

LEMMA FlagType ==
    ASSUME NEW flag \in [Workers -> BOOLEAN], NEW w \in Workers
    PROVE  /\ [flag EXCEPT ![w] = TRUE] \in [Workers -> BOOLEAN]
           /\ [flag EXCEPT ![w] = FALSE] \in [Workers -> BOOLEAN]
OBVIOUS

LEMMA NextTypes ==
    ASSUME LeaderTypeOK, [LeaderNext]_leaderVars
    PROVE  LeaderTypeOK'
<1>a. /\ RetryInterval \in Nat /\ RenewalInterval \in Nat
      /\ Lease \in 0..Lease /\ 0 \in 0..Lease
  BY TimingAssumption
<1>1. ASSUME NEW w \in Workers, Run(w)
      PROVE  LeaderTypeOK'
  <2>1. \/ \E location \in Locations, delay \in Nat : Goto(w, location, delay)
        \/ UNCHANGED <<pc, delayLeft, late>>
    <3>1. CASE Acquire(w) \/ AcquireFails(w) \/ Retry(w)
      BY <1>a, <3>1 DEF Acquire, AcquireFails, Retry, Locations
    <3>2. CASE Start(w) \/ Wake(w) \/ Renew(w) \/ RenewFails(w)
      BY <1>a, <3>2 DEF Start, Wake, Renew, RenewFails, Locations
    <3>3. CASE Continue(w) \/ LoseLeadership(w) \/ ActionEnds(w) \/ ActionAwaited(w)
      BY <1>a, <3>3 DEF Continue, LoseLeadership, ActionEnds, ActionAwaited, Locations
    <3>4. CASE Release(w) \/ ReleaseFails(w)
      BY <1>a, <3>4 DEF Release, ReleaseFails, AfterRelease, Locations
    <3>5. QED BY <1>1, <3>1, <3>2, <3>3, <3>4 DEF Run
  <2>2. /\ pc' \in [Workers -> Locations]
        /\ delayLeft' \in [Workers -> Nat]
        /\ late' \in [Workers -> 0..MaxLate]
    BY <2>1, GotoTypes DEF LeaderTypeOK
  <2>3. \/ UNCHANGED lease
        \/ owner' \in Workers \cup {Nobody, Gone} /\ ttl' \in {0, ttl, Lease}
    BY <1>1 DEF Run, Acquire, AcquireFails, Retry, Start, Wake, Renew, RenewFails,
                Continue, LoseLeadership, ActionEnds, ActionAwaited, Release,
                ReleaseFails, SetTtl, LeaderTypeOK
  <2>4. /\ owner' \in Workers \cup {Nobody, Gone}
        /\ ttl' \in 0..Lease
    BY <1>a, <2>3 DEF LeaderTypeOK, lease
  <2>5. /\ acting' \in {acting, [acting EXCEPT ![w] = TRUE], [acting EXCEPT ![w] = FALSE]}
        /\ leadershipLost' \in {leadershipLost, [leadershipLost EXCEPT ![w] = TRUE],
                                [leadershipLost EXCEPT ![w] = FALSE]}
        /\ stopping' = stopping
        /\ faults' \in {faults, faults + 1}
        /\ keyLost' = keyLost \/ keyLost' \in BOOLEAN
    BY <1>1 DEF Run, Acquire, AcquireFails, Retry, Start, Wake, Renew, RenewFails,
                Continue, LoseLeadership, ActionEnds, ActionAwaited, Release,
                ReleaseFails, Fault, mishaps
  <2>6. acting' \in [Workers -> BOOLEAN] /\ leadershipLost' \in [Workers -> BOOLEAN]
    BY <2>5, FlagType DEF LeaderTypeOK
  <2>7. stopping' \in [Workers -> BOOLEAN] /\ faults' \in Nat /\ keyLost' \in BOOLEAN
    BY <2>5 DEF LeaderTypeOK
  <2>8. QED BY <2>2, <2>4, <2>6, <2>7 DEF LeaderTypeOK
<1>2. ASSUME NEW w \in Workers, Shutdown(w) \/ Restart(w)
      PROVE  LeaderTypeOK'
  <2>1. CASE Shutdown(w)
    BY <2>1 DEF Shutdown, Fault, lease, LeaderTypeOK
  <2>2. CASE Restart(w)
    <3>1. /\ pc' \in [Workers -> Locations]
          /\ delayLeft' \in [Workers -> Nat]
          /\ late' \in [Workers -> 0..MaxLate]
      BY <2>2, GotoTypes DEF Restart, Locations
    <3>2. /\ acting' \in [Workers -> BOOLEAN]
          /\ stopping' \in [Workers -> BOOLEAN]
          /\ leadershipLost' \in [Workers -> BOOLEAN]
      BY <2>2, FlagType DEF Restart, LeaderTypeOK
    <3>3. /\ owner' \in Workers \cup {Nobody, Gone}
          /\ ttl' \in 0..Lease
          /\ faults' \in Nat /\ keyLost' \in BOOLEAN
      BY <2>2 DEF Restart, Fault, LeaderTypeOK, mishaps
    <3>4. QED BY <3>1, <3>2, <3>3 DEF LeaderTypeOK
  <2>3. QED BY <1>2, <2>1, <2>2
<1>3. CASE LoseLease
  BY <1>a, <1>3 DEF LoseLease, Fault, LeaderTypeOK
<1>4. CASE Tick
  <2>1. /\ ttl' \in 0..Lease
        /\ late' \in [Workers -> 0..MaxLate]
    BY <1>4, TimingAssumption DEF Tick, LeaderTypeOK
  <2>2. QED BY <1>4, <2>1 DEF Tick, LeaderTypeOK, mishaps
<1>5. CASE UNCHANGED leaderVars
  BY <1>5 DEF leaderVars, lease, mishaps, LeaderTypeOK
<1>6. QED BY <1>1, <1>2, <1>3, <1>4, <1>5 DEF LeaderNext

\* The variables of RunAsLeaderAsync and of its lease keep their types.
THEOREM LeadershipTypes == LeaderSafeSpec => []LeaderTypeOK
BY InitTypes, NextTypes, PTL DEF LeaderSafeSpec

-----------------------------------------------------------------------------
(* Why loops exclude each other when every step is timely enough.           *)

\* From the last extension of the lease to the end of the loop there is one
\* renewal interval and at most five steps, each at most MaxLate late: a reply,
\* the timer, the next script, its reply, the end of the loop.
Timely == RenewalInterval + 5 * MaxLate < Lease

\* How much of the lease of w may be used up.
Used(w) ==
    late[w] + (CASE pc[w] \in {"granted", "renewed"} -> 0
                 [] pc[w] = "lead" -> MaxLate + (RenewalInterval - delayLeft[w])
                 [] pc[w] = "renew" -> RenewalInterval + 2 * MaxLate
                 [] pc[w] = "lost" -> RenewalInterval + 3 * MaxLate
                 [] OTHER -> RenewalInterval + 4 * MaxLate)

HoldsLease(w) == owner = w /\ ttl + Used(w) >= Lease

WorkerInv(w) ==
    /\ pc[w] = "granted" \/ acting[w] => HoldsLease(w)
    /\ acting[w] => pc[w] \in {"lead", "renew", "renewed", "lost", "stop"}
    /\ pc[w] = "lead" => delayLeft[w] <= RenewalInterval
    /\ pc[w] \in {"wait", "lead"} /\ ~Due(w) => late[w] = 0

LeaseInv == \A w \in Workers : WorkerInv(w)

\* The types of what WorkerInv says of w.
Local(w) ==
    /\ RenewalInterval \in Nat /\ MaxLate \in Nat /\ Lease \in Nat /\ ttl \in Nat
    /\ late[w] \in 0..MaxLate /\ delayLeft[w] \in Nat
    /\ pc[w] \in Locations

LEMMA LocalTypes == LeaderTypeOK => \A w \in Workers : Local(w)
BY TimingAssumption DEF LeaderTypeOK, Local

\* A worker with a running loop has used up less than the lease.
LEMMA UsedBound ==
    ASSUME NEW w \in Workers, Local(w), WorkerInv(w), Timely
    PROVE  /\ Used(w) \in Nat
           /\ Used(w) < Lease
BY DEF Used, Local, WorkerInv, Timely

\* What w itself is at does not change.
LocalKept(w) ==
    /\ pc'[w] = pc[w] /\ delayLeft'[w] = delayLeft[w] /\ late'[w] = late[w]
    /\ acting'[w] = acting[w] /\ stopping'[w] = stopping[w]

LEMMA KeptInv ==
    ASSUME NEW w \in Workers, WorkerInv(w), LocalKept(w),
           pc[w] = "granted" \/ acting[w] => UNCHANGED lease
    PROVE  WorkerInv(w)'
BY DEF WorkerInv, LocalKept, HoldsLease, Used, Due, lease

\* Where Goto takes w.
LEMMA GotoLocal ==
    ASSUME LeaderTypeOK, NEW w \in Workers, NEW location, NEW delay, Goto(w, location, delay)
    PROVE  pc'[w] = location /\ delayLeft'[w] = delay /\ late'[w] = 0
BY DEF LeaderTypeOK, Goto

\* A step of w itself.
LEMMA OwnStep ==
    ASSUME LeaderTypeOK, NEW w \in Workers, WorkerInv(w), Timely, Run(w)
    PROVE  WorkerInv(w)'
<1>1. Local(w) /\ Used(w) \in Nat /\ Used(w) < Lease
  BY LocalTypes, UsedBound
<1>2. CASE Acquire(w)
  <2>1. acting'[w] = acting[w]
    BY <1>2 DEF Acquire
  <2>2. ~acting[w]
    BY <1>2 DEF Acquire, WorkerInv
  <2>3. CASE owner = Nobody
    <3>1. SetTtl(w) /\ Goto(w, "granted", 0)
      BY <1>2, <2>3 DEF Acquire
    <3>2. pc'[w] = "granted" /\ late'[w] = 0 /\ owner' = w /\ ttl' = Lease
      BY <3>1, GotoLocal DEF SetTtl
    <3>3. QED BY <1>1, <2>1, <2>2, <3>2 DEF WorkerInv, HoldsLease, Used, Local
  <2>4. CASE owner # Nobody
    <3>1. Goto(w, "wait", RetryInterval)
      BY <1>2, <2>4 DEF Acquire
    <3>2. pc'[w] = "wait" /\ late'[w] = 0
      BY <3>1, GotoLocal
    <3>3. QED BY <2>1, <2>2, <3>2 DEF WorkerInv
  <2>5. QED BY <2>3, <2>4
<1>3. CASE AcquireFails(w) \/ Retry(w)
  <2>1. ~acting[w] /\ acting'[w] = acting[w]
    BY <1>3 DEF AcquireFails, Retry, WorkerInv
  <2>2. pc'[w] \in {"wait", "acquire", "ended"} /\ late'[w] = 0
    BY <1>3, GotoLocal DEF AcquireFails, Retry
  <2>3. QED BY <2>1, <2>2 DEF WorkerInv
<1>4. CASE Start(w)
  <2>1. /\ pc[w] = "granted" /\ owner' = owner /\ ttl' = ttl
        /\ pc'[w] = "lead" /\ delayLeft'[w] = RenewalInterval /\ late'[w] = 0
    BY <1>4, GotoLocal DEF Start, lease
  <2>2. QED BY <1>1, <2>1 DEF WorkerInv, HoldsLease, Used, Local
<1>5. CASE Wake(w)
  <2>1. /\ pc[w] = "lead" /\ owner' = owner /\ ttl' = ttl
        /\ pc'[w] \in {"renew", "stop"} /\ late'[w] = 0
        /\ acting'[w] = acting[w]
    BY <1>5, GotoLocal DEF Wake, lease
  <2>2. QED BY <1>1, <2>1 DEF WorkerInv, HoldsLease, Used, Local
<1>6. CASE Renew(w) \/ RenewFails(w)
  <2>1. /\ pc[w] = "renew" /\ late'[w] = 0 /\ acting'[w] = acting[w]
        /\ \/ owner' = w /\ ttl' = Lease /\ pc'[w] \in {"renewed", "lost"}
           \/ owner' = owner /\ ttl' = ttl /\ pc'[w] = "lost"
    BY <1>6, GotoLocal DEF Renew, RenewFails, SetTtl, lease
  <2>2. QED BY <1>1, <2>1 DEF WorkerInv, HoldsLease, Used, Local
<1>7. CASE Continue(w)
  <2>1. /\ pc[w] = "renewed" /\ owner' = owner /\ ttl' = ttl
        /\ late'[w] = 0 /\ acting'[w] = acting[w]
        /\ \/ acting[w] /\ pc'[w] = "lead" /\ delayLeft'[w] = RenewalInterval
           \/ ~acting[w] /\ pc'[w] = "stop"
    BY <1>7, GotoLocal DEF Continue, lease
  <2>2. QED BY <1>1, <2>1 DEF WorkerInv, HoldsLease, Used, Local
<1>8. CASE LoseLeadership(w)
  <2>1. /\ pc[w] = "lost" /\ owner' = owner /\ ttl' = ttl
        /\ pc'[w] = "stop" /\ late'[w] = 0 /\ acting'[w] = acting[w]
    BY <1>8, GotoLocal DEF LoseLeadership, lease
  <2>2. QED BY <1>1, <2>1 DEF WorkerInv, HoldsLease, Used, Local
<1>9. CASE ActionEnds(w)
  <2>1. /\ pc' = pc /\ delayLeft' = delayLeft /\ late' = late /\ stopping' = stopping
        /\ owner' = owner /\ ttl' = ttl /\ acting'[w] = FALSE
    BY <1>9 DEF ActionEnds, lease, LeaderTypeOK
  <2>2. QED BY <2>1 DEF WorkerInv, HoldsLease, Used, Due
<1>10. CASE ActionAwaited(w) \/ Release(w) \/ ReleaseFails(w)
  <2>1. ~acting[w] /\ acting'[w] = acting[w]
    BY <1>10 DEF ActionAwaited, Release, ReleaseFails, WorkerInv
  <2>2. pc'[w] \in {"release", "acquire", "ended"}
    BY <1>10, GotoLocal DEF ActionAwaited, Release, ReleaseFails, AfterRelease
  <2>3. QED BY <2>1, <2>2 DEF WorkerInv
<1>11. QED
  BY <1>2, <1>3, <1>4, <1>5, <1>6, <1>7, <1>8, <1>9, <1>10 DEF Run

\* A step of another worker leaves a lease that is held as it is.
LEMMA OtherStep ==
    ASSUME LeaderTypeOK, NEW w \in Workers, WorkerInv(w),
           NEW v \in Workers, v # w, Run(v) \/ Shutdown(v) \/ Restart(v)
    PROVE  WorkerInv(w)'
<1>1. LocalKept(w)
  BY DEF LeaderTypeOK, LocalKept, Run, Acquire, AcquireFails, Retry, Start, Wake, Renew,
         RenewFails, Continue, LoseLeadership, ActionEnds, ActionAwaited, Release,
         ReleaseFails, AfterRelease, Shutdown, Restart, Goto
<1>2. owner = w => UNCHANGED lease
  BY TokensAssumption
     DEF Run, Acquire, AcquireFails, Retry, Start, Wake, Renew, RenewFails, Continue,
         LoseLeadership, ActionEnds, ActionAwaited, Release, ReleaseFails, Shutdown,
         Restart, SetTtl, lease
<1>3. QED BY <1>1, <1>2, KeptInv DEF WorkerInv, HoldsLease

\* The step of time: what is due grows later and the lease grows shorter.
LEMMA TickStep ==
    ASSUME LeaderTypeOK, NEW w \in Workers, WorkerInv(w), Timely, LeaderTypeOK', Tick
    PROVE  WorkerInv(w)'
<1>1. Local(w) /\ Local(w)'
  BY TimingAssumption DEF LeaderTypeOK, Local
<1>2. /\ pc'[w] = pc[w] /\ acting'[w] = acting[w] /\ stopping'[w] = stopping[w]
      /\ delayLeft'[w] = IF delayLeft[w] > 0 THEN delayLeft[w] - 1 ELSE 0
      /\ late'[w] = IF Due(w) THEN late[w] + 1 ELSE 0
      /\ ttl' = IF ttl > 0 THEN ttl - 1 ELSE 0
      /\ owner' = IF ttl <= 1 THEN Nobody ELSE owner
  BY DEF Tick
<1>3. pc[w] = "lead" => delayLeft'[w] <= RenewalInterval
  BY <1>1, <1>2 DEF WorkerInv, Local
<1>4. pc[w] \in {"wait", "lead"} /\ ~Due(w)' => late'[w] = 0
  BY <1>1, <1>2 DEF Due, Local
<1>5. ASSUME pc[w] = "granted" \/ acting[w]
      PROVE  HoldsLease(w)'
  <2>1. /\ owner = w /\ ttl + Used(w) >= Lease
        /\ pc[w] \in {"granted", "lead", "renew", "renewed", "lost", "stop"}
    BY <1>5 DEF WorkerInv, HoldsLease
  <2>2. Used(w)' >= Used(w) + 1
    BY <1>1, <1>2, <2>1 DEF Used, Due, WorkerInv, Local
  <2>3. Used(w)' \in Nat /\ Used(w)' < Lease /\ Used(w) \in Nat /\ Used(w) < Lease
    BY <1>1, <1>2, <1>3, UsedBound DEF Used, Local, Timely
  <2>4. ttl >= 2
    BY <1>1, <2>1, <2>2, <2>3 DEF Local
  <2>5. QED BY <1>1, <1>2, <2>1, <2>2, <2>3, <2>4 DEF HoldsLease, Local
<1>6. QED BY <1>2, <1>3, <1>4, <1>5 DEF WorkerInv

LEMMA NextLeaseInv ==
    ASSUME LeaderTypeOK, LeaderTypeOK', LeaseInv, Timely, [LeaderNext]_leaderVars, ~keyLost'
    PROVE  LeaseInv'
<1> SUFFICES ASSUME NEW w \in Workers PROVE WorkerInv(w)'
  BY DEF LeaseInv
<1>1. WorkerInv(w)
  BY DEF LeaseInv
<1>2. ASSUME NEW v \in Workers, Run(v) \/ Shutdown(v) \/ Restart(v)
      PROVE  WorkerInv(w)'
  <2>1. CASE v # w
    BY <1>1, <1>2, <2>1, OtherStep
  <2>2. CASE v = w /\ Run(w)
    BY <1>1, <2>2, OwnStep
  <2>3. CASE v = w /\ Shutdown(w)
    <3>1. /\ pc' = pc /\ delayLeft' = delayLeft /\ late' = late /\ acting' = acting
          /\ owner' = owner /\ ttl' = ttl /\ ~stopping[w] /\ stopping'[w]
      BY <2>3 DEF Shutdown, lease, LeaderTypeOK
    <3>2. QED BY <1>1, <3>1 DEF WorkerInv, HoldsLease, Used, Due
  <2>4. CASE v = w /\ Restart(w)
    <3>1. pc'[w] = "acquire" /\ acting'[w] = FALSE
      BY <2>4, GotoLocal DEF Restart, LeaderTypeOK
    <3>2. QED BY <3>1 DEF WorkerInv
  <2>5. QED BY <1>2, <2>1, <2>2, <2>3, <2>4
<1>3. CASE LoseLease
  BY <1>3 DEF LoseLease, Fault
<1>4. CASE Tick
  BY <1>1, <1>4, TickStep
<1>5. CASE UNCHANGED leaderVars
  BY <1>1, <1>5, KeptInv DEF leaderVars, LocalKept, lease
<1>6. QED BY <1>2, <1>3, <1>4, <1>5 DEF LeaderNext

\* A key that was lost stays lost.
LEMMA KeyLostStays == LeaderTypeOK /\ keyLost /\ [LeaderNext]_leaderVars => keyLost'
<1> SUFFICES ASSUME LeaderTypeOK, keyLost, [LeaderNext]_leaderVars PROVE keyLost'
  OBVIOUS
<1>1. ASSUME NEW w \in Workers, Run(w) \/ Shutdown(w) \/ Restart(w)
      PROVE  keyLost'
  BY <1>1 DEF Run, Acquire, AcquireFails, Retry, Start, Wake, Renew, RenewFails, Continue,
              LoseLeadership, ActionEnds, ActionAwaited, Release, ReleaseFails, Shutdown,
              Restart, Fault, mishaps
<1>2. CASE LoseLease \/ Tick
  BY <1>2 DEF LoseLease, Tick, Fault, mishaps
<1>3. CASE UNCHANGED leaderVars
  BY <1>3 DEF leaderVars, mishaps
<1>4. QED BY <1>1, <1>2, <1>3 DEF LeaderNext

\* When five late steps and a renewal interval are shorter than the lease and
\* as long as Redis loses no key, two workers never run the loop at once.
THEOREM LeadersExclude == Timely => (LeaderSafeSpec => []Exclusive)
<1> SUFFICES ASSUME Timely PROVE LeaderSafeSpec => []Exclusive
  OBVIOUS
<1>1. LeaderInit => LeaseInv
  BY DEF LeaderInit, LeaseInv, WorkerInv, Due
<1>2. ASSUME LeaderTypeOK, LeaderTypeOK', ~keyLost => LeaseInv, [LeaderNext]_leaderVars
      PROVE  ~keyLost' => LeaseInv'
  BY <1>2, NextLeaseInv, KeyLostStays
<1>3. (~keyLost => LeaseInv) => Exclusive
  BY DEF LeaseInv, WorkerInv, HoldsLease, Exclusive
<1>4. QED BY <1>1, <1>2, <1>3, LeadershipTypes, PTL DEF LeaderSafeSpec

-----------------------------------------------------------------------------
\* However late a worker is, its renewals and its release touch no lease but its
\* own.
THEOREM ReplacementsSafe == LeaderSafeSpec => ReplacementSafe
<1> DEFINE EndsFairly(w) == owner = w /\ owner' # w =>
               pc[w] \in {"release", "ended"} \/ ttl <= 1 \/ faults' > faults
           ExtendsOwn == owner' = owner /\ ttl' > ttl =>
               \E w \in Workers : owner = w /\ pc[w] = "renew"
<1>1. ASSUME LeaderTypeOK, [LeaderNext]_leaderVars
      PROVE  (\A w \in Workers : EndsFairly(w)) /\ ExtendsOwn
  <2>1. faults \in Nat /\ ttl \in Nat
    BY <1>1, TimingAssumption DEF LeaderTypeOK
  <2>2. ASSUME NEW v \in Workers, Run(v)
        PROVE  (\A w \in Workers : EndsFairly(w)) /\ ExtendsOwn
    <3>1. \/ UNCHANGED lease
          \/ owner = Nobody /\ owner' = v
          \/ pc[v] = "renew" /\ owner = v /\ owner' = v
          \/ pc[v] = "release" /\ owner = v /\ owner' = Nobody /\ ttl' = 0
      BY <2>2 DEF Run, Acquire, AcquireFails, Retry, Start, Wake, Renew, RenewFails,
                  Continue, LoseLeadership, ActionEnds, ActionAwaited, Release,
                  ReleaseFails, SetTtl, lease
    <3>2. QED BY <2>1, <3>1, TokensAssumption DEF lease
  <2>3. ASSUME NEW v \in Workers, Shutdown(v) \/ Restart(v)
        PROVE  (\A w \in Workers : EndsFairly(w)) /\ ExtendsOwn
    BY <2>1, <2>3 DEF Shutdown, Restart, Fault, lease, mishaps
  <2>4. CASE LoseLease
    BY <2>1, <2>4 DEF LoseLease, Fault
  <2>5. CASE Tick
    <3>1. \A w \in Workers : EndsFairly(w)
      BY <2>1, <2>5 DEF Tick
    <3>2. QED BY <2>1, <2>5, <3>1 DEF Tick
  <2>6. CASE UNCHANGED leaderVars
    BY <2>1, <2>6 DEF leaderVars, lease, mishaps
  <2>7. QED BY <1>1, <2>2, <2>3, <2>4, <2>5, <2>6 DEF LeaderNext
<1>2. LeaderTypeOK /\ [LeaderNext]_leaderVars =>
          [/\ \A w \in Workers : owner = w /\ owner' # w =>
                 pc[w] \in {"release", "ended"} \/ ttl <= 1 \/ faults' > faults
           /\ owner' = owner /\ ttl' > ttl =>
                 \E w \in Workers : owner = w /\ pc[w] = "renew"]_leaderVars
  BY <1>1
<1>3. QED BY <1>2, LeadershipTypes, PTL DEF LeaderSafeSpec, ReplacementSafe
=============================================================================
