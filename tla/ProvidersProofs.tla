--------------------------- MODULE ProvidersProofs ---------------------------
(***************************************************************************)
(* The safety of the provider services, each for every number of requests, *)
(* tokens, workers or subscriptions and for all times that satisfy the     *)
(* assumptions of its module: one section for each, and at the end the two *)
(* theorems on the services together.                                      *)
(***************************************************************************)
EXTENDS Providers, TLAPS, FiniteSetTheorems

-----------------------------------------------------------------------------
(* TwitchDelivery.  Requests take any time, so that a lease may run out     *)
(* under its request.  Until then the request finds its token under the     *)
(* key; and if the message was completed nevertheless, its lease was asked  *)
(* for after the memory of the completion had ended.                        *)

\* What a request in progress knows of its message and its age.
Underway ==
    \A d \in Deliveries : request[d].pc # "idle" =>
        /\ request[d].m <= count
        /\ request[d].since <= clock
        /\ request[d].since <= sent[request[d].m] + Ahead + MaxAge

\* A request at work holds the key until its lease ends, and never longer.
HoldsKey ==
    \A d \in Deliveries : Working(d) =>
        /\ request[d].until <= clock + Processing
        /\ clock < request[d].until =>
               key[request[d].m] = [value |-> d, until |-> request[d].until]
        /\ key[request[d].m].value = d => key[request[d].m].until <= request[d].until

\* What the history and the key say of each other.
Recorded ==
    /\ \A d \in Deliveries : request[d].pc = "updated" => request[d].m \in applied
    /\ \A n \in Messages : Held(n) /\ key[n].value = "completed" => n \in completed
    /\ completed \subseteq applied
    /\ acked \subseteq applied

\* A completed message stays marked until the memory of it may end.
Remembered ==
    \A n \in completed :
        /\ n <= count
        /\ \/ key[n].value = "completed" /\ key[n].until >= sent[n] + Replay
           \/ clock >= sent[n] + Replay

\* A lease of a completed message was given after that.
Late ==
    \A d \in Deliveries : InTime(d) /\ request[d].m \in completed =>
        request[d].until >= sent[request[d].m] + Replay + Processing

SentInThePast == \A n \in Messages : n <= count => sent[n] <= clock

DeliveryInv ==
    TypeOK /\ Underway /\ HoldsKey /\ Recorded /\ Remembered /\ Late /\ SentInThePast

USE TimesAssumption, NoTokenAssumption

(* The initial states satisfy the inductive invariant. *)
LEMMA DeliveryInitInv == Init => DeliveryInv
<1> SUFFICES ASSUME Init PROVE DeliveryInv
  OBVIOUS
<1>1. TypeOK
  BY DEF Init, TypeOK, Idle, NoReading, Messages, Times
<1>2. Underway /\ HoldsKey /\ Recorded /\ Remembered /\ Late /\ SentInThePast
  BY DEF Init, Underway, HoldsKey, Working, InTime, Recorded, Remembered, Late, SentInThePast, Idle, Held
<1> QED BY <1>1, <1>2 DEF DeliveryInv

(* The types of a request that is not idle. *)
LEMMA RequestTypes ==
  ASSUME TypeOK, NEW d \in Deliveries, request[d].pc # "idle"
  PROVE  /\ request[d] \in [pc : {"checked", "acquired", "updated"}, m : Messages,
                            since : 0 .. MaxTime, until : Times]
         /\ request[d].m \in Messages /\ request[d].since \in Nat /\ request[d].until \in Nat
         /\ key[request[d].m] \in [value : Deliveries \cup {"completed"}, until : Times]
         /\ key[request[d].m].until \in Nat /\ clock \in Nat /\ sent[request[d].m] \in Nat
  BY DEF TypeOK, Idle, Times

(* Under the invariant a request whose lease lasts holds the key. *)
LEMMA InTimeHolds ==
  ASSUME DeliveryInv, NEW d \in Deliveries, InTime(d)
  PROVE  Mine(d)
<1>1. Working(d) /\ clock < request[d].until
  BY DEF InTime
<1>2. key[request[d].m] = [value |-> d, until |-> request[d].until]
  BY <1>1 DEF DeliveryInv, HoldsKey
<1> QED BY <1>1, <1>2 DEF Mine, Held

(* A request that holds the key is within its lease. *)
LEMMA MineInTime ==
  ASSUME DeliveryInv, NEW d \in Deliveries, Working(d), Mine(d)
  PROVE  InTime(d)
<1>1. request[d].pc # "idle" /\ key[request[d].m].until <= request[d].until
  BY DEF Working, Mine, DeliveryInv, HoldsKey
<1>2. TypeOK
  BY DEF DeliveryInv
<1> QED BY <1>1, <1>2, RequestTypes DEF Mine, Held, InTime

(* A completed message that is not held was sent a memory ago. *)
LEMMA CompletedLongAgo ==
  ASSUME DeliveryInv, NEW n \in Messages, n \in completed, ~Held(n)
  PROVE  clock >= sent[n] + Replay
<1>1. key[n].until \in Nat /\ clock \in Nat /\ sent[n] \in Nat
  BY DEF DeliveryInv, TypeOK, Times
<1> QED BY <1>1 DEF DeliveryInv, Remembered, Held

(* Every step keeps the types. *)
LEMMA DeliveryTypeStep == TypeOK /\ [Next]_vars => TypeOK'
<1> SUFFICES ASSUME TypeOK, [Next]_vars PROVE TypeOK'
  OBVIOUS
<1> USE DEF TypeOK, history, stream
<1>1. ASSUME ChangeStream PROVE TypeOK'
  BY <1>1 DEF ChangeStream, Messages
<1>2. ASSUME Tick PROVE TypeOK'
  BY <1>2 DEF Tick
<1>3. ASSUME NEW d \in Deliveries, NEW n \in Messages, Arrive(d, n) PROVE TypeOK'
  BY <1>3 DEF Arrive, Idle, Times
<1>4. ASSUME NEW d \in Deliveries, Acquire(d) PROVE TypeOK'
  <2>1. /\ request[d] \in [pc : {"checked", "acquired", "updated"}, m : Messages,
                            since : 0 .. MaxTime, until : Times]
        /\ clock + Processing \in Times
    BY <1>4 DEF Acquire, At, Idle, Times
  <2>2. [request[d] EXCEPT !.pc = "acquired", !.until = clock + Processing] \in
            [pc : {"checked", "acquired", "updated"}, m : Messages, since : 0 .. MaxTime, until : Times]
    BY <2>1
  <2>3. request' = [request EXCEPT ![d] =
                      [request[d] EXCEPT !.pc = "acquired", !.until = clock + Processing]]
    BY <1>4 DEF Acquire
  <2>4. request' \in [Deliveries -> {Idle} \cup
            [pc : {"checked", "acquired", "updated"}, m : Messages, since : 0 .. MaxTime, until : Times]]
    BY <2>2, <2>3
  <2>5. key' \in [Messages -> [value : Deliveries \cup {"completed"}, until : Times]]
    BY <1>4, <2>1 DEF Acquire
  <2> QED BY <1>4, <2>4, <2>5 DEF Acquire
<1>5. ASSUME NEW d \in Deliveries, AnswerCompleted(d) PROVE TypeOK'
  BY <1>5 DEF AnswerCompleted, At, End, Idle
<1>6. ASSUME NEW d \in Deliveries, AnswerProcessing(d) PROVE TypeOK'
  BY <1>6 DEF AnswerProcessing, At, End, Idle
<1>7. ASSUME NEW d \in Deliveries, Update(d) PROVE TypeOK'
  BY <1>7 DEF Update, At, Goto, Idle, StatusAfter
<1>8. ASSUME NEW d \in Deliveries, Complete(d) \/ CompleteUnheard(d) PROVE TypeOK'
  <2>1. request[d].m \in Messages /\ clock + Replay \in Times
    BY <1>8 DEF Complete, CompleteUnheard, At, Idle, Times
  <2> QED BY <1>8, <2>1 DEF Complete, CompleteUnheard, CompletedKey, End, Idle
<1>9. ASSUME NEW d \in Deliveries, Fail(d) PROVE TypeOK'
  <2>1. request[d].m \in Messages
    BY <1>9 DEF Fail, At, Idle
  <2>2. Dispose(d) \in [Messages -> [value : Deliveries \cup {"completed"}, until : Times]]
    BY <2>1 DEF Dispose, Times
  <2> QED BY <1>9, <2>2 DEF Fail, End, Idle
<1>10. ASSUME NEW d \in Deliveries, Crash(d) PROVE TypeOK'
  BY <1>10 DEF Crash, End, Idle
<1>11. ASSUME GetStream \/ SeedState \/ ReconcileFails PROVE TypeOK'
  BY <1>11 DEF GetStream, SeedState, ReconcileFails, StatusAfter, NoReading
<1>12. CASE UNCHANGED vars
  BY <1>12 DEF vars
<1> QED BY <1>1, <1>2, <1>3, <1>4, <1>5, <1>6, <1>7, <1>8, <1>9, <1>10, <1>11, <1>12
        DEF Next, Handle

(* Every step keeps the rest of the inductive invariant. *)
LEMMA DeliveryInvStep == DeliveryInv /\ [Next]_vars => DeliveryInv'
<1> SUFFICES ASSUME DeliveryInv, [Next]_vars PROVE DeliveryInv'
  OBVIOUS
<1>0. TypeOK /\ TypeOK'
  BY DeliveryTypeStep DEF DeliveryInv
<1>t. \A d \in Deliveries : request[d].pc # "idle" =>
        /\ request[d].m \in Messages /\ request[d].since \in Nat /\ request[d].until \in Nat
        /\ key[request[d].m].until \in Nat /\ clock \in Nat /\ sent[request[d].m] \in Nat
  BY <1>0, RequestTypes
<1> DEFINE Others == Underway /\ HoldsKey /\ Recorded /\ Remembered /\ Late /\ SentInThePast
<1> SUFFICES Others'
  BY <1>0 DEF DeliveryInv
<1> USE DEF Others, history, stream
<1>1. ASSUME ChangeStream PROVE Others'
  <2>1. /\ count' = count + 1 /\ count + 1 \in Messages
        /\ \A n \in Messages : n <= count => sent'[n] = sent[n]
        /\ sent'[count + 1] = clock
        /\ UNCHANGED <<clock, key, request, status, reconcile, history>>
    BY <1>0, <1>1 DEF ChangeStream, TypeOK, Messages
  <2>2. \A d \in Deliveries : request[d].pc # "idle" =>
            request[d].m <= count /\ sent'[request[d].m] = sent[request[d].m]
    BY <1>t, <2>1 DEF DeliveryInv, Underway
  <2>3. Underway'
    <3>1. SUFFICES ASSUME NEW d \in Deliveries, request[d].pc # "idle"
                   PROVE  /\ request[d].m <= count + 1 /\ request[d].since <= clock
                          /\ request[d].since <= sent'[request[d].m] + Ahead + MaxAge
      BY <2>1 DEF Underway
    <3>2. request[d].m <= count /\ sent'[request[d].m] = sent[request[d].m]
      BY <2>2, <3>1
    <3>3. request[d].m \in Nat /\ count \in Nat
      BY <1>0, <1>t, <3>1 DEF TypeOK, Messages
    <3>4. request[d].since <= clock /\ request[d].since <= sent[request[d].m] + Ahead + MaxAge
      BY <3>1 DEF DeliveryInv, Underway
    <3> QED BY <3>2, <3>3, <3>4
  <2>6. Late'
    BY <2>1, <2>2 DEF DeliveryInv, Late, InTime, Working
  <2>4. HoldsKey' /\ Recorded'
    BY <2>1 DEF DeliveryInv, HoldsKey, Working, Recorded, Held
  <2>5. Remembered' /\ SentInThePast'
    BY <1>0, <2>1 DEF DeliveryInv, Remembered, SentInThePast, TypeOK, Messages
  <2> QED BY <2>3, <2>4, <2>5, <2>6
<1>2. ASSUME Tick PROVE Others'
  <2>1. /\ clock' = clock + 1 /\ clock \in Nat
        /\ UNCHANGED <<sent, count, key, request, status, reconcile, history>>
    BY <1>0, <1>2 DEF Tick, TypeOK
  <2>2. Underway' /\ HoldsKey' /\ Late'
    BY <1>t, <2>1 DEF DeliveryInv, Underway, HoldsKey, Late, InTime, Working
  <2>3. Recorded' /\ Remembered' /\ SentInThePast'
    BY <1>0, <2>1 DEF DeliveryInv, Recorded, Remembered, SentInThePast, Held, TypeOK, Times
  <2> QED BY <2>2, <2>3
<1>3. ASSUME NEW d \in Deliveries, NEW n \in Messages, Arrive(d, n) PROVE Others'
  <2>1. \A e \in Deliveries : e # d => request'[e] = request[e]
    BY <1>0, <1>3 DEF Arrive, TypeOK
  <2>2. /\ request'[d] = [pc |-> "checked", m |-> n, since |-> clock, until |-> 0]
        /\ n <= count /\ clock <= sent[n] + Ahead + MaxAge
    BY <1>0, <1>3 DEF Arrive, IsFresh, TypeOK
  <2>3. UNCHANGED <<stream, key, status, reconcile, history>>
    BY <1>3 DEF Arrive
  <2>4. Underway'
    <3>1. SUFFICES ASSUME NEW e \in Deliveries, request'[e].pc # "idle"
                   PROVE  /\ request'[e].m <= count' /\ request'[e].since <= clock'
                          /\ request'[e].since <= sent'[request'[e].m] + Ahead + MaxAge
      BY DEF Underway
    <3>2. CASE e = d
      BY <1>0, <2>2, <2>3, <3>2 DEF TypeOK
    <3>3. CASE e # d
      BY <2>1, <2>3, <3>1, <3>3 DEF DeliveryInv, Underway
    <3> QED BY <3>2, <3>3
  <2>5. HoldsKey' /\ Late'
    BY <2>1, <2>2, <2>3 DEF DeliveryInv, HoldsKey, Late, InTime, Working
  <2>6. Recorded' /\ Remembered' /\ SentInThePast'
    BY <2>1, <2>2, <2>3 DEF DeliveryInv, Recorded, Remembered, SentInThePast, Held
  <2> QED BY <2>4, <2>5, <2>6
<1>4. ASSUME NEW d \in Deliveries, Acquire(d) PROVE Others'
  <2> DEFINE n == request[d].m
  <2>1. /\ request[d].pc = "checked" /\ n \in Messages /\ ~Held(n) /\ clock \in Nat
        /\ request[d] \in [pc : {"checked", "acquired", "updated"}, m : Messages,
                            since : 0 .. MaxTime, until : Times]
    BY <1>0, <1>4, RequestTypes DEF Acquire, At
  <2>2. /\ \A e \in Deliveries : e # d => request'[e] = request[e]
        /\ request'[d] = [request[d] EXCEPT !.pc = "acquired", !.until = clock + Processing]
        /\ key' = [key EXCEPT ![n] = [value |-> d, until |-> clock + Processing]]
        /\ UNCHANGED <<stream, status, reconcile, history>>
    BY <1>0, <1>4 DEF Acquire, TypeOK
  <2>3. /\ request'[d].pc = "acquired" /\ request'[d].m = n
        /\ request'[d].since = request[d].since /\ request'[d].until = clock + Processing
    BY <2>1, <2>2
  <2>4. /\ key'[n] = [value |-> d, until |-> clock + Processing]
        /\ \A o \in Messages : o # n => key'[o] = key[o]
    BY <1>0, <2>1, <2>2 DEF TypeOK
  <2>5. \A e \in Deliveries : InTime(e) => request[e].m # n
    BY <2>1, InTimeHolds DEF Mine
  <2>6. n \in completed => clock >= sent[n] + Replay
    BY <2>1, CompletedLongAgo
  <2>7. Underway'
    BY <2>1, <2>2, <2>3 DEF DeliveryInv, Underway
  <2>8. HoldsKey'
    <3>1. SUFFICES ASSUME NEW e \in Deliveries, Working(e)'
                   PROVE  /\ request'[e].until <= clock' + Processing
                          /\ clock' < request'[e].until =>
                               key'[request'[e].m] = [value |-> e, until |-> request'[e].until]
                          /\ key'[request'[e].m].value = e =>
                               key'[request'[e].m].until <= request'[e].until
      BY DEF HoldsKey
    <3>2. CASE e = d
      <4>1. request'[e].m = n /\ request'[e].until = clock + Processing /\ clock' = clock
        BY <2>2, <2>3, <3>2
      <4>2. key'[n] = [value |-> e, until |-> clock + Processing]
        BY <2>4, <3>2
      <4> QED BY <2>1, <4>1, <4>2
    <3>3. CASE e # d
      <4>1. request'[e] = request[e] /\ Working(e) /\ clock' = clock /\ request[e].m \in Messages
        BY <1>t, <2>2, <3>1, <3>3 DEF Working
      <4>2. CASE request[e].m = n
        BY <2>3, <2>4, <2>5, <3>3, <4>1, <4>2 DEF DeliveryInv, HoldsKey, InTime
      <4>3. CASE request[e].m # n
        BY <2>4, <4>1, <4>3 DEF DeliveryInv, HoldsKey
      <4> QED BY <4>2, <4>3
    <3> QED BY <3>2, <3>3
  <2>9. Recorded' /\ SentInThePast'
    <3>1. \A o \in Messages : Held(o)' /\ key'[o].value = "completed" => o \in completed
      BY <2>2, <2>4 DEF DeliveryInv, Recorded, Held
    <3> QED BY <2>2, <2>3, <3>1 DEF DeliveryInv, Recorded, SentInThePast
  <2>10. Remembered'
    BY <1>0, <2>2, <2>4, <2>6 DEF DeliveryInv, Remembered, TypeOK
  <2>11. Late'
    <3>1. n \in completed => clock + Processing >= sent[n] + Replay + Processing
      BY <1>0, <2>1, <2>6 DEF TypeOK
    <3> QED BY <2>2, <2>3, <3>1 DEF DeliveryInv, Late, InTime, Working
  <2> QED BY <2>7, <2>8, <2>9, <2>10, <2>11
<1>5. ASSUME NEW d \in Deliveries, AnswerCompleted(d) PROVE Others'
  <2>1. request[d].m \in completed
    BY <1>t, <1>5 DEF AnswerCompleted, At, DeliveryInv, Recorded
  <2> QED BY <1>0, <1>5, <2>1
          DEF AnswerCompleted, End, DeliveryInv, TypeOK, Idle, Held, Underway, HoldsKey, Working,
              InTime, Recorded, Remembered, Late, SentInThePast
<1>6. ASSUME NEW d \in Deliveries, AnswerProcessing(d) \/ Crash(d) PROVE Others'
  BY <1>0, <1>6, SMTT(30) DEF AnswerProcessing, Crash, End, DeliveryInv, TypeOK, Idle, Held, Underway,
       HoldsKey, Working, InTime, Recorded, Remembered, Late, SentInThePast
<1>7. ASSUME NEW d \in Deliveries, Update(d) PROVE Others'
  <2>1. /\ \A e \in Deliveries : e # d => request'[e] = request[e]
        /\ request'[d] = [request[d] EXCEPT !.pc = "updated"]
        /\ request[d].pc = "acquired" /\ applied' = applied \cup {request[d].m}
        /\ UNCHANGED <<stream, key, reconcile, completed, acked>>
    BY <1>0, <1>7 DEF Update, At, Goto, TypeOK
  <2>2. /\ request'[d].pc = "updated" /\ request'[d].m = request[d].m
        /\ request'[d].since = request[d].since /\ request'[d].until = request[d].until
    BY <1>0, <2>1, RequestTypes
  <2>3. Underway' /\ HoldsKey' /\ Late'
    <3>1. \A e \in Deliveries :
            /\ request'[e].m = request[e].m /\ request'[e].since = request[e].since
            /\ request'[e].until = request[e].until /\ (Working(e)' => Working(e))
            /\ (request'[e].pc # "idle" => request[e].pc # "idle")
      BY <2>1, <2>2 DEF Working
    <3>2. \A e \in Deliveries : InTime(e)' => InTime(e)
      BY <2>1, <3>1 DEF InTime
    <3>3. Underway'
      BY <2>1, <3>1 DEF DeliveryInv, Underway
    <3>4. HoldsKey'
      BY <2>1, <3>1 DEF DeliveryInv, HoldsKey
    <3>5. Late'
      BY <2>1, <3>1, <3>2 DEF DeliveryInv, Late
    <3> QED BY <3>3, <3>4, <3>5
  <2>4. Recorded' /\ Remembered' /\ SentInThePast'
    BY <2>1, <2>2 DEF DeliveryInv, Recorded, Remembered, SentInThePast, Held
  <2> QED BY <2>3, <2>4
<1>8. ASSUME NEW d \in Deliveries, Complete(d) \/ CompleteUnheard(d) PROVE Others'
  <2> DEFINE n == request[d].m
  <2>1. /\ n \in Messages /\ n \in applied /\ n <= count /\ Mine(d) /\ Working(d)
        /\ key[n].value = d /\ clock \in Nat /\ sent[n] <= clock
    BY <1>t, <1>8 DEF Complete, CompleteUnheard, At, Mine, Working, DeliveryInv, Recorded,
         Underway, SentInThePast
  <2>2. \A e \in Deliveries : e # d /\ InTime(e) => request[e].m # n
    BY <2>1, InTimeHolds DEF Mine
  <2>3. request'[d] = Idle /\ \A e \in Deliveries : e # d => request'[e] = request[e]
    BY <1>0, <1>8 DEF Complete, CompleteUnheard, End, TypeOK
  <2>4. /\ key' = [key EXCEPT ![n] = [value |-> "completed", until |-> clock + Replay]]
        /\ completed' = completed \cup {n}
        /\ acked' \subseteq acked \cup {n}
        /\ UNCHANGED <<stream, applied>>
    BY <1>8 DEF Complete, CompleteUnheard, CompletedKey
  <2>5. /\ key'[n] = [value |-> "completed", until |-> clock + Replay]
        /\ \A o \in Messages : o # n => key'[o] = key[o]
    BY <1>0, <2>1, <2>4 DEF TypeOK
  <2>6. Underway'
    BY <2>3, <2>4 DEF DeliveryInv, Underway, Idle
  <2>7. HoldsKey'
    <3>1. SUFFICES ASSUME NEW e \in Deliveries, Working(e)'
                   PROVE  /\ request'[e].until <= clock' + Processing
                          /\ clock' < request'[e].until =>
                               key'[request'[e].m] = [value |-> e, until |-> request'[e].until]
                          /\ key'[request'[e].m].value = e =>
                               key'[request'[e].m].until <= request'[e].until
      BY DEF HoldsKey
    <3>2. e # d /\ request'[e] = request[e] /\ Working(e) /\ clock' = clock
          /\ request[e].m \in Messages
      BY <1>t, <2>3, <2>4, <3>1 DEF Working, Idle
    <3>3. CASE request[e].m = n
      BY <2>2, <2>5, <3>2, <3>3 DEF DeliveryInv, HoldsKey, InTime
    <3>4. CASE request[e].m # n
      BY <2>5, <3>2, <3>4 DEF DeliveryInv, HoldsKey
    <3> QED BY <3>3, <3>4
  <2>8. Recorded' /\ SentInThePast'
    <3>1. \A o \in Messages : Held(o)' /\ key'[o].value = "completed" => o \in completed'
      BY <2>4, <2>5 DEF DeliveryInv, Recorded, Held
    <3> QED BY <2>1, <2>3, <2>4, <3>1 DEF DeliveryInv, Recorded, SentInThePast, Idle
  <2>9. Remembered'
    BY <1>0, <2>1, <2>4, <2>5 DEF DeliveryInv, Remembered, TypeOK
  <2>10. Late'
    BY <2>2, <2>3, <2>4 DEF DeliveryInv, Late, InTime, Working, Idle
  <2> QED BY <2>6, <2>7, <2>8, <2>9, <2>10
<1>9. ASSUME NEW d \in Deliveries, Fail(d) PROVE Others'
  <2> DEFINE n == request[d].m
  <2>1. n \in Messages /\ Working(d)
    BY <1>t, <1>9 DEF Fail, At, Working
  <2>2. request'[d] = Idle /\ (\A e \in Deliveries : e # d => request'[e] = request[e])
        /\ key' = Dispose(d) /\ UNCHANGED <<stream, status, reconcile, history>>
    BY <1>0, <1>9 DEF Fail, End, TypeOK
  <2>3. CASE ~Mine(d)
    BY <2>2, <2>3 DEF Dispose, DeliveryInv, Idle, Held, Underway, HoldsKey, Working, InTime,
         Recorded, Remembered, Late, SentInThePast
  <2>4. CASE Mine(d)
    <3>1. /\ key'[n] = [key[n] EXCEPT !.until = 0] /\ key[n].value = d
          /\ \A o \in Messages : o # n => key'[o] = key[o]
      BY <1>0, <2>1, <2>2, <2>4 DEF Dispose, Mine, TypeOK
    <3>2. key'[n].until = 0 /\ key'[n].value = d
      BY <1>0, <2>1, <3>1 DEF TypeOK
    <3>3. \A e \in Deliveries : e # d /\ InTime(e) => request[e].m # n
      BY <2>4, InTimeHolds DEF Mine
    <3>4. Underway' /\ Late' /\ SentInThePast'
      BY <2>2 DEF DeliveryInv, Underway, Late, InTime, Working, SentInThePast, Idle
    <3>5. HoldsKey'
      <4>1. SUFFICES ASSUME NEW e \in Deliveries, Working(e)'
                     PROVE  /\ request'[e].until <= clock' + Processing
                            /\ clock' < request'[e].until =>
                                 key'[request'[e].m] = [value |-> e, until |-> request'[e].until]
                            /\ key'[request'[e].m].value = e =>
                                 key'[request'[e].m].until <= request'[e].until
        BY DEF HoldsKey
      <4>2. e # d /\ request'[e] = request[e] /\ Working(e) /\ clock' = clock
            /\ request[e].m \in Messages
        BY <1>t, <2>2, <4>1 DEF Working, Idle
      <4>3. CASE request[e].m = n
        BY <3>2, <3>3, <4>2, <4>3 DEF DeliveryInv, HoldsKey, InTime
      <4>4. CASE request[e].m # n
        BY <3>1, <4>2, <4>4 DEF DeliveryInv, HoldsKey
      <4> QED BY <4>3, <4>4
    <3>6. Recorded'
      <4>1. \A o \in Messages : Held(o)' /\ key'[o].value = "completed" => o \in completed
        <5>1. clock' = clock /\ clock \in Nat
          BY <1>0, <2>2 DEF TypeOK
        <5> QED BY <3>1, <3>2, <5>1 DEF DeliveryInv, Recorded, Held
      <4> QED BY <2>2, <4>1 DEF DeliveryInv, Recorded, Idle
    <3>7. Remembered'
      <4>1. \A o \in completed : o # n => key'[o] = key[o]
        BY <1>0, <3>1 DEF TypeOK
      <4>2. n \in completed => clock >= sent[n] + Replay
        BY <3>1 DEF DeliveryInv, Remembered
      <4> QED BY <2>2, <4>1, <4>2 DEF DeliveryInv, Remembered
    <3> QED BY <3>4, <3>5, <3>6, <3>7
  <2> QED BY <2>3, <2>4
<1>10. ASSUME GetStream \/ SeedState \/ ReconcileFails \/ UNCHANGED vars PROVE Others'
  BY <1>10 DEF GetStream, SeedState, ReconcileFails, vars, DeliveryInv, Held, Underway,
       HoldsKey, Working, InTime, Recorded, Remembered, Late, SentInThePast
<1> QED BY <1>1, <1>2, <1>3, <1>4, <1>5, <1>6, <1>7, <1>8, <1>9, <1>10
        DEF Next, Handle

(* The inductive invariant holds in every behaviour. *)
THEOREM DeliveryInvariant == SafeSpec => []DeliveryInv
BY DeliveryInitInv, DeliveryInvStep, PTL DEF SafeSpec

(* The type invariant of the webhook and the reconcile. *)
THEOREM DeliveryTypes == SafeSpec => []TypeOK
<1>1. DeliveryInv => TypeOK
  BY DEF DeliveryInv
<1> QED BY <1>1, DeliveryInvariant, PTL

(* A message answered 200, after which Twitch forgets it, has been applied. *)
THEOREM AcknowledgedOnlyIfApplied == SafeSpec => []AckMeansApplied
<1>1. DeliveryInv => AckMeansApplied
  BY DEF DeliveryInv, Recorded, AckMeansApplied
<1> QED BY <1>1, DeliveryInvariant, PTL

(* While the lease of a request lasts, whoever else still processes its    *)
(* message has outlived a lease and can neither complete nor release.       *)
THEOREM OneAtATime == SafeSpec => []OneProcessor
<1>1. ASSUME DeliveryInv PROVE OneProcessor
  <2>1. SUFFICES ASSUME NEW d \in Deliveries, NEW e \in Deliveries,
                        d # e, request[d].m = request[e].m, InTime(d), Working(e)
                 PROVE  Mine(d) /\ ~InTime(e) /\ ~Mine(e)
    BY DEF OneProcessor
  <2>2. Mine(d) /\ (InTime(e) => Mine(e))
    BY <1>1, <2>1, InTimeHolds
  <2> QED BY <2>1, <2>2 DEF Mine
<1> QED BY <1>1, DeliveryInvariant, PTL

(* A completed message is applied again only by a request that outlived its *)
(* lease, or that waited between the age check and the lease for as long as *)
(* the memory of completed messages outlasts their freshness.               *)
THEOREM CompletedOnce == SafeSpec => NotAppliedAgain
<1>1. ASSUME DeliveryInv
      PROVE  [\A d \in Deliveries :
                At(d, "acquired") /\ request'[d].pc = "updated" /\ request[d].m \in completed
                   => ~InTime(d) \/ Waited(d)]_vars
  <2>1. SUFFICES ASSUME NEW d \in Deliveries, At(d, "acquired"), InTime(d),
                        request[d].m \in completed
                 PROVE  Waited(d)
    OBVIOUS
  <2>2. request[d].until >= sent[request[d].m] + Replay + Processing
    BY <1>1, <2>1 DEF DeliveryInv, Late
  <2>3. request[d].since <= sent[request[d].m] + Ahead + MaxAge
    BY <1>1, <2>1 DEF At, DeliveryInv, Underway
  <2>4. request[d].pc # "idle" /\ TypeOK
    BY <1>1, <2>1 DEF At, DeliveryInv
  <2> QED BY <2>2, <2>3, <2>4, RequestTypes DEF Waited
<1> QED BY <1>1, DeliveryInvariant, PTL DEF NotAppliedAgain

HIDE NoTokenAssumption
HIDE TimesAssumption

-----------------------------------------------------------------------------
(* AppToken.  Every token but the cached one is spent, aged or revoked;     *)
(* while a call fetches, the cached one is spent too, because nobody else   *)
(* can change the cache without the semaphore.  So a fetch is paid for by a *)
(* spent token.  A refused token is revoked and is never cached again.      *)

Spent == aged \cup revoked

\* Every token issued is spent, but for the one that is cached.
OthersSpent == 1 .. issued \ {cached} \subseteq Spent

\* One call fetches, it has the semaphore, and no token is left to use.
Fetching ==
    \A c \in Calls : TokenAt(c, "fetch") =>
        gate = c /\ issued < MaxTokens /\ 1 .. issued \subseteq Spent

\* What a call knows of the token it has and of the one refused before.
Known(c) ==
    /\ TokenAt(c, "send") => call[c].token # 0 /\ call[c].token # call[c].refused
    /\ TokenAt(c, "invalidate") => call[c].token # 0 /\ call[c].token \in revoked
    /\ call[c].refused # 0 => call[c].refused # cached
Refusals == \A c \in Calls : Known(c)

TokenInv == TokenTypeOK /\ OthersSpent /\ Fetching /\ Refusals

USE MaxTokensAssumption, FreeAssumption

TokenCall == [pc : {"idle", "get", "wait", "fetch", "send", "invalidate"},
         token : 0 .. issued, refused : 0 .. issued]

(* The initial states satisfy the inductive invariant. *)
LEMMA TokenInitInv == TokenInit => TokenInv
  BY DEF TokenInit, TokenInv, TokenTypeOK, OthersSpent, Fetching, Refusals, Known, Spent, TokenIdle, TokenAt

(* A step that moves one call and leaves the tokens keeps the types. *)
LEMMA CallMoves ==
  ASSUME TokenTypeOK, NEW c \in Calls, UNCHANGED <<issued, aged, revoked>>,
         cached' \in 0 .. issued, gate' \in Calls \cup {Free},
         NEW state \in TokenCall, call' = [call EXCEPT ![c] = state]
  PROVE  TokenTypeOK'
  BY DEF TokenTypeOK, TokenCall

(* Every step keeps the types. *)
LEMMA TokenTypeStep == TokenInv /\ [TokenNext]_tokenVars => TokenTypeOK'
<1> SUFFICES ASSUME TokenInv, [TokenNext]_tokenVars PROVE TokenTypeOK'
  OBVIOUS
<1> USE DEF TokenInv
<1>1. ASSUME NEW c \in Calls, Start(c) PROVE TokenTypeOK'
  BY <1>1 DEF TokenTypeOK, Start, TokenGoto, tokens
<1>2. ASSUME NEW c \in Calls, ReadCached(c) PROVE TokenTypeOK'
  BY <1>2 DEF TokenTypeOK, ReadCached, TokenGoto, Use, tokens
<1>3. ASSUME NEW c \in Calls, Enter(c) PROVE TokenTypeOK'
  BY <1>3 DEF TokenTypeOK, Enter, TokenGoto, Use, tokens
<1>4. ASSUME NEW c \in Calls, Fetch(c) PROVE TokenTypeOK'
  <2>1. issued < MaxTokens
    BY <1>4 DEF Fetch, Fetching
  <2>2. /\ issued' \in 0 .. MaxTokens /\ cached' \in 0 .. issued'
        /\ aged' \subseteq 1 .. issued' /\ revoked' \subseteq 1 .. issued'
        /\ gate' \in Calls \cup {Free}
    BY <1>4, <2>1 DEF TokenTypeOK, Fetch
  <2>3. 0 .. issued \subseteq 0 .. issued' /\ issued + 1 \in 0 .. issued'
    BY <1>4 DEF TokenTypeOK, Fetch
  <2>4. call' = [call EXCEPT ![c].pc = "send", ![c].token = issued + 1]
    BY <1>4 DEF Fetch, Use
  <2>5. call' \in [Calls -> [pc : {"idle", "get", "wait", "fetch", "send", "invalidate"},
                             token : 0 .. issued', refused : 0 .. issued']]
    BY <2>3, <2>4 DEF TokenTypeOK
  <2> QED BY <2>2, <2>5 DEF TokenTypeOK
<1>5. ASSUME NEW c \in Calls, Send(c) PROVE TokenTypeOK'
  BY <1>5 DEF TokenTypeOK, Send, TokenGoto, TokenIdle, tokens
<1>6. ASSUME NEW c \in Calls, Invalidate(c) PROVE TokenTypeOK'
  <2> DEFINE state == IF call[c].refused = 0
                      THEN [pc |-> "get", token |-> 0, refused |-> call[c].token] ELSE TokenIdle
  <2>1. state \in TokenCall
    BY DEF TokenTypeOK, TokenCall, TokenIdle
  <2>2. call' = [call EXCEPT ![c] = state]
    BY <1>6 DEF Invalidate
  <2>3. cached' \in 0 .. issued /\ gate' = gate /\ UNCHANGED <<issued, aged, revoked>>
    BY <1>6 DEF Invalidate, Rejected, TokenTypeOK, tokens
  <2> HIDE DEF state
  <2> QED BY <2>1, <2>2, <2>3, CallMoves DEF TokenTypeOK
<1>7. ASSUME NEW c \in Calls, TokenFail(c) PROVE TokenTypeOK'
  <2>1. TokenIdle \in TokenCall
    BY DEF TokenTypeOK, TokenCall, TokenIdle
  <2>2. /\ call' = [call EXCEPT ![c] = TokenIdle]
        /\ cached' \in 0 .. issued /\ gate' \in Calls \cup {Free} /\ UNCHANGED <<issued, aged, revoked>>
    BY <1>7 DEF TokenFail, TokenTypeOK, tokens
  <2> QED BY <2>1, <2>2, CallMoves
<1>8. ASSUME NEW t \in 1 .. MaxTokens, Age(t) \/ Revoke(t) PROVE TokenTypeOK'
  <2>1. t \in 1 .. issued
    BY <1>8 DEF TokenTypeOK, Age, Revoke
  <2>2. aged' \subseteq 1 .. issued /\ revoked' \subseteq 1 .. issued
    BY <1>8, <2>1 DEF TokenTypeOK, Age, Revoke
  <2> QED BY <1>8, <2>2 DEF TokenTypeOK, Age, Revoke
<1>9. CASE UNCHANGED tokenVars
  BY <1>9 DEF TokenTypeOK, tokenVars
<1> QED BY <1>1, <1>2, <1>3, <1>4, <1>5, <1>6, <1>7, <1>8, <1>9 DEF TokenNext
(* Every step keeps all tokens but the cached one spent. *)
LEMMA SpentStep == TokenInv /\ [TokenNext]_tokenVars => OthersSpent'
<1> SUFFICES ASSUME TokenInv, [TokenNext]_tokenVars PROVE OthersSpent'
  OBVIOUS
<1> USE DEF TokenInv, OthersSpent, Spent
<1>1. ASSUME NEW c \in Calls, Fetch(c) PROVE OthersSpent'
  <2>1. 1 .. issued \subseteq aged \cup revoked
    BY <1>1 DEF Fetch, Fetching
  <2>2. 1 .. issued' = 1 .. issued \cup {cached'}
    BY <1>1 DEF TokenTypeOK, Fetch
  <2> QED BY <1>1, <2>1, <2>2 DEF Fetch
<1>2. ASSUME NEW c \in Calls, Invalidate(c) PROVE OthersSpent'
  <2>1. cached' = cached \/ cached \in revoked
    BY <1>2 DEF Invalidate, Rejected, Refusals, Known, TokenAt
  <2> QED BY <1>2, <2>1 DEF Invalidate, tokens
<1>3. ASSUME NEW c \in Calls, Start(c) \/ ReadCached(c) \/ Enter(c) \/ Send(c) \/ TokenFail(c)
      PROVE  OthersSpent'
  BY <1>3 DEF Start, ReadCached, Enter, Send, TokenFail, tokens
<1>4. ASSUME NEW t \in 1 .. MaxTokens, Age(t) \/ Revoke(t) PROVE OthersSpent'
  BY <1>4 DEF Age, Revoke
<1>5. CASE UNCHANGED tokenVars
  BY <1>5 DEF tokenVars
<1> QED BY <1>1, <1>2, <1>3, <1>4, <1>5 DEF TokenNext

(* A call is let in to fetch only when no token is left to use. *)
LEMMA NothingUsable ==
  ASSUME TokenInv, ~Usable
  PROVE  1 .. issued \subseteq Spent
  BY DEF TokenInv, TokenTypeOK, OthersSpent, Spent, Usable

(* Every step keeps what is known of a call that fetches. *)
LEMMA FetchingStep == TokenInv /\ [TokenNext]_tokenVars => Fetching'
<1> SUFFICES ASSUME TokenInv, [TokenNext]_tokenVars, NEW d \in Calls, TokenAt(d, "fetch")'
             PROVE  gate' = d /\ issued' < MaxTokens /\ 1 .. issued' \subseteq Spent'
  BY DEF Fetching
<1> USE DEF TokenInv
<1>1. ASSUME NEW c \in Calls, Enter(c)
      PROVE  gate' = d /\ issued' < MaxTokens /\ 1 .. issued' \subseteq Spent'
  <2>1. gate = Free /\ UNCHANGED <<issued, aged, revoked>>
    BY <1>1 DEF Enter, tokens
  <2>2. d = c
    BY <1>1, <2>1 DEF Enter, Fetching, TokenAt, Use, TokenGoto, TokenTypeOK
  <2>3. ~Usable /\ issued < MaxTokens /\ gate' = c
    BY <1>1, <2>2 DEF Enter, TokenAt, Use, TokenTypeOK
  <2> QED BY <2>1, <2>2, <2>3, NothingUsable DEF Spent
<1>2. ASSUME NEW c \in Calls, Fetch(c)
      PROVE  gate' = d /\ issued' < MaxTokens /\ 1 .. issued' \subseteq Spent'
  BY <1>2 DEF Fetch, Fetching, Use, TokenAt, TokenTypeOK
<1>3. ASSUME NEW c \in Calls, TokenFail(c)
      PROVE  gate' = d /\ issued' < MaxTokens /\ 1 .. issued' \subseteq Spent'
  BY <1>3 DEF TokenFail, Fetching, TokenIdle, TokenAt, TokenTypeOK, Spent, tokens
<1>4. ASSUME NEW c \in Calls, Start(c) \/ ReadCached(c) \/ Send(c) \/ Invalidate(c)
      PROVE  gate' = d /\ issued' < MaxTokens /\ 1 .. issued' \subseteq Spent'
  <2>1. TokenAt(d, "fetch") /\ gate' = gate /\ UNCHANGED <<issued, aged, revoked>>
    BY <1>4 DEF Start, ReadCached, Send, Invalidate, TokenAt, Use, TokenGoto, TokenIdle, TokenTypeOK, tokens
  <2> QED BY <2>1 DEF Fetching, Spent
<1>5. ASSUME NEW t \in 1 .. MaxTokens, Age(t) \/ Revoke(t)
      PROVE  gate' = d /\ issued' < MaxTokens /\ 1 .. issued' \subseteq Spent'
  BY <1>5 DEF Age, Revoke, Fetching, TokenAt, Spent
<1>6. CASE UNCHANGED tokenVars
  BY <1>6 DEF tokenVars, Fetching, TokenAt, Spent
<1> QED BY <1>1, <1>2, <1>3, <1>4, <1>5, <1>6 DEF TokenNext

(* Every step keeps what a call knows of its tokens. *)
LEMMA RefusalsStep == TokenInv /\ [TokenNext]_tokenVars => Refusals'
<1> SUFFICES ASSUME TokenInv, [TokenNext]_tokenVars, NEW d \in Calls PROVE Known(d)'
  BY DEF Refusals
<1> USE DEF TokenInv, TokenAt, Refusals
<1>1. ASSUME NEW c \in Calls, Start(c) PROVE Known(d)'
  BY <1>1 DEF Known, Start, TokenGoto, TokenTypeOK, tokens
<1>2. ASSUME NEW c \in Calls, ReadCached(c) PROVE Known(d)'
  BY <1>2 DEF Known, ReadCached, TokenGoto, Use, Usable, TokenTypeOK, tokens
<1>3. ASSUME NEW c \in Calls, Enter(c) PROVE Known(d)'
  BY <1>3 DEF Known, Enter, TokenGoto, Use, Usable, TokenTypeOK, tokens
<1>4. ASSUME NEW c \in Calls, Fetch(c) PROVE Known(d)'
  <2>1. \A b \in Calls : call[b].refused \in 0 .. issued /\ issued \in Nat
    BY DEF TokenTypeOK
  <2> QED BY <1>4, <2>1 DEF Known, Fetch, Use, TokenTypeOK
<1>5. ASSUME NEW c \in Calls, Send(c) PROVE Known(d)'
  BY <1>5 DEF Known, Send, TokenGoto, TokenIdle, TokenTypeOK, tokens
<1>6. ASSUME NEW c \in Calls, Invalidate(c) PROVE Known(d)'
  BY <1>6 DEF Known, Invalidate, Rejected, TokenIdle, TokenTypeOK, tokens
<1>7. ASSUME NEW c \in Calls, TokenFail(c) PROVE Known(d)'
  BY <1>7 DEF Known, TokenFail, TokenIdle, TokenTypeOK, tokens
<1>8. ASSUME NEW t \in 1 .. MaxTokens, Age(t) \/ Revoke(t) PROVE Known(d)'
  BY <1>8 DEF Known, Age, Revoke
<1>9. CASE UNCHANGED tokenVars
  BY <1>9 DEF Known, tokenVars
<1> QED BY <1>1, <1>2, <1>3, <1>4, <1>5, <1>6, <1>7, <1>8, <1>9 DEF TokenNext

(* The inductive invariant holds in every reachable state. *)
LEMMA TokenInvariant == TokenSpec => []TokenInv
<1>1. TokenInv /\ [TokenNext]_tokenVars => TokenInv'
  BY TokenTypeStep, SpentStep, FetchingStep, RefusalsStep DEF TokenInv
<1> QED BY TokenInitInv, <1>1, PTL DEF TokenSpec

(* The tokens, the cache and the calls keep their types. *)
THEOREM TokenTypes == TokenSpec => []TokenTypeOK
<1>1. TokenInv => TokenTypeOK
  BY DEF TokenInv
<1> QED BY TokenInvariant, <1>1, PTL

(* Calls that find no usable token share one request for it: a token is    *)
(* asked for only when the last one has aged or was refused.               *)
THEOREM OneRequestForAll == TokenSpec => []NoStampede
<1>1. TokenInv => NoStampede
  <2> SUFFICES ASSUME TokenInv PROVE issued <= 1 + Cardinality(Spent)
    BY DEF NoStampede, Spent
  <2>1. issued \in Nat /\ IsFiniteSet(1 .. issued) /\ Cardinality(1 .. issued) = issued
    <3>1. issued \in Nat
      BY DEF TokenInv, TokenTypeOK
    <3> QED BY <3>1, FS_Interval
  <2>2. IsFiniteSet(Spent)
    BY <2>1, FS_Subset DEF TokenInv, TokenTypeOK, Spent
  <2>3. IsFiniteSet(Spent \cup {cached})
        /\ Cardinality(Spent \cup {cached}) <= Cardinality(Spent) + 1
    <3>1. Cardinality(Spent) \in Nat
      BY <2>2, FS_CardinalityType
    <3>2. /\ IsFiniteSet(Spent \cup {cached})
          /\ Cardinality(Spent \cup {cached}) =
               IF cached \in Spent THEN Cardinality(Spent) ELSE Cardinality(Spent) + 1
      BY <2>2, FS_AddElement
    <3> QED BY <3>1, <3>2
  <2>4. 1 .. issued \subseteq Spent \cup {cached}
    BY DEF TokenInv, OthersSpent
  <2>5. Cardinality(1 .. issued) <= Cardinality(Spent \cup {cached})
    BY <2>3, <2>4, FS_Subset
  <2>6. Cardinality(Spent) \in Nat /\ Cardinality(Spent \cup {cached}) \in Nat
    BY <2>2, <2>3, FS_CardinalityType
  <2> QED BY <2>1, <2>3, <2>5, <2>6
<1> QED BY TokenInvariant, <1>1, PTL

(* The one retry never carries the refused token again. *)
THEOREM RetriesDiffer == TokenSpec => []RetryUsesAnother
<1>1. TokenInv => RetryUsesAnother
  BY DEF TokenInv, Refusals, Known, RetryUsesAnother
<1> QED BY TokenInvariant, <1>1, PTL

(* One token serves all calls. *)
THEOREM CallsShareTokens == TokenSpec => []TokenShared
BY OneRequestForAll, RetriesDiffer, PTL DEF TokenShared

(* Only a token Helix refused is dropped: a 401 that comes late leaves the *)
(* replacement that another call has obtained.                             *)
THEOREM ReplacementStays == TokenSpec => ReplacementKept
<1>1. TokenInv /\ [TokenNext]_tokenVars => [cached # 0 /\ cached' = 0 => cached \in revoked]_tokenVars
  <2> SUFFICES ASSUME TokenInv, [TokenNext]_tokenVars, cached # 0, cached' = 0 PROVE cached \in revoked
    OBVIOUS
  <2>1. ASSUME NEW c \in Calls, Invalidate(c) PROVE cached \in revoked
    BY <2>1 DEF Invalidate, Rejected, TokenInv, Refusals, Known, TokenAt
  <2>2. ASSUME NEW c \in Calls, Fetch(c) PROVE FALSE
    BY <2>2 DEF Fetch, TokenInv, TokenTypeOK
  <2>3. ASSUME NEW c \in Calls, Start(c) \/ ReadCached(c) \/ Enter(c) \/ Send(c) \/ TokenFail(c)
        PROVE  FALSE
    BY <2>3 DEF Start, ReadCached, Enter, Send, TokenFail
  <2>4. ASSUME NEW t \in 1 .. MaxTokens, Age(t) \/ Revoke(t) PROVE FALSE
    BY <2>4 DEF Age, Revoke
  <2>5. CASE UNCHANGED tokenVars
    BY <2>5 DEF tokenVars
  <2> QED BY <2>1, <2>2, <2>3, <2>4, <2>5 DEF TokenNext
<1>2. TokenSpec => [][TokenNext]_tokenVars
  BY PTL DEF TokenSpec
<1> QED BY TokenInvariant, <1>1, <1>2, PTL DEF ReplacementKept

HIDE FreeAssumption
HIDE MaxTokensAssumption

-----------------------------------------------------------------------------
(* EventSubReconcile.  What a leader found missing it creates before it     *)
(* deletes anything, and an exception in between ends the reconciliation.   *)

Leaders == [at : {"rest", "ensure"}, of : Configurations, missing : SUBSET Types, stale : SUBSET (1 .. created)]

EventSubTypes ==
    /\ subs \subseteq Subscription
    /\ \A a, b \in subs : a.id = b.id => a = b
    /\ created \in 0 .. MaxSubs
    /\ \A sub \in subs : sub.id <= created
    /\ leader \in Leaders

\* What a reconciliation does not have to create is there, and it will not delete it.
Replaced ==
    leader.at = "ensure" =>
        \A type \in Types : \/ type \in leader.missing
                            \/ \E sub \in subs : /\ sub.type = type /\ sub.of = leader.of
                                                 /\ sub.id \notin leader.stale

EventSubInv == EventSubTypes /\ Replaced

USE BoundsAssumption

(* The initial state satisfies the inductive invariant. *)
LEMMA EventSubInitInv == EventSubInit => EventSubInv
BY DEF EventSubInit, EventSubInv, EventSubTypes, Replaced, Leaders, Resting

(* A leader that rests, or one that takes over, has nothing half done. *)
LEMMA RestingIsSafe ==
  ASSUME EventSubTypes, NEW c \in Configurations, leader' = Resting(c),
         subs' \subseteq Subscription, \A a, b \in subs' : a.id = b.id => a = b,
         created' \in 0 .. MaxSubs, \A sub \in subs' : sub.id <= created'
  PROVE  EventSubInv'
BY DEF EventSubInv, EventSubTypes, Replaced, Leaders, Resting

(* What Twitch has after it took a subscription.                            *)
LEMMA NewIsSafe ==
  ASSUME EventSubTypes, NEW type \in Types, created < MaxSubs
  PROVE  /\ New(type) \in Subscription /\ New(type).id = created + 1 /\ created + 1 \in 0 .. MaxSubs
         /\ subs \cup {New(type)} \subseteq Subscription
         /\ \A a, b \in subs \cup {New(type)} : a.id = b.id => a = b
         /\ \A sub \in subs \cup {New(type)} : sub.id <= created + 1
<1>1. New(type).id = created + 1 /\ created + 1 \in 1 .. MaxSubs
  BY DEF New, EventSubTypes
<1>2. New(type) \in Subscription
  BY <1>1 DEF New, EventSubTypes, Leaders, Subscription
<1>3. \A sub \in subs : sub.id \in Nat /\ sub.id <= created
  BY DEF EventSubTypes, Subscription
<1>4. created \in Nat
  BY DEF EventSubTypes
<1> QED BY <1>1, <1>2, <1>3, <1>4 DEF EventSubTypes

(* Every step keeps the inductive invariant. *)
LEMMA EventSubInvStep == EventSubInv /\ [EventSubNext]_eventSubVars => EventSubInv'
<1> SUFFICES ASSUME EventSubInv, [EventSubNext]_eventSubVars PROVE EventSubInv'
  OBVIOUS
<1>0. EventSubTypes /\ Replaced
  BY DEF EventSubInv
<1>a. /\ leader.of \in Configurations /\ leader.missing \subseteq Types /\ leader.stale \subseteq 1 .. created
      /\ leader = [at |-> leader.at, of |-> leader.of, missing |-> leader.missing, stale |-> leader.stale]
      /\ leader.at \in {"rest", "ensure"}
  BY <1>0 DEF EventSubTypes, Leaders
<1>1. CASE List
  <2> DEFINE missing == {t \in Types : ~\E sub \in subs : sub.type = t /\ Serves(sub, leader.of)}
  <2> DEFINE stale == {sub.id : sub \in {s \in subs : Stale(s, leader.of)}}
  <2>1. /\ leader' = [at |-> "ensure", of |-> leader.of, missing |-> missing, stale |-> stale]
        /\ UNCHANGED <<subs, created>>
    BY <1>1, <1>a DEF List
  <2>2. stale \subseteq 1 .. created
    <3>1. \A sub \in subs : sub.id \in 1 .. created
      BY <1>0 DEF EventSubTypes, Subscription
    <3> QED BY <3>1
  <2>3. EventSubTypes'
    BY <1>0, <1>a, <2>1, <2>2 DEF EventSubTypes, Leaders
  <2>4. \A s \in subs : Serves(s, leader.of) => s.id \notin stale
    <3> SUFFICES ASSUME NEW s \in subs, Serves(s, leader.of), NEW other \in subs, Stale(other, leader.of),
                        other.id = s.id
                 PROVE  FALSE
      OBVIOUS
    <3>1. other = s
      BY <1>0 DEF EventSubTypes
    <3> QED BY <3>1 DEF Serves, Stale, Live, Revoked, Verifying
  <2> HIDE DEF stale
  <2>5. Replaced'
    BY <2>1, <2>4 DEF Replaced, Serves
  <2> QED BY <2>3, <2>5 DEF EventSubInv
<1>2. ASSUME NEW type \in Types, Create(type) PROVE EventSubInv'
  <2>1. /\ leader.at = "ensure" /\ type \in leader.missing /\ created < MaxSubs
        /\ created' = created + 1 /\ subs' = subs \cup {New(type)}
        /\ leader' = [at |-> leader.at, of |-> leader.of, missing |-> leader.missing \ {type}, stale |-> leader.stale]
    BY <1>2, <1>a DEF Create, Turn
  <2>2. 1 .. created \subseteq 1 .. created' /\ created + 1 \notin 1 .. created
    BY <1>0, <2>1 DEF EventSubTypes
  <2>3. EventSubTypes'
    BY <1>a, <2>1, <2>2, <1>0, NewIsSafe DEF EventSubTypes, Leaders
  <2>4. New(type).type = type /\ New(type).of = leader.of /\ New(type).id \notin leader.stale
    BY <1>a, <2>2 DEF New
  <2>5. Replaced'
    BY <1>0, <2>1, <2>4 DEF Replaced
  <2> QED BY <2>3, <2>5 DEF EventSubInv
<1>3. ASSUME NEW type \in Types, CreateFails(type) PROVE EventSubInv'
  <2>1. leader' = Resting(leader.of)
    BY <1>3 DEF CreateFails
  <2>2. CASE UNCHANGED <<subs, created>>
    BY <1>0, <1>a, <2>1, <2>2, RestingIsSafe DEF EventSubTypes
  <2>3. CASE created < MaxSubs /\ created' = created + 1 /\ subs' = subs \cup {New(type)}
    BY <1>0, <1>a, <2>1, <2>3, NewIsSafe, RestingIsSafe
  <2> QED BY <1>3, <2>2, <2>3 DEF CreateFails
<1>4. ASSUME NEW id \in 1 .. MaxSubs, Delete(id) \/ DeleteFails(id) PROVE EventSubInv'
  <2>1. /\ leader.at = "ensure" /\ leader.missing = {} /\ id \in leader.stale /\ created' = created
        /\ leader' = [at |-> leader.at, of |-> leader.of, missing |-> leader.missing, stale |-> leader.stale \ {id}]
        /\ subs' = subs \/ subs' = {sub \in subs : sub.id # id}
    BY <1>4, <1>a DEF Delete, DeleteFails
  <2>2. EventSubTypes'
    BY <1>0, <1>a, <2>1 DEF EventSubTypes, Leaders
  <2>3. Replaced'
    BY <1>0, <2>1 DEF Replaced
  <2> QED BY <2>2, <2>3 DEF EventSubInv
<1>5. CASE Rest \/ TakeOver
  <2>1. /\ UNCHANGED <<subs, created>>
        /\ \E c \in Configurations : leader' = Resting(c)
    BY <1>5, <1>a DEF Rest, TakeOver
  <2> QED BY <1>0, <2>1, RestingIsSafe DEF EventSubTypes
<1>6. ASSUME NEW sub \in subs, Verify(sub) \/ GiveUp(sub) PROVE EventSubInv'
  <2>1. PICK outcome \in {"enabled", VerifyFailed} \cup Revoked :
          Becomes(sub, outcome) /\ UNCHANGED <<created, leader>>
    BY <1>6 DEF Verify, GiveUp
  <2> DEFINE now == [sub EXCEPT !.status = outcome]
  <2>2. subs' = (subs \ {sub}) \cup {now}
    BY <2>1 DEF Becomes
  <2>3. now \in Subscription /\ now.id = sub.id /\ now.type = sub.type /\ now.of = sub.of
    BY <1>0, <2>1 DEF EventSubTypes, Subscription
  <2> HIDE DEF now
  <2>4. Leaders' = Leaders
    BY <2>1 DEF Leaders
  <2>5. EventSubTypes'
    BY <1>0, <2>1, <2>2, <2>3, <2>4 DEF EventSubTypes
  <2>6. Replaced'
    BY <1>0, <2>1, <2>2, <2>3 DEF Replaced
  <2> QED BY <2>5, <2>6 DEF EventSubInv
<1>7. CASE ListFails \/ UNCHANGED eventSubVars
  <2>1. UNCHANGED <<subs, created, leader>>
    BY <1>7 DEF ListFails, eventSubVars
  <2> QED BY <1>0, <2>1 DEF EventSubInv, EventSubTypes, Leaders, Replaced
<1> QED BY <1>1, <1>2, <1>3, <1>4, <1>5, <1>6, <1>7 DEF EventSubNext, Reconcile

(* The inductive invariant holds in every behaviour. *)
LEMMA EventSubInvariant == EventSubSpec => []EventSubInv
BY EventSubInitInv, EventSubInvStep, PTL DEF EventSubSpec

(* The subscriptions and the leader keep their types. *)
THEOREM EventSubTypesHold == EventSubSpec => []EventSubTypeOK
<1>1. EventSubInv => EventSubTypeOK
  BY DEF EventSubInv, EventSubTypes, EventSubTypeOK, Leaders
<1> QED BY <1>1, EventSubInvariant, PTL

(* A subscription that delivers is dropped only when one of its type is     *)
(* there for the configuration that drops it.                               *)
THEOREM NoneDroppedUnreplaced == EventSubSpec => ReplacedBeforeDropped
<1>1. EventSubInv /\ [EventSubNext]_eventSubVars =>
        [\A sub \in subs : Live(sub) /\ ~(\E kept \in subs' : kept.id = sub.id) =>
           \E other \in subs' : other.type = sub.type /\ other.of = leader.of]_eventSubVars
  <2> SUFFICES ASSUME EventSubInv, [EventSubNext]_eventSubVars,
                      NEW sub \in subs, ~(\E kept \in subs' : kept.id = sub.id)
               PROVE  \E other \in subs' : other.type = sub.type /\ other.of = leader.of
    OBVIOUS
  <2>1. ASSUME subs \subseteq subs' PROVE FALSE
    BY <2>1
  <2>2. ASSUME NEW s \in subs, Verify(s) \/ GiveUp(s) PROVE FALSE
    <3>1. PICK outcome \in {"enabled", VerifyFailed} \cup Revoked : Becomes(s, outcome)
      BY <2>2 DEF Verify, GiveUp
    <3>2. [s EXCEPT !.status = outcome].id = s.id
      BY DEF EventSubInv, EventSubTypes, Subscription
    <3> QED BY <3>1, <3>2 DEF Becomes
  <2>3. ASSUME NEW id \in 1 .. MaxSubs, Delete(id) \/ DeleteFails(id)
        PROVE  \E other \in subs' : other.type = sub.type /\ other.of = leader.of
    <3>1. leader.at = "ensure" /\ leader.missing = {} /\ id \in leader.stale
          /\ (subs' = subs \/ subs' = {s \in subs : s.id # id})
      BY <2>3 DEF Delete, DeleteFails
    <3>2. sub.type \in Types
      BY DEF EventSubInv, EventSubTypes, Subscription
    <3>3. PICK other \in subs : other.type = sub.type /\ other.of = leader.of /\ other.id \notin leader.stale
      BY <3>1, <3>2 DEF EventSubInv, Replaced
    <3> QED BY <3>1, <3>3
  <2> QED BY <2>1, <2>2, <2>3
          DEF EventSubNext, Reconcile, List, ListFails, Create, CreateFails, Rest, TakeOver, eventSubVars
<1> QED BY <1>1, EventSubInvariant, PTL DEF EventSubSpec, ReplacedBeforeDropped

HIDE BoundsAssumption

-----------------------------------------------------------------------------
(* WebSubSubscription.  Only the last request begun can be pending, and one *)
(* that is pending has neither been granted nor charged with a failure: so  *)
(* a verification or a report that comes late finds nothing to change.      *)

\* A request as its worker remembers it.
AskedBefore == [token : 1 .. begun, requestedAt : 0 .. webSubClock, sentAt : {Never}]

Pendings == [token : 0 .. begun, requestedAt : 0 .. webSubClock,
             sentAt : 0 .. webSubClock \cup {Never}]

Retries == [failures : 0 .. begun, at : Nat]

Records == [pending : Pendings, renewAt : 0 .. webSubClock + Renewal,
            recent : [token : 0 .. begun, until : 0 .. webSubClock + Verification],
            retry : Retries]

WorkerStates == [pc : {"rest", "sending", "sent", "failed"}, request : AskedBefore \cup {NoRequest}]

WebSubTypes ==
    /\ webSubClock \in 0 .. WebSubMaxTime
    /\ begun \in 0 .. MaxRequests
    /\ data \in Records
    /\ worker \in [Workers -> WorkerStates]
    /\ hub \subseteq 1 .. begun
    /\ granted \in 0 .. begun

\* A worker away from rest has a request.
WorkersAsk == \A w \in Workers : worker[w].pc # "rest" => worker[w].request \in AskedBefore

\* Only the last request is pending; it has granted no lease and has not failed.
PendingIsLast ==
    data.pending # NoRequest =>
        /\ data.pending.token = begun /\ begun # 0
        /\ granted < begun
        /\ data.retry.failures < begun

\* The failures since the last lease are those the record has charged.
FailuresCharged == wait = data.retry

\* A lease the last request was granted is all that the record holds.
Settled ==
    granted # 0 /\ granted = begun =>
        /\ data.pending = NoRequest /\ data.retry = NoRetry
        /\ data.recent.token = granted
        /\ data.renewAt >= Renewal
        /\ data.recent.until =
             data.renewAt - Renewal + (IF Lease < Verification THEN Lease ELSE Verification)

WebSubInv == WebSubTypes /\ WorkersAsk /\ PendingIsLast /\ FailuresCharged /\ Settled

USE WebSubTimesAssumption

(* The wait after any number of failures is a number. *)
LEMMA DelayInNat ==
  ASSUME NEW n \in Nat \ {0}
  PROVE  RetryDelay(n) \in Nat
<1>1. Len(Delay) \in Nat \ {0} /\ DOMAIN Delay = 1 .. Len(Delay)
  OBVIOUS
<1>2. \A k \in 1 .. Len(Delay) : Delay[k] \in Nat
  OBVIOUS
<1> QED BY <1>1, <1>2 DEF RetryDelay

(* The initial state satisfies the inductive invariant. *)
LEMMA WebSubInitInv == WebSubInit => WebSubInv
<1> SUFFICES ASSUME WebSubInit PROVE WebSubInv
  OBVIOUS
<1>1. data = [pending |-> NoRequest, renewAt |-> 0, recent |-> NoConfirmation, retry |-> NoRetry]
      /\ webSubClock = 0 /\ begun = 0 /\ hub = {} /\ granted = 0 /\ wait = NoRetry
  BY DEF WebSubInit
<1>2. worker \in [Workers -> WorkerStates]
  BY DEF WebSubInit, WebSubResting, WorkerStates
<1>3. WebSubTypes
  BY <1>1, <1>2
     DEF WebSubTypes, Records, Pendings, Retries, NoRequest, NoConfirmation, NoRetry, Never
<1>4. WorkersAsk
  BY DEF WebSubInit, WorkersAsk, WebSubResting
<1> QED BY <1>1, <1>3, <1>4 DEF WebSubInv, PendingIsLast, FailuresCharged, Settled

\* A step that moves neither time nor the hub; the types then stay what they were.
Quiet == UNCHANGED <<webSubClock, begun, hub, granted>>

LEMMA QuietTypes ==
  ASSUME Quiet
  PROVE  /\ AskedBefore' = AskedBefore /\ WorkerStates' = WorkerStates
         /\ Pendings' = Pendings /\ Retries' = Retries /\ Records' = Records
BY DEF Quiet, AskedBefore, WorkerStates, Pendings, Retries, Records, Never

(* A failure charged to a request that had none yet keeps the types.        *)
LEMMA OneMoreFailure ==
  ASSUME webSubClock \in Nat, begun \in Nat, data.retry \in Retries, data.retry.failures < begun
  PROVE  NextRetry(data.retry) \in Retries
<1> DEFINE failures == data.retry.failures
<1>1. failures \in 0 .. begun /\ failures < begun
  BY DEF Retries
<1> HIDE DEF failures
<1>2. failures + 1 \in Nat \ {0} /\ failures + 1 \in 0 .. begun
  BY <1>1
<1>3. webSubClock + RetryDelay(failures + 1) \in Nat
  BY <1>2, DelayInNat
<1> QED BY <1>2, <1>3 DEF NextRetry, Retries, failures

(* A worker that rests, or goes on with its request, keeps its types.       *)
LEMMA WorkerMoves ==
  ASSUME WebSubTypes, WorkersAsk, NEW w \in Workers, Quiet,
         NEW state, worker' = [worker EXCEPT ![w] = state],
         \/ state = WebSubResting
         \/ state.pc \in {"sent", "failed"} /\ state = [worker[w] EXCEPT !.pc = state.pc]
            /\ worker[w].pc # "rest"
  PROVE  worker' \in [Workers -> WorkerStates'] /\ WorkersAsk'
<1>1. state \in WorkerStates /\ (state.pc # "rest" => state.request \in AskedBefore)
  <2>1. CASE state = WebSubResting
    BY <2>1 DEF WebSubResting, WorkerStates
  <2>2. CASE state.pc \in {"sent", "failed"} /\ state = [worker[w] EXCEPT !.pc = state.pc]
             /\ worker[w].pc # "rest"
    <3>1. worker[w] \in WorkerStates /\ worker[w].request \in AskedBefore
      BY <2>2 DEF WebSubTypes, WorkersAsk
    <3>2. state.request = worker[w].request
      BY <2>2, <3>1 DEF WorkerStates
    <3> QED BY <2>2, <3>1, <3>2 DEF WorkerStates
  <2> QED BY <2>1, <2>2
<1>2. \A v \in Workers : worker'[v] = IF v = w THEN state ELSE worker[v]
  BY DEF WebSubTypes
<1> QED BY <1>1, <1>2, QuietTypes DEF WebSubTypes, WorkersAsk

(* Every step keeps the inductive invariant. *)
LEMMA WebSubInvStep == WebSubInv /\ [WebSubNext]_webSubVars => WebSubInv'
<1> SUFFICES ASSUME WebSubInv, [WebSubNext]_webSubVars PROVE WebSubInv'
  OBVIOUS
<1>0. WebSubTypes /\ WorkersAsk /\ PendingIsLast /\ FailuresCharged /\ Settled
  BY DEF WebSubInv
<1>a. webSubClock \in Nat /\ begun \in 0 .. MaxRequests /\ begun \in Nat /\ granted \in 0 .. begun
  BY <1>0 DEF WebSubTypes
<1>b. /\ data.pending \in Pendings /\ data.renewAt \in 0 .. webSubClock + Renewal
      /\ data.retry \in Retries
      /\ data = [pending |-> data.pending, renewAt |-> data.renewAt,
                 recent |-> data.recent, retry |-> data.retry]
  BY <1>0 DEF WebSubTypes, Records
<1>1. CASE WebSubTick
  <2>1. webSubClock' = webSubClock + 1 /\ webSubClock < WebSubMaxTime
        /\ UNCHANGED <<data, begun, worker, hub, granted, wait>>
    BY <1>1 DEF WebSubTick
  <2>2. /\ 0 .. webSubClock \subseteq 0 .. webSubClock'
        /\ 0 .. webSubClock + Renewal \subseteq 0 .. webSubClock' + Renewal
        /\ 0 .. webSubClock + Verification \subseteq 0 .. webSubClock' + Verification
    BY <1>a, <2>1
  <2>3. AskedBefore \subseteq AskedBefore'
    BY <2>1, <2>2 DEF AskedBefore, Never
  <2>4. Records \subseteq Records'
    BY <2>1, <2>2 DEF Records, Pendings, Retries, Never
  <2>5. WorkerStates \subseteq WorkerStates'
    BY <2>3 DEF WorkerStates
  <2>6. webSubClock' \in 0 .. WebSubMaxTime
    BY <1>b, <1>a, <2>1
  <2>7. WebSubTypes'
    BY <1>0, <2>1, <2>4, <2>5, <2>6 DEF WebSubTypes
  <2>8. WorkersAsk'
    BY <1>0, <2>1, <2>3 DEF WorkersAsk
  <2> QED BY <1>0, <2>1, <2>7, <2>8 DEF WebSubInv, PendingIsLast, FailuresCharged, Settled
<1>2. ASSUME NEW w \in Workers, Begin(w) PROVE WebSubInv'
  <2> DEFINE asked == [token |-> begun + 1, requestedAt |-> webSubClock, sentAt |-> Never]
  <2>1. /\ begun' = begun + 1 /\ begun < MaxRequests /\ UNCHANGED <<webSubClock, hub, granted, wait>>
        /\ data' = [data EXCEPT !.pending = asked, !.recent = NoConfirmation]
        /\ worker' = [worker EXCEPT ![w] = [pc |-> "sending", request |-> asked]]
    BY <1>2 DEF Begin, TryBegin
  <2>2. /\ begun' \in 0 .. MaxRequests /\ begun' \in Nat /\ begun < begun'
        /\ 0 .. begun \subseteq 0 .. begun' /\ 1 .. begun \subseteq 1 .. begun'
        /\ begun + 1 \in 1 .. begun' /\ begun + 1 \in 0 .. begun'
        /\ webSubClock \in 0 .. webSubClock
    BY <1>b, <1>a, <2>1
  <2>3. /\ AskedBefore \subseteq AskedBefore' /\ asked \in AskedBefore'
        /\ asked \in Pendings' /\ Retries \subseteq Retries'
        /\ NoConfirmation \in [token : 0 .. begun', until : 0 .. webSubClock + Verification]
    <3>1. AskedBefore \subseteq AskedBefore' /\ asked \in AskedBefore'
      BY <2>1, <2>2 DEF AskedBefore, Never
    <3>2. asked \in Pendings' /\ Retries \subseteq Retries'
      BY <2>1, <2>2 DEF Pendings, Retries, Never
    <3>3. 0 \in 0 .. begun' /\ 0 \in 0 .. webSubClock + Verification
      BY <1>a, <2>2
    <3> QED BY <3>1, <3>2, <3>3 DEF NoConfirmation
  <2>4. asked.token = begun' /\ asked # NoRequest
    BY <1>b, <1>a, <2>1 DEF NoRequest
  <2> HIDE DEF asked
  <2>5. WorkerStates \subseteq WorkerStates'
        /\ [pc |-> "sending", request |-> asked] \in WorkerStates'
    BY <2>3 DEF WorkerStates
  <2>6. data' = [pending |-> asked, renewAt |-> data.renewAt,
                 recent |-> NoConfirmation, retry |-> data.retry]
    BY <1>b, <1>a, <2>1
  <2>7. data' \in Records'
    BY <1>b, <1>a, <2>1, <2>3, <2>6 DEF Records
  <2>8. worker' \in [Workers -> WorkerStates']
    BY <1>0, <2>1, <2>5 DEF WebSubTypes
  <2>9. hub' \subseteq 1 .. begun' /\ granted' \in 0 .. begun'
    BY <1>0, <1>b, <1>a, <2>1, <2>2 DEF WebSubTypes
  <2>10. WebSubTypes'
    BY <1>0, <2>1, <2>2, <2>7, <2>8, <2>9 DEF WebSubTypes
  <2>11. WorkersAsk'
    BY <1>0, <2>1, <2>3 DEF WebSubTypes, WorkersAsk
  <2>12. data.retry.failures < begun' /\ granted < begun'
    BY <1>b, <1>a, <2>1, <2>2 DEF Retries
  <2>13. PendingIsLast' /\ FailuresCharged' /\ Settled'
    BY <1>0, <1>b, <1>a, <2>1, <2>2, <2>4, <2>6, <2>12, SMTT(30) DEF PendingIsLast, FailuresCharged, Settled
  <2> QED BY <2>10, <2>11, <2>13 DEF WebSubInv
<1>3. ASSUME NEW w \in Workers, Subscribe(w) \/ Abandon(w) PROVE WebSubInv'
  <2>1. Quiet /\ UNCHANGED <<data, wait>>
    BY <1>3 DEF Subscribe, Abandon, Quiet
  <2>2. worker' \in [Workers -> WorkerStates'] /\ WorkersAsk'
    <3>1. CASE Abandon(w)
      BY <1>0, <2>1, <3>1, WorkerMoves DEF Abandon
    <3>2. CASE Subscribe(w)
      <4>1. PICK outcome \in {"sent", "failed"} : worker' = [worker EXCEPT ![w].pc = outcome]
        BY <3>2 DEF Subscribe
      <4> DEFINE state == [worker[w] EXCEPT !.pc = outcome]
      <4>2. worker' = [worker EXCEPT ![w] = state] /\ state.pc = outcome
        BY <1>0, <4>1 DEF WebSubTypes, WorkerStates
      <4>3. worker[w].pc # "rest" /\ state = [worker[w] EXCEPT !.pc = state.pc]
        BY <3>2, <4>2 DEF Subscribe
      <4> HIDE DEF state
      <4> QED BY <1>0, <2>1, <4>2, <4>3, WorkerMoves
    <3> QED BY <1>3, <3>1, <3>2
  <2>3. WebSubTypes'
    BY <1>0, <2>1, <2>2, QuietTypes DEF WebSubTypes, Quiet
  <2> QED BY <1>0, <2>1, <2>2, <2>3 DEF WebSubInv, PendingIsLast, FailuresCharged, Settled, Quiet
<1>4. ASSUME NEW w \in Workers, ReportSent(w) PROVE WebSubInv'
  <2> DEFINE asked == worker[w].request
  <2> DEFINE heard == [asked EXCEPT !.sentAt = webSubClock]
  <2>1. Quiet /\ wait' = wait
    BY <1>4 DEF ReportSent, Quiet
  <2>2. worker' \in [Workers -> WorkerStates'] /\ WorkersAsk'
    BY <1>0, <1>4, <2>1, WorkerMoves DEF ReportSent
  <2>3. asked \in AskedBefore
    BY <1>0, <1>4 DEF ReportSent, WorkersAsk
  <2>4. CASE data' = data
    BY <1>0, <2>1, <2>2, <2>4, QuietTypes
       DEF WebSubInv, WebSubTypes, PendingIsLast, FailuresCharged, Settled, Quiet
  <2>5. CASE RequestsMatch(asked) /\ data' = [data EXCEPT !.pending = heard]
    <3>1. data.pending.token = asked.token /\ data.pending # NoRequest
      BY <2>3, <2>5 DEF RequestsMatch, AskedBefore, NoRequest
    <3>2. heard \in Pendings /\ heard.token = asked.token
      <4>1. /\ asked = [token |-> asked.token, requestedAt |-> asked.requestedAt, sentAt |-> Never]
            /\ asked.token \in 1 .. begun /\ asked.requestedAt \in 0 .. webSubClock
        BY <2>3 DEF AskedBefore
      <4>2. asked.token \in 0 .. begun /\ webSubClock \in 0 .. webSubClock
        BY <1>b, <1>a, <4>1, SMTT(30)
      <4> HIDE DEF asked
      <4> QED BY <4>1, <4>2 DEF Pendings
    <3> HIDE DEF asked, heard
    <3>3. data' = [pending |-> heard, renewAt |-> data.renewAt,
                   recent |-> data.recent, retry |-> data.retry]
      BY <1>b, <1>a, <2>5
    <3>4. data' \in Records
      BY <1>0, <3>2, <3>3 DEF Records, WebSubTypes
    <3>5. WebSubTypes'
      BY <1>0, <2>1, <2>2, <3>4, QuietTypes DEF WebSubTypes, Quiet
    <3> QED BY <1>0, <2>1, <2>2, <3>1, <3>2, <3>3, <3>5
            DEF WebSubInv, PendingIsLast, FailuresCharged, Settled, Quiet
  <2> QED BY <1>4, <2>4, <2>5 DEF ReportSent, MarkRequestSent
<1>5. ASSUME NEW w \in Workers, ReportFailed(w) PROVE WebSubInv'
  <2> DEFINE asked == worker[w].request
  <2>1. Quiet
    BY <1>5 DEF ReportFailed, Quiet
  <2>2. worker' \in [Workers -> WorkerStates'] /\ WorkersAsk'
    BY <1>0, <1>5, <2>1, WorkerMoves DEF ReportFailed
  <2>3. asked \in AskedBefore
    BY <1>0, <1>5 DEF ReportFailed, WorkersAsk
  <2>4. CASE data' = data
    <3>1. wait' = wait
      BY <1>5, <2>4 DEF ReportFailed
    <3> QED BY <1>0, <2>1, <2>2, <2>4, <3>1, QuietTypes
            DEF WebSubInv, WebSubTypes, PendingIsLast, FailuresCharged, Settled, Quiet
  <2>5. CASE data' # data
    <3>1. RequestsMatch(asked) /\ wait' = NextRetry(wait)
          /\ data' = [data EXCEPT !.pending = NoRequest, !.retry = NextRetry(data.retry)]
      BY <1>5, <2>5 DEF ReportFailed, MarkRequestFailed
    <3>2. data.pending # NoRequest
      BY <2>3, <3>1 DEF RequestsMatch, AskedBefore, NoRequest
    <3>3. data' = [pending |-> NoRequest, renewAt |-> data.renewAt,
                   recent |-> data.recent, retry |-> NextRetry(data.retry)]
      BY <1>b, <1>a, <3>1
    <3>4. NextRetry(data.retry) \in Retries
      <4>1. data.retry.failures < begun
        BY <1>0, <3>2 DEF PendingIsLast
      <4> QED BY <1>a, <1>b, <4>1, OneMoreFailure
    <3>5. NoRequest \in Pendings
      BY <1>a DEF NoRequest, Pendings
    <3>6. data' \in Records
      BY <1>0, <3>3, <3>4, <3>5 DEF Records, WebSubTypes
    <3>7. WebSubTypes'
      BY <1>0, <2>1, <2>2, <3>6, QuietTypes DEF WebSubTypes, Quiet
    <3>8. granted < begun
      BY <1>0, <3>2 DEF PendingIsLast
    <3>9. Settled' /\ PendingIsLast'
      BY <1>b, <1>a, <2>1, <3>3, <3>8 DEF Settled, PendingIsLast, Quiet
    <3>10. FailuresCharged'
      BY <1>0, <3>1, <3>3 DEF FailuresCharged
    <3> QED BY <2>2, <3>7, <3>9, <3>10 DEF WebSubInv
  <2> QED BY <2>4, <2>5
<1>6. ASSUME NEW t \in Requests, Receive(t) PROVE WebSubInv'
  <2>1. UNCHANGED <<webSubClock, data, begun, worker, granted, wait>> /\ hub' = hub \cup {t} /\ t <= begun
    BY <1>6 DEF Receive
  <2>2. t \in 1 .. begun
    BY <1>b, <1>a, <2>1 DEF Requests
  <2>3. AskedBefore' = AskedBefore /\ WorkerStates' = WorkerStates /\ Records' = Records
    BY <2>1 DEF AskedBefore, WorkerStates, Pendings, Retries, Records, Never
  <2>4. WebSubTypes'
    BY <1>0, <2>1, <2>2, <2>3 DEF WebSubTypes
  <2> QED BY <1>0, <2>1, <2>3, <2>4
          DEF WebSubInv, WorkersAsk, PendingIsLast, FailuresCharged, Settled
<1>7. ASSUME NEW t \in Requests, WebSubVerify(t) PROVE WebSubInv'
  <2> DEFINE kept == IF Lease < Verification THEN Lease ELSE Verification
  <2>1. /\ UNCHANGED <<webSubClock, begun, worker, hub>> /\ granted' = t /\ wait' = NoRetry
        /\ data' = [pending |-> NoRequest, renewAt |-> webSubClock + Renewal,
                    recent |-> [token |-> t, until |-> webSubClock + kept], retry |-> NoRetry]
        /\ data.pending.token = t
    BY <1>7 DEF WebSubVerify, TryConfirm, Confirms
  <2>2. kept \in 0 .. Verification
    OBVIOUS
  <2>3. data.pending # NoRequest /\ t = begun /\ t \in 0 .. begun
    <3>1. t \in 1 .. MaxRequests
      BY DEF Requests
    <3>2. data.pending # NoRequest
      BY <2>1, <3>1 DEF NoRequest
    <3> QED BY <1>0, <1>b, <1>a, <2>1, <3>1, <3>2 DEF PendingIsLast
  <2>4. /\ NoRequest \in Pendings /\ NoRetry \in Retries
        /\ [token |-> t, until |-> webSubClock + kept]
             \in [token : 0 .. begun, until : 0 .. webSubClock + Verification]
        /\ webSubClock + Renewal \in 0 .. webSubClock + Renewal
    <3>1. 0 \in 0 .. begun /\ 0 \in 0 .. webSubClock
      BY <1>a
    <3>2. webSubClock + Renewal \in 0 .. webSubClock + Renewal
          /\ webSubClock + kept \in 0 .. webSubClock + Verification
      BY <1>a, <2>2
    <3> HIDE DEF kept
    <3> QED BY <2>3, <3>1, <3>2 DEF NoRequest, NoRetry, Pendings, Retries
  <2>5. AskedBefore' = AskedBefore /\ WorkerStates' = WorkerStates /\ Records' = Records
    BY <2>1 DEF AskedBefore, WorkerStates, Pendings, Retries, Records, Never
  <2> HIDE DEF kept
  <2>6. data' \in Records
    BY <2>1, <2>4 DEF Records
  <2>7. WebSubTypes' /\ WorkersAsk'
    BY <1>0, <2>1, <2>3, <2>5, <2>6 DEF WebSubTypes, WorkersAsk
  <2>8. PendingIsLast' /\ FailuresCharged'
    BY <2>1 DEF PendingIsLast, FailuresCharged
  <2>9. Settled'
    BY <1>b, <1>a, <2>1, <2>2, <2>3 DEF Settled, kept
  <2> QED BY <2>7, <2>8, <2>9 DEF WebSubInv
<1>8. CASE UNCHANGED webSubVars
  <2>1. Quiet /\ UNCHANGED <<data, worker, wait>>
    BY <1>8 DEF webSubVars, Quiet
  <2> QED BY <1>0, <2>1, QuietTypes
          DEF Quiet, WebSubInv, WebSubTypes, WorkersAsk, PendingIsLast, FailuresCharged, Settled
<1> QED BY <1>1, <1>2, <1>3, <1>4, <1>5, <1>6, <1>7, <1>8 DEF WebSubNext

(* The inductive invariant holds in every behaviour. *)
LEMMA WebSubInvariant == WebSubSpec => []WebSubInv
BY WebSubInitInv, WebSubInvStep, PTL DEF WebSubSpec

(* The record and the workers keep their types, and a verification the hub  *)
(* retries is acknowledged.                                                 *)
THEOREM VerificationsAnswered == WebSubSpec => [](WebSubTypeOK /\ RetryAcknowledged)
<1>1. ASSUME WebSubInv PROVE WebSubTypeOK
  BY <1>1 DEF WebSubInv, WebSubTypes, Records, Pendings, Retries, WorkerStates, WebSubTypeOK
<1>2. ASSUME WebSubInv PROVE RetryAcknowledged
  <2> SUFFICES ASSUME granted # 0, granted = begun, Lease >= Verification
               PROVE  Repeats(granted) \/ webSubClock + Renewal >= data.renewAt + Verification
    BY DEF RetryAcknowledged
  <2>1. data.pending = NoRequest /\ data.recent.token = granted
        /\ data.recent.until = data.renewAt - Renewal + Verification
    BY <1>2 DEF WebSubInv, Settled
  <2>2. webSubClock \in Nat /\ data.renewAt \in Nat
    <3>1. webSubClock \in Nat /\ data.renewAt \in 0 .. webSubClock + Renewal
      BY <1>2 DEF WebSubInv, WebSubTypes, Records
    <3> QED BY <3>1
  <2> QED BY <2>1, <2>2 DEF Repeats
<1> QED BY <1>1, <1>2, WebSubInvariant, PTL

(* A lease is granted once per request, in the order of the requests.       *)
THEOREM LeasesInOrder == WebSubSpec => GrantsInOrder
<1>1. WebSubInv /\ [WebSubNext]_webSubVars => [data'.renewAt # data.renewAt => granted' > granted]_webSubVars
  <2> SUFFICES ASSUME WebSubInv, [WebSubNext]_webSubVars, data'.renewAt # data.renewAt
               PROVE  granted' > granted
    OBVIOUS
  <2>0. WebSubTypes /\ PendingIsLast
    BY DEF WebSubInv
  <2>1. ASSUME NEW w \in Workers, Begin(w) \/ ReportSent(w) \/ ReportFailed(w) PROVE data'.renewAt = data.renewAt
    BY <2>0, <2>1 DEF Begin, TryBegin, ReportSent, MarkRequestSent, ReportFailed, MarkRequestFailed, WebSubTypes, Records
  <2>2. ASSUME NEW t \in Requests, WebSubVerify(t) PROVE granted' > granted
    <3>1. t \in 1 .. MaxRequests /\ data.pending.token = t /\ granted' = t
      BY <2>2 DEF WebSubVerify, Confirms, Requests
    <3>2. data.pending # NoRequest
      BY <3>1 DEF NoRequest
    <3> QED BY <2>0, <3>1, <3>2 DEF PendingIsLast, WebSubTypes
  <2>3. ASSUME data' = data PROVE FALSE
    BY <2>3
  <2> QED BY <2>1, <2>2, <2>3
          DEF WebSubNext, WebSubTick, Subscribe, Abandon, Receive, webSubVars
<1> QED BY <1>1, WebSubInvariant, PTL DEF WebSubSpec, GrantsInOrder

(* Once verified, a request stays settled whatever its worker reports.      *)
THEOREM VerifiedIsSettled == WebSubSpec => SettledStaysSettled
<1> DEFINE Stays == granted # 0 /\ granted = begun /\ begun' = begun
                      => data'.renewAt = data.renewAt /\ data'.pending = NoRequest /\ data'.retry = NoRetry
<1>1. WebSubInv /\ WebSubInv' /\ [WebSubNext]_webSubVars => [Stays]_webSubVars
  <2> SUFFICES ASSUME WebSubInv, WebSubInv', [WebSubNext]_webSubVars, granted # 0, granted = begun, begun' = begun
               PROVE  data'.renewAt = data.renewAt /\ data'.pending = NoRequest /\ data'.retry = NoRetry
    OBVIOUS
  <2>1. ASSUME NEW t \in Requests, WebSubVerify(t) PROVE FALSE
    <3>1. t \in 1 .. MaxRequests /\ data.pending.token = t
      BY <2>1 DEF WebSubVerify, Confirms, Requests
    <3> QED BY <3>1 DEF WebSubInv, Settled, NoRequest
  <2>2. granted' = granted
    BY <2>1 DEF WebSubNext, WebSubTick, Begin, Subscribe, ReportSent, ReportFailed, Abandon, Receive, webSubVars
  <2>3. data'.pending = NoRequest /\ data'.retry = NoRetry
    BY <2>2 DEF WebSubInv, Settled
  <2>4. ASSUME NEW w \in Workers, Begin(w) \/ ReportSent(w) \/ ReportFailed(w) PROVE data'.renewAt = data.renewAt
    BY <2>4 DEF Begin, TryBegin, ReportSent, MarkRequestSent, ReportFailed, MarkRequestFailed, WebSubInv, WebSubTypes, Records
  <2>5. data'.renewAt = data.renewAt
    BY <2>1, <2>4 DEF WebSubNext, WebSubTick, Subscribe, Abandon, Receive, webSubVars
  <2> QED BY <2>3, <2>5
<1> QED BY <1>1, WebSubInvariant, PTL DEF WebSubSpec, SettledStaysSettled

(* The hub is left alone for the backoff of all failures since the last lease. *)
THEOREM BackoffIsKept == WebSubSpec => BackoffKept
<1>1. WebSubInv /\ [WebSubNext]_webSubVars => [begun' # begun => webSubClock >= wait.at]_webSubVars
  <2> SUFFICES ASSUME WebSubInv, [WebSubNext]_webSubVars, begun' # begun PROVE webSubClock >= wait.at
    OBVIOUS
  <2>1. PICK w \in Workers : Begin(w)
    BY DEF WebSubNext, WebSubTick, Subscribe, ReportSent, ReportFailed, Abandon, Receive, WebSubVerify, webSubVars
  <2> QED BY <2>1 DEF Begin, MayBegin, WebSubInv, FailuresCharged
<1> QED BY <1>1, WebSubInvariant, PTL DEF WebSubSpec, BackoffKept

HIDE WebSubTimesAssumption

-----------------------------------------------------------------------------
(* ConfirmationQueue.  A poll is owed by a handler that has yet to write,   *)
(* by a byte in a channel or by a loop that has read one; none of them owes *)
(* more than one, and each came out of a passage of the gate.               *)

\* Who owes a poll: a notification was let through, or its byte is there, or was read.
Handling == {w \in ConfirmationWorkers : handler[w]}

Signalled == {w \in ConfirmationWorkers : signal[w]}

Drained == {w \in ConfirmationWorkers : confirmationWorker[w] = "drained"}

\* Each passage of the gate pays for one poll, begun or owed.
PaidFor ==
    /\ IsFiniteSet(Handling) /\ IsFiniteSet(Signalled) /\ IsFiniteSet(Drained)
    /\ polls + Cardinality(Handling) + Cardinality(Signalled) + Cardinality(Drained)
         <= confirmationGranted

ConfirmationInv == ConfirmationTypeOK /\ PaidFor

(* The initial states satisfy it: nobody owes anything. *)
LEMMA ConfirmationInitInv == ConfirmationInit => ConfirmationInv
<1> SUFFICES ASSUME ConfirmationInit PROVE ConfirmationInv
  OBVIOUS
<1>1. ConfirmationTypeOK
  <2>1. confirmationGranted \in 0 .. MaxGates /\ polls \in 0 .. MaxGates
    BY MaxGatesAssumption DEF ConfirmationInit
  <2>2. /\ confirmationGate \in BOOLEAN
        /\ handler \in [ConfirmationWorkers -> BOOLEAN] /\ signal \in [ConfirmationWorkers -> BOOLEAN]
        /\ news \in [ConfirmationWorkers -> BOOLEAN]
        /\ confirmationWorker \in [ConfirmationWorkers -> {"waiting", "drained", "polling"}]
    BY Zenon DEF ConfirmationInit
  <2> QED BY <2>1, <2>2 DEF ConfirmationTypeOK
<1>2. Handling = {} /\ Signalled = {} /\ Drained = {}
  BY DEF ConfirmationInit, Handling, Signalled, Drained
<1>3. polls = 0 /\ confirmationGranted = 0
  BY DEF ConfirmationInit
<1> QED BY <1>1, <1>2, <1>3, FS_EmptySet DEF ConfirmationInv, PaidFor

(* Who owes a poll after a worker's step, where the step leaves each set as *)
(* it is, or adds the worker to it, or takes it away.                       *)
LEMMA Owing ==
  ASSUME NEW S, IsFiniteSet(S), NEW w
  PROVE  /\ IsFiniteSet(S \cup {w}) /\ Cardinality(S \cup {w}) \in Nat
         /\ Cardinality(S \cup {w}) <= Cardinality(S) + 1
         /\ IsFiniteSet(S \ {w}) /\ Cardinality(S \ {w}) \in Nat
         /\ Cardinality(S \ {w}) <= Cardinality(S)
         /\ w \in S => Cardinality(S \ {w}) = Cardinality(S) - 1
<1>1. /\ IsFiniteSet(S \cup {w}) /\ IsFiniteSet(S \ {w})
      /\ Cardinality(S \cup {w}) = IF w \in S THEN Cardinality(S) ELSE Cardinality(S) + 1
      /\ Cardinality(S \ {w}) = IF w \in S THEN Cardinality(S) - 1 ELSE Cardinality(S)
  BY FS_AddElement, FS_RemoveElement
<1>2. /\ Cardinality(S) \in Nat /\ Cardinality(S \cup {w}) \in Nat
      /\ Cardinality(S \ {w}) \in Nat
  BY <1>1, FS_CardinalityType
<1> QED BY <1>1, <1>2

(* Every step keeps it. *)
LEMMA ConfirmationInvStep ==
  ConfirmationInv /\ [ConfirmationNext]_confirmationVars => ConfirmationInv'
<1> SUFFICES ASSUME ConfirmationInv, [ConfirmationNext]_confirmationVars PROVE ConfirmationInv'
  OBVIOUS
<1> USE MaxGatesAssumption
<1>0. ConfirmationTypeOK /\ PaidFor
  BY DEF ConfirmationInv
<1>a. Cardinality(Handling) \in Nat /\ Cardinality(Signalled) \in Nat /\ Cardinality(Drained) \in Nat
  BY <1>0, FS_CardinalityType DEF PaidFor
<1>1. CASE Expire \/ UNCHANGED confirmationVars
  <2>1. UNCHANGED <<confirmationGranted, handler, signal, confirmationWorker, polls, news>>
        /\ confirmationGate' \in BOOLEAN
    BY <1>0, <1>1 DEF Expire, confirmationVars, ConfirmationTypeOK
  <2>2. ConfirmationTypeOK'
    BY <1>0, <2>1 DEF ConfirmationTypeOK
  <2>3. Handling' = Handling /\ Signalled' = Signalled /\ Drained' = Drained
    BY <2>1 DEF Handling, Signalled, Drained
  <2> QED BY <1>0, <2>1, <2>2, <2>3 DEF ConfirmationInv, PaidFor
<1>2. ASSUME NEW w \in ConfirmationWorkers, Notify(w) PROVE ConfirmationInv'
  <2>1. ConfirmationTypeOK'
    BY <1>0, <1>2 DEF Notify, ConfirmationTypeOK
  <2>2. w \notin Handling /\ Handling' = Handling \cup {w} /\ Signalled' = Signalled /\ Drained' = Drained
    BY <1>0, <1>2 DEF Notify, Handling, Signalled, Drained, ConfirmationTypeOK
  <2>3. polls' = polls /\ confirmationGranted' = confirmationGranted + 1
    BY <1>2 DEF Notify
  <2>4. /\ IsFiniteSet(Handling \cup {w}) /\ Cardinality(Handling \cup {w}) \in Nat
        /\ Cardinality(Handling \cup {w}) <= Cardinality(Handling) + 1
    BY <1>0, Owing DEF PaidFor
  <2>5. PaidFor'
    BY <1>0, <1>a, <2>2, <2>3, <2>4 DEF PaidFor, ConfirmationTypeOK
  <2> QED BY <2>1, <2>5 DEF ConfirmationInv
<1>3. ASSUME NEW w \in ConfirmationWorkers, RequestConfirmation(w) PROVE ConfirmationInv'
  <2>1. ConfirmationTypeOK'
    BY <1>0, <1>3 DEF RequestConfirmation, ConfirmationTypeOK
  <2>2. w \in Handling /\ Handling' = Handling \ {w} /\ Signalled' = Signalled \cup {w} /\ Drained' = Drained
    BY <1>0, <1>3 DEF RequestConfirmation, Handling, Signalled, Drained, ConfirmationTypeOK
  <2>3. polls' = polls /\ confirmationGranted' = confirmationGranted
    BY <1>3 DEF RequestConfirmation
  <2>4. IsFiniteSet(Handling \ {w}) /\ Cardinality(Handling \ {w}) = Cardinality(Handling) - 1
    BY <1>0, <2>2, Owing DEF PaidFor
  <2>5. /\ IsFiniteSet(Signalled \cup {w}) /\ Cardinality(Signalled \cup {w}) \in Nat
        /\ Cardinality(Signalled \cup {w}) <= Cardinality(Signalled) + 1
    BY <1>0, Owing DEF PaidFor
  <2>6. PaidFor'
    BY <1>0, <1>a, <2>2, <2>3, <2>4, <2>5 DEF PaidFor, ConfirmationTypeOK
  <2> QED BY <2>1, <2>6 DEF ConfirmationInv
<1>4. ASSUME NEW w \in ConfirmationWorkers, Drain(w) PROVE ConfirmationInv'
  <2>1. ConfirmationTypeOK'
    BY <1>0, <1>4 DEF Drain, ConfirmationTypeOK
  <2>2. /\ w \in Signalled /\ Handling' = Handling /\ Signalled' = Signalled \ {w}
        /\ w \notin Drained /\ Drained' = Drained \cup {w}
    BY <1>0, <1>4 DEF Drain, Handling, Signalled, Drained, ConfirmationTypeOK
  <2>3. polls' = polls /\ confirmationGranted' = confirmationGranted
    BY <1>4 DEF Drain
  <2>4. IsFiniteSet(Signalled \ {w}) /\ Cardinality(Signalled \ {w}) = Cardinality(Signalled) - 1
    BY <1>0, <2>2, Owing DEF PaidFor
  <2>5. /\ IsFiniteSet(Drained \cup {w}) /\ Cardinality(Drained \cup {w}) \in Nat
        /\ Cardinality(Drained \cup {w}) <= Cardinality(Drained) + 1
    BY <1>0, Owing DEF PaidFor
  <2>6. PaidFor'
    BY <1>0, <1>a, <2>2, <2>3, <2>4, <2>5 DEF PaidFor, ConfirmationTypeOK
  <2> QED BY <2>1, <2>6 DEF ConfirmationInv
<1>5. ASSUME NEW w \in ConfirmationWorkers, BeginPoll(w) PROVE ConfirmationInv'
  <2>2. w \in Drained /\ Handling' = Handling /\ Signalled' = Signalled /\ Drained' = Drained \ {w}
    BY <1>0, <1>5 DEF BeginPoll, Handling, Signalled, Drained, ConfirmationTypeOK
  <2>3. polls' = polls + 1 /\ confirmationGranted' = confirmationGranted
    BY <1>5 DEF BeginPoll
  <2>4. /\ IsFiniteSet(Drained \ {w}) /\ Cardinality(Drained \ {w}) \in Nat
        /\ Cardinality(Drained \ {w}) = Cardinality(Drained) - 1
    BY <1>0, <2>2, Owing DEF PaidFor
  <2>5. PaidFor'
    BY <1>0, <1>a, <2>2, <2>3, <2>4 DEF PaidFor, ConfirmationTypeOK
  <2>6. polls' \in 0 .. MaxGates
    BY <1>0, <1>a, <2>3, <2>4 DEF PaidFor, ConfirmationTypeOK
  <2>7. ConfirmationTypeOK'
    BY <1>0, <1>5, <2>6 DEF BeginPoll, ConfirmationTypeOK
  <2> QED BY <2>5, <2>7 DEF ConfirmationInv
<1>6. ASSUME NEW w \in ConfirmationWorkers, EndPoll(w) PROVE ConfirmationInv'
  <2>1. ConfirmationTypeOK'
    BY <1>0, <1>6 DEF EndPoll, ConfirmationTypeOK
  <2>2. Handling' = Handling /\ Signalled' = Signalled /\ Drained' = Drained
    BY <1>0, <1>6 DEF EndPoll, Handling, Signalled, Drained, ConfirmationTypeOK
  <2>3. polls' = polls /\ confirmationGranted' = confirmationGranted
    BY <1>6 DEF EndPoll
  <2> QED BY <1>0, <2>1, <2>2, <2>3 DEF ConfirmationInv, PaidFor
<1>7. ASSUME NEW w \in ConfirmationWorkers, Restart(w) PROVE ConfirmationInv'
  <2>1. ConfirmationTypeOK'
    BY <1>0, <1>7 DEF Restart, ConfirmationTypeOK
  <2>2. Handling' = Handling \ {w} /\ Signalled' = Signalled \ {w} /\ Drained' = Drained \ {w}
    BY <1>0, <1>7 DEF Restart, Handling, Signalled, Drained, ConfirmationTypeOK
  <2>3. polls' = polls /\ confirmationGranted' = confirmationGranted
    BY <1>7 DEF Restart
  <2>4. /\ IsFiniteSet(Handling \ {w}) /\ Cardinality(Handling \ {w}) <= Cardinality(Handling)
        /\ Cardinality(Handling \ {w}) \in Nat
    BY <1>0, Owing DEF PaidFor
  <2>5. /\ IsFiniteSet(Signalled \ {w}) /\ Cardinality(Signalled \ {w}) <= Cardinality(Signalled)
        /\ Cardinality(Signalled \ {w}) \in Nat
    BY <1>0, Owing DEF PaidFor
  <2>6. /\ IsFiniteSet(Drained \ {w}) /\ Cardinality(Drained \ {w}) <= Cardinality(Drained)
        /\ Cardinality(Drained \ {w}) \in Nat
    BY <1>0, Owing DEF PaidFor
  <2>7. PaidFor'
    BY <1>0, <1>a, <2>2, <2>3, <2>4, <2>5, <2>6 DEF PaidFor, ConfirmationTypeOK
  <2> QED BY <2>1, <2>7 DEF ConfirmationInv
<1> QED BY <1>1, <1>2, <1>3, <1>4, <1>5, <1>6, <1>7 DEF ConfirmationNext

(* The polls that notifications cause stay within one per passage of the   *)
(* gate, however many workers there are and wherever their loops are.      *)
THEOREM PollsArePaidFor == ConfirmationSpec => [](ConfirmationTypeOK /\ WithinQuota)
<1>1. ConfirmationInv => ConfirmationTypeOK /\ WithinQuota
  <2> SUFFICES ASSUME ConfirmationInv PROVE WithinQuota
    BY DEF ConfirmationInv
  <2>1. Cardinality(Handling) \in Nat /\ Cardinality(Signalled) \in Nat /\ Cardinality(Drained) \in Nat
    BY FS_CardinalityType DEF ConfirmationInv, PaidFor
  <2> QED BY <2>1 DEF ConfirmationInv, PaidFor, WithinQuota, ConfirmationTypeOK
<1> QED BY ConfirmationInitInv, ConfirmationInvStep, <1>1, PTL DEF ConfirmationSpec

-----------------------------------------------------------------------------
(* Everything the services promise of their states.                        *)
THEOREM ProvidersAreSafe == ProvidersSpec => []ProvidersSafe
BY DeliveryTypes, TokenTypes, EventSubTypesHold, VerificationsAnswered, PollsArePaidFor,
   CallsShareTokens, PTL
   DEF ProvidersSpec, ProvidersSafe

(* What replaces and what is replaced, in every step of every service.     *)
THEOREM SubscriptionsAreKept == ProvidersSpec => SubscriptionsKept
BY ReplacementStays, NoneDroppedUnreplaced, LeasesInOrder, VerifiedIsSettled, BackoffIsKept, PTL
   DEF ProvidersSpec, SubscriptionsKept
=============================================================================
