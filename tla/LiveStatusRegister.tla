------------------------- MODULE LiveStatusRegister -------------------------
(***************************************************************************)
(* What RedisLiveStatusStore promises its callers (ILiveStatusStore): the  *)
(* canonical state behaves as one register, and UpdateAsync takes effect   *)
(* in a single step, on the value that is current at that step, or not at  *)
(* all.  There is no read, no retry and no conflict at this level.         *)
(***************************************************************************)
EXTENDS LiveStatusReducer

CONSTANTS
    Callers, \* the concurrent requests and background ticks of all workers
    Times    \* what the clocks of the workers may read

VARIABLES
    stored,     \* the value of the state key, Null when the key is absent
    nextEpoch,  \* Guid.NewGuid: the next epoch, never used before
    request,    \* request[c]: the update c asked for, Null when c has no call
    response    \* response[c]: the state c's update produced, Null until then

vars == <<stored, nextEpoch, request, response>>

Init ==
    /\ stored = Null
    /\ nextEpoch = 0
    /\ request = [c \in Callers |-> Null]
    /\ response = [c \in Callers |-> Null]

\* c asks for some update.
Request(c) ==
    /\ request[c] = Null
    /\ request'[c] \in Update
    /\ request' = [request EXCEPT ![c] = request'[c]]
    /\ UNCHANGED <<stored, nextEpoch, response>>

\* The value an update applies to, and the epoch counter once it is there.
Base == IF stored = Null THEN CreateInitial(nextEpoch) ELSE stored
Opened == IF stored = Null THEN nextEpoch + 1 ELSE nextEpoch

\* The update of c takes effect, at the local time of c's worker.
Perform(c, now) ==
    /\ request[c] # Null
    /\ response[c] = Null
    /\ stored' = Apply(Base, request[c], now)
    /\ response' = [response EXCEPT ![c] = stored']
    /\ nextEpoch' = Opened
    /\ UNCHANGED request

\* The call ends: it returns its response, or fails without having one, or
\* fails after its update took effect and the caller is never told.
Finish(c) ==
    /\ request[c] # Null
    /\ request' = [request EXCEPT ![c] = Null]
    /\ response' = [response EXCEPT ![c] = Null]
    /\ UNCHANGED <<stored, nextEpoch>>

\* GetAsync creates the initial state when there is none.
Create ==
    /\ stored = Null
    /\ stored' = Base
    /\ nextEpoch' = Opened
    /\ UNCHANGED <<request, response>>

\* The key is deleted (flush, eviction, a new cache instance).
Lose ==
    /\ stored' = Null
    /\ UNCHANGED <<nextEpoch, request, response>>

Next ==
    \/ Create
    \/ Lose
    \/ \E c \in Callers :
           \/ Request(c)
           \/ \E now \in Times : Perform(c, now)
           \/ Finish(c)

Spec == Init /\ [][Next]_vars
=============================================================================
