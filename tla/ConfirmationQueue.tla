-------------------------- MODULE ConfirmationQueue -------------------------
(***************************************************************************)
(* The confirming poll that a YouTube notification asks for: a Redis key   *)
(* that lets one notification through every thirty seconds, for all        *)
(* workers, and on each worker a channel of capacity one that drops writes *)
(* and a loop that drains it and polls (YouTubeLiveConfirmationQueue).     *)
(*                                                                         *)
(* What a poll reads and writes is in LiveStatusStore; here a poll is the  *)
(* time from its first read to its end.                                    *)
(***************************************************************************)
EXTENDS Naturals

CONSTANTS
    ConfirmationWorkers,
    MaxGates \* bound: notifications let through

ASSUME MaxGatesAssumption == MaxGates \in Nat

VARIABLES
    confirmationGate,    \* whether the key is there
    confirmationGranted, \* notifications let through
    handler,             \* handler[w]: a notification was let through, its write is to come
    signal,              \* signal[w]: the channel holds a byte
    confirmationWorker,  \* worker[w]: its loop
    polls,               \* history: polls begun
    news                 \* history: news[w]: let through since the last poll of w began

confirmationVars == <<confirmationGate, confirmationGranted, handler, signal, confirmationWorker, polls, news>>

ConfirmationTypeOK ==
    /\ confirmationGate \in BOOLEAN
    /\ confirmationGranted \in 0 .. MaxGates /\ polls \in 0 .. MaxGates
    /\ handler \in [ConfirmationWorkers -> BOOLEAN]
    /\ signal \in [ConfirmationWorkers -> BOOLEAN]
    /\ confirmationWorker \in [ConfirmationWorkers -> {"waiting", "drained", "polling"}]
    /\ news \in [ConfirmationWorkers -> BOOLEAN]

ConfirmationInit ==
    /\ confirmationGate = FALSE
    /\ confirmationGranted = 0 /\ polls = 0
    /\ handler = [w \in ConfirmationWorkers |-> FALSE]
    /\ signal = [w \in ConfirmationWorkers |-> FALSE]
    /\ confirmationWorker = [w \in ConfirmationWorkers |-> "waiting"]
    /\ news = [w \in ConfirmationWorkers |-> FALSE]

Notify(w) ==
    /\ ~confirmationGate /\ ~handler[w] /\ confirmationGranted < MaxGates
    /\ confirmationGate' = TRUE /\ confirmationGranted' = confirmationGranted + 1
    /\ handler' = [handler EXCEPT ![w] = TRUE]
    /\ news' = [news EXCEPT ![w] = TRUE]
    /\ UNCHANGED <<signal, confirmationWorker, polls>>

Expire ==
    /\ confirmationGate /\ confirmationGate' = FALSE
    /\ UNCHANGED <<confirmationGranted, handler, signal, confirmationWorker, polls, news>>

\* TryWrite: a byte that is there already stands for this one too.
RequestConfirmation(w) ==
    /\ handler[w]
    /\ handler' = [handler EXCEPT ![w] = FALSE]
    /\ signal' = [signal EXCEPT ![w] = TRUE]
    /\ UNCHANGED <<confirmationGate, confirmationGranted, confirmationWorker, polls, news>>

\* WaitToReadAsync and the inner loop of TryRead.
Drain(w) ==
    /\ confirmationWorker[w] = "waiting" /\ signal[w]
    /\ signal' = [signal EXCEPT ![w] = FALSE]
    /\ confirmationWorker' = [confirmationWorker EXCEPT ![w] = "drained"]
    /\ UNCHANGED <<confirmationGate, confirmationGranted, handler, polls, news>>

BeginPoll(w) ==
    /\ confirmationWorker[w] = "drained"
    /\ confirmationWorker' = [confirmationWorker EXCEPT ![w] = "polling"]
    /\ polls' = polls + 1
    /\ news' = [news EXCEPT ![w] = FALSE]
    /\ UNCHANGED <<confirmationGate, confirmationGranted, handler, signal>>

EndPoll(w) ==
    /\ confirmationWorker[w] = "polling"
    /\ confirmationWorker' = [confirmationWorker EXCEPT ![w] = "waiting"]
    /\ UNCHANGED <<confirmationGate, confirmationGranted, handler, signal, polls, news>>

\* The worker restarts: signal and handler are gone, the key is not.
Restart(w) ==
    /\ handler' = [handler EXCEPT ![w] = FALSE]
    /\ signal' = [signal EXCEPT ![w] = FALSE]
    /\ confirmationWorker' = [confirmationWorker EXCEPT ![w] = "waiting"]
    /\ news' = [news EXCEPT ![w] = FALSE]
    /\ UNCHANGED <<confirmationGate, confirmationGranted, polls>>

ConfirmationNext ==
    \/ Expire
    \/ \E w \in ConfirmationWorkers :
         \/ Notify(w) \/ RequestConfirmation(w)
         \/ Drain(w) \/ BeginPoll(w) \/ EndPoll(w) \/ Restart(w)

ConfirmationFairness ==
    /\ WF_confirmationVars(Expire)
    /\ \A w \in ConfirmationWorkers :
         WF_confirmationVars(RequestConfirmation(w)) /\ WF_confirmationVars(Drain(w))
         /\ WF_confirmationVars(BeginPoll(w)) /\ WF_confirmationVars(EndPoll(w))

ConfirmationSpec == ConfirmationInit /\ [][ConfirmationNext]_confirmationVars /\ ConfirmationFairness

(* The quota: whatever bursts of notifications reach whatever workers, in   *)
(* whatever state their loops are, a poll is begun only for a passage of    *)
(* the gate, and each passage pays for one.                                 *)
WithinQuota ==
    polls <= confirmationGranted

(* What was let through is looked into by a poll that begins afterwards,    *)
(* also if it came while another poll was under way, or its worker restarts *)
(* and forgets it.                                                          *)
NewsIsPolled == \A w \in ConfirmationWorkers : news[w] ~> ~news[w]
=============================================================================
