---------------------------- MODULE MCProviders ----------------------------
(* The provider services on small instances.  They share no state but the  *)
(* canonical store, which LiveStatusStore models, so one run explores the   *)
(* sum of their state spaces: part, chosen at the start, says which of them *)
(* moves in this behaviour; the others stay in their initial states, where  *)
(* their properties hold or fail as they do there.                          *)
EXTENDS Providers

CONSTANTS d1, d2, c1, c2, w1, w2

VARIABLE part

TwoDeliveries == {d1, d2}
TwoCalls == {c1, c2}
TwoWorkers == {w1, w2}
Delays == <<2, 3>>

\* By symmetry the first leader may be of either deployment.
MCInit ==
    /\ part \in {"twitch", "token", "eventsub", "websub", "confirmation"}
    /\ Init /\ TokenInit /\ WebSubInit /\ ConfirmationInit
    /\ EventSubInit /\ leader.of = "blue"

TwitchMoves ==
    /\ part = "twitch" /\ Next
    /\ UNCHANGED <<tokenVars, eventSubVars, webSubVars, confirmationVars, part>>
TokenMoves ==
    /\ part = "token" /\ TokenNext
    /\ UNCHANGED <<vars, eventSubVars, webSubVars, confirmationVars, part>>
EventSubMoves ==
    /\ part = "eventsub" /\ EventSubNext
    /\ UNCHANGED <<vars, tokenVars, webSubVars, confirmationVars, part>>
WebSubMoves ==
    /\ part = "websub" /\ WebSubNext
    /\ UNCHANGED <<vars, tokenVars, eventSubVars, confirmationVars, part>>
ConfirmationMoves ==
    /\ part = "confirmation" /\ ConfirmationNext
    /\ UNCHANGED <<vars, tokenVars, eventSubVars, webSubVars, part>>

MCNext ==
    TwitchMoves \/ TokenMoves \/ EventSubMoves \/ WebSubMoves \/ ConfirmationMoves

\* The fairness of each part, for the behaviours in which it moves.
MCFairness ==
    /\ WF_vars(part = "twitch" /\ Tick)
    /\ \A d \in Deliveries :
         WF_vars(part = "twitch" /\ (Update(d) \/ Complete(d) \/ Fail(d) \/ Crash(d)))
    /\ WF_vars(part = "twitch" /\ GetStream) /\ SF_vars(part = "twitch" /\ SeedState)
    /\ WF_eventSubVars(part = "eventsub" /\ Reconcile)
    /\ WF_eventSubVars(part = "eventsub" /\ \E sub \in subs : Verify(sub))
    /\ WF_confirmationVars(part = "confirmation" /\ Expire)
    /\ \A w \in ConfirmationWorkers :
         /\ WF_confirmationVars(part = "confirmation" /\ RequestConfirmation(w))
         /\ WF_confirmationVars(part = "confirmation" /\ Drain(w))
         /\ WF_confirmationVars(part = "confirmation" /\ BeginPoll(w))
         /\ WF_confirmationVars(part = "confirmation" /\ EndPoll(w))

MCSpec ==
    /\ MCInit
    /\ [][MCNext]_<<vars, tokenVars, eventSubVars, webSubVars, confirmationVars, part>>
    /\ MCFairness

-----------------------------------------------------------------------------
\* The services catch up: with the stream, with both subscriptions of the
\* deployment that leads, and with every notification.
ProvidersConverge ==
    /\ part = "twitch" => TwitchConverges
    /\ part = "eventsub" => BothDelivered /\ NothingStaleLeft
    /\ NewsIsPolled
=============================================================================
