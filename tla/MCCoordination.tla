--------------------------- MODULE MCCoordination ---------------------------
(* What the workers share through Redis, on small instances: a replica      *)
(* whose state key is lost and recreated, and the leadership.  They share   *)
(* no state, so one run explores the sum of their state spaces: part,       *)
(* chosen at the start, says which moves; the other stays in its initial    *)
(* state.                                                                   *)
EXTENDS MCLiveStatusReplica, ProviderLeadership

VARIABLE part

MCInit == part \in {"replica", "leader"} /\ Init /\ LeaderInit

ReplicaMoves == part = "replica" /\ Next /\ UNCHANGED <<leaderVars, part>>
LeaderMoves == part = "leader" /\ LeaderNext /\ UNCHANGED <<vars, part>>

MCNext == ReplicaMoves \/ LeaderMoves

\* The fairness of each part, for the behaviours in which it moves.
MCFairness ==
    /\ WF_vars(part = "replica" /\ SubscribeToRedis)
    /\ SF_vars(part = "replica" /\ RefreshRead)
    /\ WF_vars(part = "replica" /\ RefreshApply)
    /\ WF_vars(part = "replica" /\ ResyncTick)
    /\ WF_vars(part = "replica" /\ Flush)
    /\ \A s \in Sockets : WF_vars(part = "replica" /\ Send(s))
    /\ WF_leaderVars(part = "leader" /\ Tick)
    /\ \A w \in Workers : WF_leaderVars(part = "leader" /\ Run(w))

MCSpec == MCInit /\ [][MCNext]_<<vars, leaderVars, part>> /\ MCFairness

-----------------------------------------------------------------------------
\* After lost messages and a lost key the worker and its browsers come to the
\* canonical state (LiveStatusSynchronizer, README.md:371-372).
WorkersConverge == part = "replica" => Converge

\* A leader that lost its lease stops, and some worker leads again
\* (RunAsLeaderAsync).
LeadersProceed == part = "leader" => LeadershipMoves
=============================================================================
