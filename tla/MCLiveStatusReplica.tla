------------------------ MODULE MCLiveStatusReplica ------------------------
(* Small instances of LiveStatusReplica for TLC. *)
EXTENDS LiveStatusReplica

CONSTANTS b1, b2, w1, off, on

\* Two snapshots that say the same can differ in their stamps.
OffOn == {off, on}
TwoTimes == {0, 1}
JustIdle == [shown |-> off, updatedAt |-> 0]
OneTime == {0}

\* The versions written within an epoch, by epoch.
Two == [e \in {0} |-> 2]
TwoEach == [e \in {0, 1} |-> 2]
ThreeThenNone == [e \in {0, 1} |-> IF e = 0 THEN 3 ELSE 0]

OneWriter == {w1}
NoWriter == {}
OneBrowser == {b1}
TwoBrowsers == {b1, b2}
Symmetry == Permutations(Sockets)
=============================================================================
