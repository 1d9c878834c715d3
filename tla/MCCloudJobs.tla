---------------------------- MODULE MCCloudJobs -----------------------------
(* Small instances of CloudJobs for TLC. *)
EXTENDS CloudJobs, TLC

CONSTANTS j1, j2, o1, c1, c2, w1, w2, m1, m2

OneJob == {j1}
TwoJobs == {j1, j2}
OneSession == {o1}
AllMine == [j \in Jobs |-> o1]
OneCaller == {c1}
TwoCallers == {c1, c2}
TwoWorkers == {w1, w2}
OneMessage == {m1}
TwoMessages == {m1, m2}

\* A job out of sight stays so, and AcceptedSettles asks nothing more of it: after two faults it
\* is not followed any more.
FollowedInSight == faults = 2 => \E j \in Jobs : ~row[j].expired

\* Of two jobs one is in sight once something failed.
OneInSight == faults > 0 => \E j \in Jobs : ~row[j].expired

Symmetry == Permutations(Jobs) \cup Permutations(Callers)
            \cup Permutations(Workers) \cup Permutations(Messages)
=============================================================================
