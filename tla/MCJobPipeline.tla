--------------------------- MODULE MCJobPipeline ---------------------------
(* Small instances of JobPipeline for TLC. *)
EXTENDS JobPipeline, TLC

CONSTANTS j1, j2, a1, a2, r1, r2

OneJob == {j1}
Everything == {"retry", "delete", "edit"}
OnlyRetry == {"retry"}
OneAdmin == {a1}
TwoAdmins == {a1, a2}
OneSlot == {r1}
TwoSlots == {r1, r2}
OneStamp == {1}

\* The jobs, the requests and the process slots are interchangeable.
Symmetry == Permutations(Jobs) \cup Permutations(Admins) \cup Permutations(Runners)

\* Only DELETE removes courses: no retention ends meanwhile.
DeletingSpec == Init /\ [][Next /\ ~ \E j \in Jobs : Expire(j)]_vars
=============================================================================
