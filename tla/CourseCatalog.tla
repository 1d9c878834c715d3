--------------------------- MODULE CourseCatalog ---------------------------
(***************************************************************************)
(* What the course endpoints promise their users, with no word of rows,     *)
(* folders, workers or subprocesses: a course is being made, is ready, has  *)
(* failed, or is removed for good, and at most Capacity are being made.     *)
(***************************************************************************)
EXTENDS Naturals, FiniteSets

CONSTANTS Courses, Capacity

VARIABLES phase, shown

cvars == <<phase, shown>>

Present == {"working", "ready", "failed"}
Working == {c \in Courses : phase[c] = "working"}

\* An upload, or the retry of a failed course.
Begin(c) ==
    /\ phase[c] \in {"none", "failed"}
    /\ Cardinality(Working) < Capacity
    /\ phase' = [phase EXCEPT ![c] = "working"]
    /\ shown' = [shown EXCEPT ![c] = IF phase[c] = "none" THEN TRUE ELSE @]

Finish(c) ==
    /\ phase[c] = "working"
    /\ \E result \in {"ready", "failed"} : phase' = [phase EXCEPT ![c] = result]
    /\ UNCHANGED shown

Toggle(c) ==
    /\ phase[c] \in Present
    /\ shown' = [shown EXCEPT ![c] = ~@]
    /\ UNCHANGED phase

\* Deleted, expired, or given up while uploading; never to come back.
Remove(gone) ==
    /\ \A c \in gone : phase[c] \in Present
    /\ phase' = [c \in Courses |-> IF c \in gone THEN "removed" ELSE phase[c]]
    /\ shown' = [c \in Courses |-> IF c \in gone THEN FALSE ELSE shown[c]]

CatalogInit ==
    /\ phase = [c \in Courses |-> "none"]
    /\ shown = [c \in Courses |-> FALSE]

CatalogNext ==
    \/ \E c \in Courses : Begin(c) \/ Finish(c) \/ Toggle(c)
    \/ \E gone \in SUBSET Courses : Remove(gone)

CatalogSpec == CatalogInit /\ [][CatalogNext]_cvars
=============================================================================
