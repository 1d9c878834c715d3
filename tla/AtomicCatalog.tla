---------------------------- MODULE AtomicCatalog ----------------------------
(* What CloudStore.transaction() is used as: every change is applied to    *)
(* the catalogue as it is at that moment, and once.                        *)
CONSTANTS Writers

VARIABLES catalogue   \* the changes in it, each named for its writer

Init == catalogue = {}

Apply(w) == w \notin catalogue /\ catalogue' = catalogue \cup {w}

Next == \E w \in Writers : Apply(w)

Spec == Init /\ [][Next]_catalogue
=============================================================================
