---------------------------- MODULE MCPageBuilds ----------------------------
(* Small instance of PageBuilds for TLC. *)
EXTENDS PageBuilds
CONSTANTS r1, r2
TwoReaders == {r1, r2}
=============================================================================
