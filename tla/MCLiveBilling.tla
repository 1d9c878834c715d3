--------------------------- MODULE MCLiveBilling ---------------------------
(* Small instances of LiveBilling for TLC. *)
EXTENDS LiveBilling, TLC

CONSTANTS u1, s1, s2, i1, bg, get

OneStudent == {u1}
TwoSessions == {s1, s2}
OneInvoice == {i1}
TwoPollers == {bg, get}
UpAndDown == {2, -3}
=============================================================================
