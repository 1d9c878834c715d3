---------------------------- MODULE MCLiveProxy -----------------------------
(* Small instances of LiveProxy for TLC. *)
EXTENDS LiveProxy, TLC

CONSTANTS p1, p2

BothProviders == {"gemini", "openai"}
TwoPages == {p1, p2}
=============================================================================
