---------------------------- MODULE MCCloudUpload ---------------------------
(* A small instance of CloudUpload for TLC. *)
EXTENDS CloudUpload
CONSTANTS w1, w2, w3
ThreeWriters == {w1, w2, w3}
=============================================================================
