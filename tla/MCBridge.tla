------------------------------ MODULE MCBridge -----------------------------
(* Small instances of Bridge: its constants are numbers, given in the cfg. *)
EXTENDS Bridge
=============================================================================
