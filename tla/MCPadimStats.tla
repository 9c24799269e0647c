----------------------------- MODULE MCPadimStats -----------------------------
(* PadimStats for TLC. *)
EXTENDS PadimStats
=============================================================================
