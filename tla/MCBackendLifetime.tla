-------------------------- MODULE MCBackendLifetime --------------------------
(* BackendLifetime for TLC. *)
EXTENDS BackendLifetime
=============================================================================
