---------------------------- MODULE MCEngineCache ----------------------------
(* Constants for the runs of EngineCache. *)
EXTENDS EngineCache

AllPolicies == {"EngineOnly", "PreferEngine", "BuildIfMissing"}
Prefer == {"PreferEngine"}
=============================================================================
