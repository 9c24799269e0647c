-------------------------- MODULE MCAlgorithmObject --------------------------
(* AlgorithmObject for TLC. *)
EXTENDS AlgorithmObject
=============================================================================
