------------------------------ MODULE MCFitter ------------------------------
(* Small instances of Fitter.                                              *)
EXTENDS Fitter

CONSTANTS s1, s2, p1

OneSupervisor  == {s1}
TwoSupervisors == {s1, s2}
OnePoller      == {p1}
NoPollers      == {}
=============================================================================
