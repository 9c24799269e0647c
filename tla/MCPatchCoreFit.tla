--------------------------- MODULE MCPatchCoreFit ---------------------------
(* A small instance of PatchCoreFit: three points on a line, adds of one   *)
(* patch or two, at most four patches in a fit.                            *)
EXTENDS PatchCoreFit

ThreePoints == {0, 2, 3}
OneOrTwo    == {<<0>>, <<2>>, <<0, 3>>, <<3, 2>>}
=============================================================================
