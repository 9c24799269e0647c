------------------------- MODULE MCRuntimeSelection -------------------------
(* All requests; the manifest's backend matters to MANIFEST requests only. *)
EXTENDS RuntimeSelection

EveryRequest ==
  {r \in AllRequests : r.device # "MANIFEST" => r.manifest = "TensorRT"}
=============================================================================
