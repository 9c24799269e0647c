--------------------------- MODULE SessionClients ---------------------------
(***************************************************************************)
(* The two clients of an inference session in the library: a session       *)
(* object of the C API, through anom_session_predict_batch, and a          *)
(* calibrator, through its own session.  A behaviour has one of them.      *)
(***************************************************************************)
EXTENDS PredictionExport, Calibrator

VARIABLE client

vars == <<client, sessionVars, exportVars, calibratorVars>>

Init ==
  /\ client \in {"predict", "calibrate"}
  /\ InitSession /\ InitExport /\ InitCalibrator
  \* compute sorts numbers: the scores of the direct adapter
  /\ client = "calibrate" => session.algorithm = "direct" /\ \A i \in DOMAIN slots : slots[i].sized

Next ==
  \/ SessionStep /\ UNCHANGED <<client, exportVars, calibratorVars>>
  \/ client = "predict" /\ ExportStep /\ UNCHANGED <<client, calibratorVars>>
  \/ client = "calibrate" /\ CalibratorStep /\ UNCHANGED <<client, exportVars>>

Spec == Init /\ [][Next]_vars
=============================================================================
