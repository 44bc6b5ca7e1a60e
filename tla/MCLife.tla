------------------------------- MODULE MCLife -------------------------------
(* Two guests' descriptors, three loaders and one operator, who kills no   *)
(* VM that runs.                                                           *)
EXTENDS MHLife

NotRunning == {{"LOADED"}, {"LOADED", "WAITING"}}
=============================================================================
