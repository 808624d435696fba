---------------------------- MODULE MCEngineRuns ----------------------------
(* The first request may ask for any primitive, the others for a single run. *)
EXTENDS EngineRuns
FirstAny(r) == IF r = 1 THEN Kinds ELSE {"single"}
FirstText(r, l) == IF r = 1 /\ l = 1 THEN 1 ELSE 0
==============================================================================
