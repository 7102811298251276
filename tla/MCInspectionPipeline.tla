------------------------ MODULE MCInspectionPipeline ------------------------
(* The input queues InspectionPipeline is checked with. *)
EXTENDS InspectionPipeline

MCInputs == <<"signals", "frames">>
=============================================================================
