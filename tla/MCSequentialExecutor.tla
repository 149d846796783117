------------------------ MODULE MCSequentialExecutor ------------------------
(* Model checking of SequentialExecutor over every dependency graph of a   *)
(* few stages, circular ones and ones with repeated dependencies included. *)
EXTENDS SequentialExecutor

MCStageList == SetToSeq(Stage)
=============================================================================
