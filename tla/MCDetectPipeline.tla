--------------------------- MODULE MCDetectPipeline --------------------------
(***************************************************************************)
(* Instances of DetectPipeline for TLC.                                    *)
(***************************************************************************)
EXTENDS DetectPipelineRefinement, TLC

\* ContinueDetect's end, and one that passes.
SomeEnds == {0, 1}
FirstTwo == {1, 2}
=============================================================================
