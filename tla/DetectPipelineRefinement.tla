---------------------- MODULE DetectPipelineRefinement ----------------------
(***************************************************************************)
(* DetectPipeline implements FrameFeed: the queue is what was accepted and *)
(* not taken, and the loop's frame is the last one taken.                  *)
(***************************************************************************)
EXTENDS DetectPipeline

Feed == INSTANCE FrameFeed WITH
  Cap <- QueueCap, taken <- loop.frame, shown <- results,
  busy <- loop.pc = "detect", closing <- life # "live",
  ended <- loop.pc \in {"ended", "panicked"}

\* Run, asyncDetectLoop and whoever takes the session down keep the promises
\* of FrameFeed, in any interleaving, the liveness ones included: every frame
\* that frameForDetection took is detected, once and in its turn, unless the
\* session goes first or the AI service never answers for a frame before it.
ImplementsFeed == Feed!FairSpec
=============================================================================
