----------------------------- MODULE MCPipeline -----------------------------
(* The programs of MCLoopSplit, run. *)
EXTENDS Pipeline, MCLoopSplit
=============================================================================
