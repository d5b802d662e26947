----------------------------- MODULE MCPipeline -----------------------------
(* Instances of Pipeline for TLC; the cfgs scale the channels down to 1-4. *)
EXTENDS Pipeline
=============================================================================
